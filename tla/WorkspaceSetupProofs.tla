------------------------ MODULE WorkspaceSetupProofs -------------------------
(***************************************************************************)
(* Proofs about WorkspaceSetup, for every set of packages, whatever they    *)
(* require, circles included.                                              *)
(***************************************************************************)
EXTENDS WorkspaceSetup, TLAPS

--------------------------------------------------------------------------
(* order_packages: what is not ordered yet waits for exactly what it needs  *)
(* and is not ordered either.                                              *)

ReduceInv ==
    /\ \A p \in DOMAIN packages : packages[p] \subseteq to_be_ordered \intersect DOMAIN packages
    /\ \A p \in to_be_ordered \intersect DOMAIN packages : packages[p] # {}
    /\ to_be_ordered \intersect DOMAIN packages # {}
    /\ last_depended \subseteq to_be_ordered
    /\ last_depended # {} => DOMAIN packages \subseteq last_depended

OrderInv ==
    /\ to_be_ordered \subseteq Packages /\ ordered \in Seq(Packages)
    /\ Placed \union to_be_ordered = Packages /\ Placed \intersect to_be_ordered = {}
    /\ DependenciesFirst
    /\ \A i, j \in 1 .. Len(ordered) : ordered[i] = ordered[j] => i = j
    /\ phase = "ordering" =>
          /\ packages = [p \in Packages |-> (Requires[p] \intersect Packages) \ Placed]
          /\ last_depended = {}
    /\ phase = "sourcing" => to_be_ordered = {}
    /\ phase = "reducing" => ReduceInv
    /\ CircularIsNamed

LEMMA OrderStarts == Init => OrderInv
  BY DEF Init, OrderInv, InitialPackages, Placed, DependenciesFirst, ReduceInv, CircularIsNamed

\* A package is appended when all it needs has been.
LEMMA TakeKeepsOrder == ASSUME OrderInv, NEW p \in Packages, Take(p) PROVE OrderInv'
<1> DEFINE n == Len(ordered)
<1>1. /\ ordered \in Seq(Packages) /\ n \in Nat
      /\ ordered' \in Seq(Packages) /\ Len(ordered') = n + 1
      /\ ordered'[n + 1] = p
      /\ \A i \in 1 .. n : ordered'[i] = ordered[i]
  BY DEF OrderInv, Take
<1>2. Placed' = Placed \union {p}
  BY <1>1 DEF Placed
<1>3. p \notin Placed /\ packages[p] = {} /\ phase = "ordering" /\ phase' = "ordering"
  BY DEF Take, OrderInv
<1>4. Requires[p] \intersect Packages \subseteq Placed
  BY <1>3 DEF OrderInv
<1>5. DependenciesFirst'
  <2> SUFFICES ASSUME NEW i \in 1 .. n + 1
               PROVE  Requires[ordered'[i]] \intersect Packages
                        \subseteq {ordered'[j] : j \in 1 .. i - 1}
    BY <1>1 DEF DependenciesFirst
  <2>1. CASE i = n + 1
    <3>1. Placed = {ordered'[j] : j \in 1 .. i - 1}
      BY <1>1, <2>1 DEF Placed
    <3> QED BY <1>1, <1>4, <2>1, <3>1
  <2>2. CASE i # n + 1
    <3>1. i \in 1 .. n /\ ordered'[i] = ordered[i]
      BY <1>1, <2>2
    <3>2. {ordered'[j] : j \in 1 .. i - 1} = {ordered[j] : j \in 1 .. i - 1}
      BY <1>1, <3>1
    <3> QED BY <3>1, <3>2 DEF OrderInv, DependenciesFirst
  <2> QED BY <2>1, <2>2
<1>6. \A i, j \in 1 .. Len(ordered') : ordered'[i] = ordered'[j] => i = j
  <2>1. \A i \in 1 .. n : ordered'[i] # p
    BY <1>1, <1>3 DEF Placed
  <2> QED BY <1>1, <2>1 DEF OrderInv
<1>7. /\ packages' = [q \in Packages |-> (Requires[q] \intersect Packages) \ Placed']
      /\ last_depended' = {}
  BY <1>2, <1>3 DEF OrderInv, Take
<1>8. /\ to_be_ordered' \subseteq Packages
      /\ Placed' \union to_be_ordered' = Packages /\ Placed' \intersect to_be_ordered' = {}
  BY <1>2, <1>3 DEF OrderInv, Take
<1> QED BY <1>1, <1>3, <1>5, <1>6, <1>7, <1>8 DEF OrderInv, CircularIsNamed

\* When nothing is ready, what is left depends on what is left.
LEMMA NothingReadyKeepsOrder == ASSUME OrderInv, NothingReady PROVE OrderInv'
<1>1. ReduceInv'
  BY DEF OrderInv, NothingReady, ReduceInv, ordering
<1>2. Placed' = Placed /\ DependenciesFirst'
  BY DEF NothingReady, OrderInv, Placed, DependenciesFirst
<1> QED BY <1>1, <1>2 DEF OrderInv, NothingReady, CircularIsNamed, ordering

\* A round drops only packages nobody waits for, so that what one of the rest waits for stays;
\* and when two rounds found the same dependencies, every package left is one of them.
LEMMA ReduceKeepsOrder == ASSUME OrderInv, Reduce PROVE OrderInv'
<1> DEFINE depended == UNION {packages[p] : p \in DOMAIN packages}
           left == DOMAIN packages \intersect depended
<1>1. ReduceInv /\ phase = "reducing" /\ to_be_ordered' = to_be_ordered /\ ordered' = ordered
  BY DEF OrderInv, Reduce
<1>2. packages' = [p \in left |-> packages[p]]
  BY DEF Reduce
<1>3. depended \subseteq to_be_ordered /\ left \subseteq to_be_ordered
  BY <1>1 DEF ReduceInv
<1>4. \A p \in left : packages[p] \subseteq left /\ packages[p] # {}
  BY <1>1, <1>3 DEF ReduceInv
<1>5. left # {}
  BY <1>1 DEF ReduceInv
<1>6. CASE last_depended # {} /\ last_depended = depended
  <2>1. left = DOMAIN packages
    BY <1>1, <1>6 DEF ReduceInv
  <2>2. CircularIsNamed'
    BY <1>2, <1>4, <1>5, <2>1 DEF CircularIsNamed
  <2> QED BY <1>1, <1>6, <2>2 DEF OrderInv, Reduce, Placed, DependenciesFirst
<1>7. CASE ~(last_depended # {} /\ last_depended = depended)
  <2>1. phase' = "reducing" /\ last_depended' = depended
    BY <1>1, <1>7 DEF Reduce
  <2>2. ReduceInv'
    BY <1>1, <1>2, <1>3, <1>4, <1>5, <2>1 DEF ReduceInv
  <2> QED BY <1>1, <2>1, <2>2 DEF OrderInv, Placed, DependenciesFirst, CircularIsNamed
<1> QED BY <1>6, <1>7

LEMMA OrderIsKept == OrderInv /\ [Next]_vars => OrderInv'
<1> SUFFICES ASSUME OrderInv, [Next]_vars PROVE OrderInv'
  OBVIOUS
<1>1. ASSUME NEW p \in Packages, Take(p) PROVE OrderInv'
  BY <1>1, TakeKeepsOrder
<1>2. CASE AllOrdered
  BY <1>2 DEF AllOrdered, OrderInv, Placed, DependenciesFirst, CircularIsNamed, ordering
<1>3. CASE NothingReady
  BY <1>3, NothingReadyKeepsOrder
<1>4. CASE Reduce
  BY <1>4, ReduceKeepsOrder
<1>5. CASE NothingLeft
  BY <1>5 DEF NothingLeft, OrderInv, ReduceInv
<1>6. CASE Source
  <2>1. phase = "sourcing" /\ phase' \in {"sourcing", "failed"}
    BY <1>6 DEF Source, Handle, Extend, ExtendText, Set, SetIfUnset
  <2> QED BY <1>6, <2>1 DEF Source, OrderInv, Placed, DependenciesFirst, CircularIsNamed, ordering
<1>7. CASE NextPackage
  BY <1>7 DEF NextPackage, OrderInv, Placed, DependenciesFirst, CircularIsNamed, ordering
<1>8. CASE UNCHANGED vars
  BY <1>8 DEF vars, ordering, OrderInv, Placed, DependenciesFirst, CircularIsNamed, ReduceInv
<1> QED BY <1>1, <1>2, <1>3, <1>4, <1>5, <1>6, <1>7, <1>8 DEF Next

THEOREM OrderInvariant == Spec => []OrderInv
  BY OrderStarts, OrderIsKept, PTL DEF Spec

\* Whatever the packages require, each comes after what it needs.
THEOREM OrderIsTopological == Spec => []DependenciesFirst
<1>1. OrderInv => DependenciesFirst
  BY DEF OrderInv
<1> QED BY <1>1, OrderInvariant, PTL

\* No package comes twice, and the hooks are run of all of them.
THEOREM OrderIsComplete == Spec => []EachPackageOnce
<1>1. OrderInv => EachPackageOnce
  BY DEF OrderInv, EachPackageOnce
<1> QED BY <1>1, OrderInvariant, PTL

\* A failed ordering names at least one package, and only packages that wait for each other;
\* reduce_cycle_set never comes out empty-handed, whether the packages are finitely many or not.
THEOREM CircleIsReported == Spec => []CircularIsNamed
<1>1. OrderInv => CircularIsNamed
  BY DEF OrderInv
<1> QED BY <1>1, OrderInvariant, PTL

--------------------------------------------------------------------------
(* The hooks: what the script knows to be in a variable that is only        *)
(* extended covers what is in it.                                          *)

Hook == [type : {"append", "prepend", "prepend-if-exists", "set", "set-if-unset"},
         name : Names, value : Values]

\* What files and an environment can hold.
Inputs == /\ Hooks \in [Packages -> Seq(Hook)]
          /\ Environ \in [Names -> [Values -> Nat]]

Covered(n) ==
    /\ env_state[n] # "text"
    /\ env_state[n] = "unknown" => shell[n] = Environ[n]
    /\ env_state[n] = "set" => \A v \in Values : shell[n][v] > 0 => v \in known[n]
    /\ \A v \in Values : Environ[n][v] <= 1 => shell[n][v] <= 1

\* The part of it that hooks can disturb.
VariablesInv ==
    /\ env_state \in [Names -> {"unknown", "text", "set"}]
    /\ known \in [Names -> SUBSET Values]
    /\ shell \in [Names -> [Values -> Nat]]
    /\ \A n \in Names : OnlyExtended(n) => Covered(n)

EnvironmentInv ==
    /\ Inputs
    /\ turn \in Nat \ {0} /\ line \in Nat \ {0}
    /\ VariablesInv

LEMMA EnvironmentStarts == Inputs /\ Init => EnvironmentInv
  BY DEF Init, EnvironmentInv, VariablesInv, Inputs, Covered

LEMMA ExtendKeepsCover ==
  ASSUME EnvironmentInv, NEW n \in Names, NEW v \in Values, Extend(n, v)
  PROVE  VariablesInv'
<1> DEFINE values == IF env_state[n] = "unknown" THEN {w \in Values : Environ[n][w] > 0} ELSE known[n]
<1>1. /\ env_state' \in [Names -> {"unknown", "text", "set"}]
      /\ known' \in [Names -> SUBSET Values]
      /\ shell' \in [Names -> [Values -> Nat]]
  BY DEF Extend, EnvironmentInv, VariablesInv, Inputs
<1>2. ASSUME NEW m \in Names, OnlyExtended(m), m # n PROVE Covered(m)'
  <2>1. env_state'[m] = env_state[m] /\ known'[m] = known[m] /\ shell'[m] = shell[m]
    BY <1>2 DEF Extend, EnvironmentInv, VariablesInv
  <2>2. Covered(m)
    BY <1>2 DEF EnvironmentInv, VariablesInv
  <2> QED BY <2>1, <2>2 DEF Covered
<1>3. ASSUME OnlyExtended(n) PROVE Covered(n)'
  <2>1. Covered(n)
    BY <1>3 DEF EnvironmentInv, VariablesInv
  <2>2. \A w \in Values : shell[n][w] > 0 => w \in values
    BY <2>1 DEF Covered, EnvironmentInv, VariablesInv, Inputs
  <2>3. env_state'[n] = "set" /\ known'[n] = values \union {v}
    BY DEF Extend, EnvironmentInv, VariablesInv
  <2>4. CASE v \in values
    <3>1. shell'[n] = shell[n]
      BY <2>4 DEF Extend
    <3> QED BY <2>1, <2>2, <2>3, <3>1 DEF Covered
  <2>5. CASE v \notin values
    <3>1. shell[n][v] = 0
      BY <2>2, <2>5 DEF EnvironmentInv, VariablesInv
    <3>2. \A w \in Values : shell'[n][w] = IF w = v THEN 1 ELSE shell[n][w]
      BY <2>5, <3>1 DEF Extend, EnvironmentInv, VariablesInv
    <3>3. \A w \in Values : shell'[n][w] > 0 => w \in known'[n]
      BY <2>2, <2>3, <3>2
    <3>4. \A w \in Values : Environ[n][w] <= 1 => shell'[n][w] <= 1
      BY <2>1, <3>2 DEF Covered
    <3> QED BY <2>3, <3>3, <3>4 DEF Covered
  <2> QED BY <2>4, <2>5
<1> QED BY <1>1, <1>2, <1>3 DEF VariablesInv, OnlyExtended

\* A hook that sets a variable does not concern those that are only extended.
LEMMA SetKeepsCover ==
  ASSUME EnvironmentInv, NEW n \in Names, NEW v \in Values, ~OnlyExtended(n),
         Set(n, v) \/ SetIfUnset(n, v)
  PROVE  VariablesInv'
<1>1. /\ env_state' \in [Names -> {"unknown", "text", "set"}]
      /\ known' \in [Names -> SUBSET Values]
      /\ shell' \in [Names -> [Values -> Nat]]
  <2>1. CASE Set(n, v)
    BY <2>1 DEF Set, EnvironmentInv, VariablesInv
  <2>2. CASE SetIfUnset(n, v)
    <3> DEFINE one == [w \in Values |-> IF w = v THEN 1 ELSE 0]
    <3>1. one \in [Values -> Nat]
      OBVIOUS
    <3>2. shell' \in {shell, [shell EXCEPT ![n] = one]}
      BY <2>2 DEF SetIfUnset
    <3> QED BY <2>2, <3>1, <3>2 DEF SetIfUnset, EnvironmentInv, VariablesInv
  <2> QED BY <2>1, <2>2
<1>2. ASSUME NEW m \in Names, OnlyExtended(m) PROVE Covered(m)'
  <2>1. m # n
    BY <1>2
  <2>2. env_state'[m] = env_state[m] /\ known'[m] = known[m] /\ shell'[m] = shell[m]
    BY <2>1 DEF Set, SetIfUnset, EnvironmentInv, VariablesInv
  <2>3. Covered(m)
    BY <1>2 DEF EnvironmentInv, VariablesInv
  <2> QED BY <2>2, <2>3 DEF Covered
<1> QED BY <1>1, <1>2 DEF VariablesInv, OnlyExtended

LEMMA EnvironmentIsKept == OrderInv /\ EnvironmentInv /\ [Next]_vars => EnvironmentInv'
<1> SUFFICES ASSUME OrderInv, EnvironmentInv, [Next]_vars PROVE EnvironmentInv'
  OBVIOUS
<1>1. ASSUME UNCHANGED environment PROVE VariablesInv'
  BY <1>1 DEF environment, EnvironmentInv, VariablesInv, Covered, OnlyExtended
<1>2. turn' \in Nat \ {0} /\ line' \in Nat \ {0}
  BY DEF Next, vars, Take, AllOrdered, NothingReady, Reduce, NothingLeft, Source, NextPackage,
         EnvironmentInv
<1>3. CASE Source
  <2> DEFINE p == ordered[turn]
             hook == Hooks[p][line]
  <2>1. p \in Packages /\ line \in 1 .. Len(Hooks[p]) /\ Hooks[p] \in Seq(Hook)
    BY <1>3 DEF Source, OrderInv, EnvironmentInv, Inputs
  <2>2. hook \in Hook
    BY <2>1
  <2>6. hook.name \in Names /\ hook.value \in Values
    BY <2>2 DEF Hook
  <2>3. hook.type \in {"set", "set-if-unset"} => ~OnlyExtended(hook.name)
    BY <2>1 DEF OnlyExtended
  <2>4. \/ Extend(hook.name, hook.value)
        \/ UNCHANGED environment
        \/ /\ hook.type \in {"set", "set-if-unset"}
           /\ Set(hook.name, hook.value) \/ SetIfUnset(hook.name, hook.value)
    BY <1>3 DEF Source, Handle, ExtendText
  <2>5. VariablesInv'
    BY <1>1, <2>6, <2>3, <2>4, ExtendKeepsCover, SetKeepsCover
  <2> QED BY <1>2, <2>5 DEF EnvironmentInv, Inputs
<1>4. CASE ~Source
  <2>1. UNCHANGED environment
    BY <1>4 DEF Next, vars, environment, Take, AllOrdered, NothingReady, Reduce, NothingLeft,
                NextPackage
  <2> QED BY <1>1, <1>2, <2>1 DEF EnvironmentInv, Inputs
<1> QED BY <1>3, <1>4

\* However many hooks of however many packages extend a variable, no path is added to it that
\* is there already.
THEOREM PathsAreAddedOnce == Inputs /\ Spec => []PathsOnce
<1>1. EnvironmentInv => PathsOnce
  BY DEF EnvironmentInv, VariablesInv, Inputs, Covered, PathsOnce
<1> QED BY <1>1, OrderInvariant, EnvironmentStarts, EnvironmentIsKept, PTL DEF Spec
=============================================================================
