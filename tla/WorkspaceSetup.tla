--------------------------- MODULE WorkspaceSetup ----------------------------
(***************************************************************************)
(* The script that the workspace of the ROS agent is set up with            *)
(* (install/_local_setup_util_sh.py): the installed packages are brought    *)
(* into an order in which each comes after the packages it needs, or a      *)
(* circle among them is reported; then the environment hooks of each package *)
(* extend the variables of the shell, with no path twice.                   *)
(*                                                                         *)
(* Of the packages that could come next the script takes the alphabetically  *)
(* first; the model takes any.  A shell variable is how often each value is *)
(* in it.                                                                   *)
(***************************************************************************)
EXTENDS Naturals, Sequences

CONSTANTS Packages,       \* the packages found in the workspace
          Requires,       \* Requires[p]: what p's file says it needs, installed here or not
          Hooks,          \* Hooks[p]: the hooks of p's package.dsv, and of the .dsv files it names, in
                          \* their order (the scripts they source are left out)
          Names, Values,  \* of environment variables
          Environ         \* Environ[n]: the values in n before, how often each

VARIABLES
    phase,         \* "ordering", "reducing", "circular", "sourcing", "failed" or "done"
    packages,      \* from each package to what it still waits for
    to_be_ordered, \* packages not in the order yet
    ordered,       \* the order so far
    last_depended, \* of the last round of reduce_cycle_set; {} before the first
    turn, line,    \* the hook that is next: ordered[turn]'s, at that line
    env_state,     \* what the script knows of each variable: "unknown", "text" or "set",
    known,         \* and the values in it
    shell          \* the variables the emitted commands leave in the shell

ordering == <<packages, to_be_ordered, last_depended>>
environment == <<env_state, known, shell>>
vars == <<phase, ordering, ordered, turn, line, environment>>

--------------------------------------------------------------------------
(* order_packages. *)

\* get_packages: what is not installed here is not waited for.
InitialPackages == [p \in Packages |-> Requires[p] \intersect Packages]

\* A package that waits for nothing is next, and nobody waits for it any more.
Take(p) ==
    /\ phase = "ordering"
    /\ p \in to_be_ordered /\ packages[p] = {}
    /\ to_be_ordered' = to_be_ordered \ {p}
    /\ ordered' = Append(ordered, p)
    /\ packages' = [q \in DOMAIN packages |-> packages[q] \ {p}]
    /\ UNCHANGED <<phase, last_depended, turn, line, environment>>

AllOrdered ==
    /\ phase = "ordering" /\ to_be_ordered = {}
    /\ phase' = "sourcing"
    /\ UNCHANGED <<ordering, ordered, turn, line, environment>>

NothingReady ==
    /\ phase = "ordering" /\ to_be_ordered # {}
    /\ \A p \in to_be_ordered : packages[p] # {}
    /\ phase' = "reducing"
    /\ UNCHANGED <<ordering, ordered, turn, line, environment>>

\* reduce_cycle_set, one round: the packages nobody waits for are no part of a circle.  It
\* ends when a round finds the same dependencies as the one before, or no package is left.
Reduce ==
    LET depended == UNION {packages[p] : p \in DOMAIN packages}
    IN /\ phase = "reducing" /\ DOMAIN packages # {}
       /\ packages' = [p \in DOMAIN packages \intersect depended |-> packages[p]]
       /\ IF last_depended # {} /\ last_depended = depended
          THEN phase' = "circular" /\ UNCHANGED last_depended
          ELSE phase' = phase /\ last_depended' = depended
       /\ UNCHANGED <<to_be_ordered, ordered, turn, line, environment>>

NothingLeft ==
    /\ phase = "reducing" /\ DOMAIN packages = {}
    /\ phase' = "circular"
    /\ UNCHANGED <<ordering, ordered, turn, line, environment>>

--------------------------------------------------------------------------
(* get_commands, process_dsv_file and handle_dsv_types_except_source. *)

\* _append_unique_value, _prepend_unique_value.  What the variable holds is read from the
\* environment the first time; a value it holds already is not added.
Extend(n, v) ==
    LET values == IF env_state[n] = "unknown" THEN {w \in Values : Environ[n][w] > 0} ELSE known[n]
    IN /\ env_state[n] # "text"
       /\ env_state' = [env_state EXCEPT ![n] = "set"]
       /\ known' = [known EXCEPT ![n] = values \union {v}]
       /\ shell' = IF v \in values THEN shell ELSE [shell EXCEPT ![n][v] = @ + 1]
       /\ phase' = phase

\* After _set the variable is text: a value that occurs in it is taken for one that is there
\* already, and another one cannot be added to it.
ExtendText(n) ==
    /\ env_state[n] = "text"
    /\ phase' \in {phase, "failed"}
    /\ UNCHANGED environment

\* _set.
Set(n, v) ==
    /\ env_state' = [env_state EXCEPT ![n] = "text"]
    /\ known' = [known EXCEPT ![n] = {}]
    /\ shell' = [shell EXCEPT ![n] = [w \in Values |-> IF w = v THEN 1 ELSE 0]]
    /\ phase' = phase

\* _set_if_unset, which does not note that it set the variable.
SetIfUnset(n, v) ==
    /\ shell' = IF \/ env_state[n] # "unknown"
                   \/ \E w \in Values : Environ[n][w] > 0
                THEN shell
                ELSE [shell EXCEPT ![n] = [w \in Values |-> IF w = v THEN 1 ELSE 0]]
    /\ UNCHANGED <<phase, env_state, known>>

\* A path that is only added if it exists may not exist.
Handle(hook) ==
    \/ /\ hook.type \in {"append", "prepend", "prepend-if-exists"}
       /\ Extend(hook.name, hook.value) \/ ExtendText(hook.name)
    \/ hook.type = "prepend-if-exists" /\ UNCHANGED <<phase, environment>>
    \/ hook.type = "set" /\ Set(hook.name, hook.value)
    \/ hook.type = "set-if-unset" /\ SetIfUnset(hook.name, hook.value)

\* main: the next hook of the package whose turn it is, or the next package.
Source ==
    /\ phase = "sourcing" /\ turn <= Len(ordered)
    /\ line <= Len(Hooks[ordered[turn]])
    /\ Handle(Hooks[ordered[turn]][line])
    /\ line' = line + 1
    /\ UNCHANGED <<ordering, ordered, turn>>

NextPackage ==
    /\ phase = "sourcing" /\ turn <= Len(ordered)
    /\ line > Len(Hooks[ordered[turn]])
    /\ turn' = turn + 1 /\ line' = 1
    /\ UNCHANGED <<phase, ordering, ordered, environment>>

--------------------------------------------------------------------------
Init ==
    /\ phase = "ordering"
    /\ packages = InitialPackages /\ to_be_ordered = Packages
    /\ ordered = <<>> /\ last_depended = {}
    /\ turn = 1 /\ line = 1
    /\ env_state = [n \in Names |-> "unknown"] /\ known = [n \in Names |-> {}]
    /\ shell = Environ

Next ==
    \/ \E p \in Packages : Take(p)
    \/ AllOrdered \/ NothingReady \/ Reduce \/ NothingLeft
    \/ Source \/ NextPackage

Spec == Init /\ [][Next]_vars

--------------------------------------------------------------------------
Placed == {ordered[i] : i \in 1 .. Len(ordered)}

\* Every package comes after the installed packages it needs: its hooks may rely on theirs.
DependenciesFirst ==
    \A i \in 1 .. Len(ordered) :
        Requires[ordered[i]] \intersect Packages \subseteq {ordered[j] : j \in 1 .. i - 1}

\* No package comes twice, and none is left out when the hooks are run.
EachPackageOnce ==
    /\ \A i, j \in 1 .. Len(ordered) : ordered[i] = ordered[j] => i = j
    /\ phase = "sourcing" => Placed = Packages

\* The packages reported as circular are at least one, each needs one of them, waits only for
\* them, and is needed by one of them.  That is less than the docstring says of reduce_cycle_set,
\* "the ones part of the circular dependency": a package between two circles stays as well.
CircularIsNamed ==
    phase = "circular" =>
        /\ DOMAIN packages # {}
        /\ \A p \in DOMAIN packages :
              /\ packages[p] # {} /\ packages[p] \subseteq DOMAIN packages
              /\ \E q \in DOMAIN packages : p \in packages[q]

\* A variable that no hook sets, only extends, never has a path twice that it did not have twice.
OnlyExtended(n) ==
    \A p \in Packages : \A i \in 1 .. Len(Hooks[p]) :
        Hooks[p][i].name = n => Hooks[p][i].type \notin {"set", "set-if-unset"}

PathsOnce ==
    \A n \in Names, v \in Values :
        OnlyExtended(n) /\ Environ[n][v] <= 1 => shell[n][v] <= 1
=============================================================================
