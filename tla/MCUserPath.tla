----------------------------- MODULE MCUserPath ------------------------------
EXTENDS WebClient

\* What a client other than the page sends: a sequence of one line, with an id.
MCCommands ==
    {[method |-> "execute_sequence", params |-> [command |-> None, commands |-> "home"], id |-> "id"]}

\* What does not depend on the state, for every id up to the bound.
ASSUME TopicNames == TopicNamesRoundTrip
=============================================================================
