--------------------------- MODULE ActivationGate ---------------------------
(***************************************************************************)
(* What the safety sequencer promises its users, without threads, queues   *)
(* or receipts: activation commands pass a gate one at a time, each once;  *)
(* the gate closes once and for ever; after it has closed nobody new       *)
(* passes; and a stop may be told "quiesced" only when nobody is inside.   *)
(***************************************************************************)
CONSTANTS Calls,      \* commands that pass through the activation worker
          OwnedCalls, \* commands that run inside the boundary itself
          Stops,      \* emergency stops
          Nobody      \* no call

VARIABLES open,     \* may a command still enter
          inside,   \* the call whose command the worker is executing
          ran,      \* the calls whose command has run
          promised  \* the stops that were told "quiesced"

gateVars == <<open, inside, ran, promised>>

GateInit == /\ open = TRUE
            /\ inside = Nobody
            /\ ran = {}
            /\ promised = {}

\* A command enters: only through an open gate, only alone, only once.
Enter(c) == /\ open
            /\ inside = Nobody
            /\ c \notin ran
            /\ inside' = c
            /\ UNCHANGED <<open, ran, promised>>

\* The command that is inside runs, and runs no second time.
Perform(c) == /\ inside = c
              /\ c \notin ran
              /\ ran' = ran \cup {c}
              /\ UNCHANGED <<open, inside, promised>>

Leave == /\ inside # Nobody
         /\ inside \in ran
         /\ inside' = Nobody
         /\ UNCHANGED <<open, ran, promised>>

\* An owned command enters, runs and leaves in one step.
Pass(o) == /\ open
           /\ o \notin ran
           /\ ran' = ran \cup {o}
           /\ UNCHANGED <<open, inside, promised>>

Shut == /\ open' = FALSE
        /\ UNCHANGED <<inside, ran, promised>>

\* A stop is told that activation is silent. The step that shuts the gate may
\* be the one that makes the promise, when nobody is inside.
Promise(s) == /\ inside = Nobody
              /\ open' = FALSE
              /\ promised' = promised \cup {s}
              /\ UNCHANGED <<inside, ran>>

GateNext == \/ \E c \in Calls : Enter(c) \/ Perform(c)
            \/ Leave
            \/ \E o \in OwnedCalls : Pass(o)
            \/ Shut
            \/ \E s \in Stops : Promise(s)

GateSpec == GateInit /\ [][GateNext]_gateVars

=============================================================================
