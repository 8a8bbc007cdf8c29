------------------------- MODULE OperatorChallenge --------------------------
(***************************************************************************)
(* agent_ros/safety/challenge.py: the single-use challenge that arms a     *)
(* hardware robot.                                                         *)
(*                                                                         *)
(* An operator's command writes a record with the hash of a fresh token,   *)
(* replacing the last one.  arm_robot() presents a token: under an flock   *)
(* it reads the record, judges it and replaces it by the same one marked   *)
(* used.  Writing a record is atomic, but the operator's command does not  *)
(* take the lock, and what a consumer writes back is what it has read.     *)
(*                                                                         *)
(* Consumers may be threads of several processes.  A process killed drops  *)
(* its lock; after a reboot the monotonic clock starts again.              *)
(***************************************************************************)
EXTENDS Naturals

CONSTANTS Consumers,  \* threads that may present a token
          Tokens,     \* the tokens an operator may be given
          TimeToLive, \* the lifetime of a record
          MaxNow,     \* bound of the clock within one boot
          MaxBoots,   \* bound of the boots
          Nil

ASSUME ChallengeAssumption == /\ {TimeToLive, MaxNow, MaxBoots} \subseteq Nat
                              /\ Nil \notin Consumers \cup Tokens

VARIABLES record,    \* <profile>.challenge.json
          draft,     \* the record an operator's command is about to write
          issued,    \* tokens drawn so far
          holder,    \* who holds the flock
          step,      \* where each consumer is
          presented, \* the token it presents, Nil for any other
          read,      \* the record it has read
          uses,      \* how often each token was accepted (history)
          now, boot  \* the monotonic clock and the boot

challenge == <<record, draft, issued, holder, step, presented, read, uses, now, boot>>

Records == [token : Tokens, expires : Nat, boot : Nat, used : BOOLEAN]

NoRecord == [token |-> Nil, expires |-> 0, boot |-> 0, used |-> TRUE]

ChallengeInit == /\ record = NoRecord /\ draft = NoRecord /\ issued = {} /\ holder = Nil
                 /\ step = [c \in Consumers |-> "idle"]
                 /\ presented = [c \in Consumers |-> Nil]
                 /\ read = [c \in Consumers |-> NoRecord]
                 /\ uses = [t \in Tokens |-> 0]
                 /\ now = 0 /\ boot = 1

At(c, place) == step' = [step EXCEPT ![c] = place]

-----------------------------------------------------------------------------
(* The operator.                                                           *)

DrawToken(t) ==
    /\ draft = NoRecord
    /\ t \notin issued
    /\ draft' = [token |-> t, expires |-> now + TimeToLive, boot |-> boot, used |-> FALSE]
    /\ issued' = issued \cup {t}
    /\ UNCHANGED <<record, holder, step, presented, read, uses, now, boot>>

WriteChallenge ==
    /\ draft # NoRecord
    /\ record' = draft
    /\ draft' = NoRecord
    /\ UNCHANGED <<issued, holder, step, presented, read, uses, now, boot>>

-----------------------------------------------------------------------------
(* A consumer.                                                             *)

Present(c, t) ==
    /\ step[c] = "idle"
    /\ presented' = [presented EXCEPT ![c] = t]
    /\ At(c, "lock")
    /\ UNCHANGED <<record, draft, issued, holder, read, uses, now, boot>>

\* (fault) The record is read without the lock.
LockNothing(c) ==
    /\ step[c] = "lock"
    /\ At(c, "read")
    /\ UNCHANGED <<record, draft, issued, holder, presented, read, uses, now, boot>>

Lock(c) ==
    /\ step[c] = "lock"
    /\ holder = Nil
    /\ holder' = c
    /\ At(c, "read")
    /\ UNCHANGED <<record, draft, issued, presented, read, uses, now, boot>>

ReadRecord(c) ==
    /\ step[c] = "read"
    /\ read' = [read EXCEPT ![c] = record]
    /\ At(c, "judge")
    /\ UNCHANGED <<record, draft, issued, holder, presented, uses, now, boot>>

\* _valid_record(), with the clock and the boot of the moment.
Valid(c) == /\ read[c].token = presented[c]
            /\ ~read[c].used
            /\ read[c].boot = boot
            /\ now < read[c].expires

\* The answer, and the lock released.
Answer(c, place) ==
    /\ At(c, place)
    /\ holder' = IF holder = c THEN Nil ELSE holder
    /\ presented' = [presented EXCEPT ![c] = Nil]
    /\ read' = [read EXCEPT ![c] = NoRecord]
    /\ UNCHANGED <<draft, issued, now, boot>>

Judge(c) ==
    /\ step[c] = "judge"
    /\ \/ /\ Valid(c)
          /\ At(c, "write")
          /\ UNCHANGED <<record, draft, issued, holder, presented, read, uses, now, boot>>
       \/ /\ ~Valid(c)
          /\ Answer(c, "refused")
          /\ UNCHANGED <<record, uses>>

\* {**record, "used": True}
Used(copy) == [token |-> copy.token, expires |-> copy.expires, boot |-> copy.boot,
               used |-> TRUE]

\* (fault) The record is accepted as it is.
Keep(c) ==
    /\ step[c] = "write"
    /\ uses' = [uses EXCEPT ![presented[c]] = @ + 1]
    /\ Answer(c, "accepted")
    /\ UNCHANGED record

MarkUsed(c) ==
    /\ step[c] = "write"
    /\ record' = Used(read[c])
    /\ uses' = [uses EXCEPT ![presented[c]] = @ + 1]
    /\ Answer(c, "accepted")

\* Writing fails before the replacement, or after it.
MarkFails(c) ==
    /\ step[c] = "write"
    /\ record' \in {record, Used(read[c])}
    /\ UNCHANGED uses
    /\ Answer(c, "refused")

\* The caller takes its answer.
Forget(c) ==
    /\ step[c] \in {"accepted", "refused"}
    /\ At(c, "idle")
    /\ UNCHANGED <<record, draft, issued, holder, presented, read, uses, now, boot>>

Consume(c) == Lock(c) \/ ReadRecord(c) \/ Judge(c) \/ MarkUsed(c) \/ MarkFails(c)

-----------------------------------------------------------------------------
(* Time, and the end of processes.                                         *)

TimePasses == /\ now < MaxNow
              /\ now' = now + 1
              /\ UNCHANGED <<record, draft, issued, holder, step, presented, read, uses, boot>>

\* The consumers in S are killed; the kernel drops their lock.
Killed(S) == /\ step' = [c \in Consumers |-> IF c \in S THEN "idle" ELSE step[c]]
             /\ presented' = [c \in Consumers |-> IF c \in S THEN Nil ELSE presented[c]]
             /\ read' = [c \in Consumers |-> IF c \in S THEN NoRecord ELSE read[c]]
             /\ holder' = IF holder \in S THEN Nil ELSE holder

KillConsumers(S) == /\ Killed(S)
           /\ UNCHANGED <<record, draft, issued, uses, now, boot>>

\* Everything is killed and the clock starts from zero.
Reboot == /\ boot < MaxBoots
          /\ boot' = boot + 1
          /\ now' = 0
          /\ Killed(Consumers)
          /\ draft' = NoRecord
          /\ UNCHANGED <<record, issued, uses>>

OperatorNext == WriteChallenge \/ \E t \in Tokens : DrawToken(t)

ChallengeNext ==
    \/ OperatorNext \/ TimePasses \/ Reboot
    \/ \E c \in Consumers : \/ Consume(c) \/ Forget(c)
                            \/ \E t \in issued \cup {Nil} : Present(c, t)
    \/ \E S \in SUBSET Consumers : KillConsumers(S)

ChallengeSpec == ChallengeInit /\ [][ChallengeNext]_challenge

-----------------------------------------------------------------------------
(* Properties.                                                             *)

\* A token arms a robot at most once, whoever presents it, in however many
\* processes and boots, and whatever fails while it is marked: consumers
\* that read before the mark, a record that is replaced meanwhile, a killed
\* process.  (The mark of an older record may overwrite a new challenge. That
\* challenge is then lost, but no used token comes back.)
SingleUse == \A t \in Tokens : uses[t] <= 1

=============================================================================
