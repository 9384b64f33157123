------------------------------- MODULE Mirror -------------------------------
(***************************************************************************)
(* What a topic streamer promises: the mirror database receives every      *)
(* usable message of a topic before the consumer group's cursor passes it, *)
(* and the cursor never passes a message that could not be parsed.         *)
(***************************************************************************)
EXTENDS Naturals

CONSTANT N      \* messages in the topic, numbered from 1

VARIABLES
    content,    \* what each message holds: "usable", "empty" or "poison"
    stored,     \* messages in the database
    cursor      \* messages 1 .. cursor are done with

mvars == <<content, stored, cursor>>

MInit ==
    /\ content \in [1 .. N -> {"usable", "empty", "poison"}]
    /\ stored = {}
    /\ cursor = 0

\* A batch reaches the database; messages may reach it again.
MWrite ==
    /\ \E S \in SUBSET {o \in 1 .. N : content[o] = "usable"} : stored' = stored \cup S
    /\ UNCHANGED <<content, cursor>>

\* The cursor moves over messages that are stored or have nothing to write.
MCommit ==
    /\ \E n \in cursor .. N :
          /\ \A o \in cursor + 1 .. n : o \in stored \/ content[o] = "empty"
          /\ cursor' = n
    /\ UNCHANGED <<content, stored>>

MNext == MWrite \/ MCommit

MSpec == MInit /\ [][MNext]_mvars
=============================================================================
