--------------------------- MODULE VersionRegister ---------------------------
(***************************************************************************)
(* What concurrent uploads amount to: a register of the versions of all    *)
(* documents to which contents are added one after the other, each once    *)
(* and with the next number of its document.  A client that brings a       *)
(* content is answered with its entry, and is told whether it has made it  *)
(* since it last asked: interrupted after making it, it may ask again.     *)
(***************************************************************************)
EXTENDS Naturals

CONSTANTS
    Clients,        \* requests
    Keys,           \* documents
    Contents,       \* digests
    NoAnswer

VARIABLES
    register,   \* the entries [key, number, content]
    request,    \* what each client brings
    stage,      \* how far it is
    answer      \* its entry, and whether it is told that it has made it

registerVars == <<register, request, stage, answer>>

Brought == [key : Keys, content : Contents]
Stages == {"idle", "asked", "made", "answered", "gone"}

\* n continues the numbers of document k.
Continues(k, n) ==
    /\ \A e \in register : e.key = k => e.number < n
    /\ n = 1 \/ \E e \in register : e.key = k /\ e.number + 1 = n

Entered(c) == {e \in register :
                e.key = request[c].key /\ e.content = request[c].content}

-----------------------------------------------------------------------------
Init ==
    /\ register = {}
    /\ request \in [Clients -> Brought]
    /\ stage = [c \in Clients |-> "idle"]
    /\ answer = [c \in Clients |-> NoAnswer]

Ask(c) ==
    /\ stage[c] = "idle"
    /\ stage' = [stage EXCEPT ![c] = "asked"]
    /\ UNCHANGED <<register, request, answer>>

\* The content is not in the document yet.
Make(c) ==
    /\ stage[c] = "asked"
    /\ Entered(c) = {}
    /\ stage' = [stage EXCEPT ![c] = "made"]
    /\ \E n \in {1} \cup {e.number + 1 : e \in register} :
        /\ Continues(request[c].key, n)
        /\ register' = register \cup {[key     |-> request[c].key,
                                       number  |-> n,
                                       content |-> request[c].content]}
    /\ UNCHANGED <<request, answer>>

\* The client is interrupted before its answer, and asks again.
AskAgain(c) ==
    /\ stage[c] = "made"
    /\ stage' = [stage EXCEPT ![c] = "asked"]
    /\ UNCHANGED <<register, request, answer>>

Answer(c) ==
    /\ stage[c] \in {"asked", "made"}
    /\ stage' = [stage EXCEPT ![c] = "answered"]
    /\ \E e \in Entered(c) :
        answer' = [answer EXCEPT ![c] = [entry |-> e, made |-> stage[c] = "made"]]
    /\ UNCHANGED <<register, request>>

\* Clients get no answer: one that fails, or all those of a process.  What one
\* of them has made stays.
Leave(C) ==
    /\ \A c \in C : stage[c] # "answered"
    /\ stage' = [c \in Clients |-> IF c \in C THEN "gone" ELSE stage[c]]
    /\ UNCHANGED <<register, request, answer>>

Next ==
    \/ \E c \in Clients : Ask(c) \/ Make(c) \/ AskAgain(c) \/ Answer(c)
    \/ \E C \in SUBSET Clients : Leave(C)

Spec == Init /\ [][Next]_registerVars

=============================================================================
