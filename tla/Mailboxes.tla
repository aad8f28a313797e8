----------------------------- MODULE Mailboxes -----------------------------
(***************************************************************************)
(* What completion delivery promises: every completion is posted to the    *)
(* mailbox of its own consumer, which takes them in the order they came,   *)
(* each once.  Only a consumer that is stopping throws unread ones away.   *)
(***************************************************************************)
EXTENDS Sequences

CONSTANTS Events, Consumers, Home

VARIABLES
    box,        \* [Consumers -> Seq(Events)]: posted and not yet taken
    read,       \* [Events -> whether and how it left its mailbox]
    stopping    \* consumers that are being shut down

mailVars == <<box, read, stopping>>

MailInit ==
    /\ box = [c \in Consumers |-> <<>>]
    /\ read = [e \in Events |-> "unposted"]
    /\ stopping = {}

Post(e) ==
    /\ read[e] = "unposted"
    /\ read' = [read EXCEPT ![e] = "posted"]
    /\ box' = [box EXCEPT ![Home[e]] = Append(@, e)]
    /\ UNCHANGED stopping

Take(c) ==
    /\ box[c] # <<>>
    /\ box' = [box EXCEPT ![c] = Tail(@)]
    /\ read' = [read EXCEPT ![Head(box[c])] = "taken"]
    /\ UNCHANGED stopping

StopConsumer(c) == stopping' = stopping \cup {c} /\ UNCHANGED <<box, read>>

Discard(c) ==
    /\ c \in stopping
    /\ box[c] # <<>>
    /\ box' = [box EXCEPT ![c] = Tail(@)]
    /\ read' = [read EXCEPT ![Head(box[c])] = "discarded"]
    /\ UNCHANGED stopping

MailNext ==
    \/ \E e \in Events : Post(e)
    \/ \E c \in Consumers : Take(c) \/ StopConsumer(c) \/ Discard(c)

MailSpec == MailInit /\ [][MailNext]_mailVars
=============================================================================
