---------------------------- MODULE Conversation ----------------------------
(***************************************************************************)
(* What the session arbiter and the relay promise together about the       *)
(* machine: the Carvera firmware holds ONE conversation.  A conversation is *)
(* a transport the proxy has opened to the machine and on which it may      *)
(* write frames.  The current one ends before the next begins, and one that *)
(* ended never carries a frame again.  It does not end without cause: its   *)
(* own failure, a controller that claims the machine, or that controller's  *)
(* leaving; and while the machine is claimed only the controller's begins.  *)
(*                                                                          *)
(* This is the abstract specification that Arbiter implements.              *)
(***************************************************************************)
CONSTANTS
    Conversations,   \* every transport the proxy may ever open
    Relayed,         \* the ones that carry a controller's frames
    NoConversation   \* the value of holder while none may carry frames

VARIABLES
    holder,          \* the conversation that may carry frames
    ended,           \* conversations that are over (or were thrown away)
    failed,          \* where somebody met an error and has not yet acted on it
    claimed          \* a controller has the machine

vars == <<holder, ended, failed, claimed>>

TypeOK ==
    /\ holder \in Conversations \cup {NoConversation}
    /\ ended \subseteq Conversations
    /\ failed \subseteq Conversations
    /\ claimed \in BOOLEAN

Init ==
    /\ holder = NoConversation
    /\ ended = {}
    /\ failed = {}
    /\ claimed = FALSE

Begin(c) ==
    /\ holder = NoConversation
    /\ c \notin ended
    /\ c \in Relayed <=> claimed
    /\ holder' = c
    /\ UNCHANGED <<ended, failed, claimed>>

\* The current conversation is over.
Ends ==
    /\ holder # NoConversation
    /\ holder' = NoConversation
    /\ ended' = ended \cup {holder}

\* A transport dialled in vain: closed before anything was written on it.
Discard(c) ==
    /\ c # holder
    /\ ended' = ended \cup {c}
    /\ UNCHANGED <<holder, failed, claimed>>

\* Somebody meets an error on the current conversation, or on an earlier one
\* that has ended under his hands.
Fail(c) ==
    /\ c = holder \/ c \in ended
    /\ failed' = failed \cup {c}
    /\ UNCHANGED <<holder, ended, claimed>>

\* A conversation that failed is ended by who met the error.
Drop ==
    /\ holder \in failed
    /\ Ends
    /\ failed' = failed \ {holder}
    /\ UNCHANGED claimed

\* An error of an earlier conversation is no reason to end the current one.
Forget(c) ==
    /\ c \in failed /\ c # holder
    /\ failed' = failed \ {c}
    /\ UNCHANGED <<holder, ended, claimed>>

\* A controller takes the machine from whoever has it.
Claim ==
    /\ ~claimed /\ claimed' = TRUE
    /\ Ends \/ (holder = NoConversation /\ UNCHANGED <<holder, ended>>)
    /\ UNCHANGED failed

\* The controller leaves, and gives the machine back.
Leave == holder \in Relayed /\ Ends /\ UNCHANGED <<failed, claimed>>
GiveBack ==
    /\ claimed /\ claimed' = FALSE
    /\ holder = NoConversation
    /\ UNCHANGED <<holder, ended, failed>>

Next ==
    \/ \E c \in Conversations : Begin(c) \/ Discard(c) \/ Fail(c) \/ Forget(c)
    \/ Drop \/ Claim \/ Leave \/ GiveBack

Spec == Init /\ [][Next]_vars
=============================================================================
