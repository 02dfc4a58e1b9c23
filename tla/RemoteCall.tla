----------------------------- MODULE RemoteCall -----------------------------
(***************************************************************************)
(* What a caller may rely on when it sends a request to a server it cannot *)
(* observe.  The server acts on a request at most once, whether or not     *)
(* anybody still waits for the answer.  The caller is told something       *)
(* exactly once: that the request was done or declined only if it was, and *)
(* "failure" at any time, which says nothing about what the server did.    *)
(***************************************************************************)

CONSTANT Calls  \* the requests

VARIABLES fate,  \* [Calls -> what the server did with the request]
          told   \* [Calls -> what the caller was told]

remote == <<fate, told>>

RemoteInit == /\ fate = [c \in Calls |-> "unasked"]
              /\ told = [c \in Calls |-> "nothing"]

Ask(c) == /\ fate[c] = "unasked"
          /\ fate' = [fate EXCEPT ![c] = "asked"]
          /\ UNCHANGED told

(* The server does not know whether the caller is still there.             *)
Act(c, deed) == /\ fate[c] = "asked"
                /\ fate' = [fate EXCEPT ![c] = deed]
                /\ UNCHANGED told

Tell(c, word) == /\ fate[c] # "unasked"
                 /\ told[c] = "nothing"
                 /\ \/ word = "failure"
                    \/ word = fate[c] /\ word \in {"done", "declined"}
                 /\ told' = [told EXCEPT ![c] = word]
                 /\ UNCHANGED fate

TellSomething(c) == \E word \in {"done", "declined", "failure"} : Tell(c, word)

RemoteNext == \E c \in Calls : \/ Ask(c)
                               \/ \E deed \in {"done", "declined"} : Act(c, deed)
                               \/ TellSomething(c)

RemoteFairness == \A c \in Calls : WF_remote(TellSomething(c))

RemoteSafety == RemoteInit /\ [][RemoteNext]_remote
RemoteSpec == RemoteSafety /\ RemoteFairness

=============================================================================
