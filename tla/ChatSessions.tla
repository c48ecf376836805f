---------------------------- MODULE ChatSessions ----------------------------
(***************************************************************************)
(* The chat routes of operator_api.rs.  Chats live in the memory of one    *)
(* node, in a map behind a mutex (LiveSessionStore, external): each call   *)
(* on it is one atomic step, and update_chat runs its closure inside.      *)
(*                                                                         *)
(* Sending a message is the only long handler: it checks the caller, runs  *)
(* the variant's chat command in the container, and only then looks for    *)
(* the session and appends the message and its answer.  All else is one    *)
(* step.  Reading routes (list, messages) change nothing and are left out, *)
(* like a request that is refused before it has changed anything.          *)
(***************************************************************************)
EXTENDS SessionGate, Broadcast, Integers

CONSTANTS
    Request,          \* messages sent, each once
    NoRequest,
    NoChat,           \* the map has no such session
    Title, NewChat,   \* titles; the default one
    HasChatCommand,   \* instances whose variant has a chat command
    MaxAborts         \* bound on abort requests; negative: none

Chat == [scope : Id, owner : Owner, title : Title,
         messages : Seq([role : {"user", "assistant"}, of : Request])]

ReplyEvent(r) == [type |-> "reply", of |-> r]
IdleEvent == [type |-> "idle", of |-> NoRequest]

ASSUME ChatAssumption ==
    /\ NoRequest \notin Request
    /\ NoChat \notin Chat
    /\ NewChat \in Title
    /\ HasChatCommand \subseteq Id
    /\ MaxAborts \in Int
    /\ Event = [type : {"reply", "idle"}, of : Request \cup {NoRequest}]

VARIABLES
    chat,     \* the map of chat sessions
    born,     \* session ids that were given out
    req,      \* requests to send a message
    aborts    \* abort requests left

vars == <<token, stream, chat, born, req, aborts>>

ReqState ==
    [pc : {"new", "exec", "update", "done", "failed"},
     id : Id, owner : Owner, chat : Session]

\* The fields of a new request mean nothing yet.
NewReq(r) == req[r] = [pc |-> "new"]

TypeOK ==
    /\ GateTypeOK
    /\ StreamTypeOK
    /\ chat \in [Session -> Chat \cup {NoChat}]
    /\ born \in SUBSET Session
    /\ req \in [Request -> ReqState \cup {[pc |-> "new"]}]
    /\ aborts \in Int

Init ==
    /\ GateInit
    /\ StreamInit
    /\ chat = [s \in Session |-> NoChat]
    /\ born = {}
    /\ req = [r \in Request |-> [pc |-> "new"]]
    /\ aborts = MaxAborts

-----------------------------------------------------------------------------
(* create, rename, delete, abort *)

\* Mutant: instance id and owner, both strings, change places.
CreateChatSwapped(k, i, s) ==
    /\ LoadScoped(k, i)
    /\ s \notin born
    /\ born' = born \cup {s}
    /\ chat' = [chat EXCEPT ![s] =
        [scope |-> OwnerOf[i], owner |-> i, title |-> NewChat, messages |-> <<>>]]
    /\ UNCHANGED <<token, stream, req, aborts>>

CreateChat(k, i, s) ==
    /\ LoadScoped(k, i)
    /\ s \notin born
    /\ born' = born \cup {s}
    /\ chat' = [chat EXCEPT ![s] =
        [scope |-> i, owner |-> OwnerOf[i], title |-> NewChat, messages |-> <<>>]]
    /\ UNCHANGED <<token, stream, req, aborts>>

\* Mutant: the session is inserted anew under its new title.
RenameChatAnew(k, i, s, title) ==
    /\ LoadScoped(k, i)
    /\ chat[s] # NoChat /\ Matches(chat[s], i, OwnerOf[i])
    /\ chat' = [chat EXCEPT ![s].title = title, ![s].messages = <<>>]
    /\ UNCHANGED <<token, stream, born, req, aborts>>

RenameChat(k, i, s, title) ==
    /\ LoadScoped(k, i)
    /\ chat[s] # NoChat /\ Matches(chat[s], i, OwnerOf[i])
    /\ chat' = [chat EXCEPT ![s].title = title]
    /\ UNCHANGED <<token, stream, born, req, aborts>>

\* The session is taken out of the map first and compared with the caller
\* afterwards; a mismatch is answered with an error, and it stays removed.
DeleteChat(k, i, s) ==
    /\ LoadScoped(k, i)
    /\ chat[s] # NoChat
    /\ chat' = [chat EXCEPT ![s] = NoChat]
    /\ UNCHANGED <<token, stream, born, req, aborts>>

\* Nothing is aborted: the streams are told that the session is idle.
AbortMessage(k, i, s) ==
    /\ aborts # 0
    /\ LoadScoped(k, i)
    /\ chat[s] # NoChat /\ Matches(chat[s], i, OwnerOf[i])
    /\ aborts' = IF aborts < 0 THEN aborts ELSE aborts - 1
    /\ Send(s, <<IdleEvent>>)
    /\ UNCHANGED <<token, chat, born, req>>

-----------------------------------------------------------------------------
(* send_session_message *)

SetPc(r, pc) == req' = [req EXCEPT ![r].pc = pc]

\* The session is not looked up yet.
BeginSend(r, k, i, s) ==
    /\ NewReq(r)
    /\ LoadScoped(k, i)
    /\ req' = [req EXCEPT ![r] =
        [pc |-> IF i \in HasChatCommand THEN "exec" ELSE "update",
         id |-> i, owner |-> OwnerOf[i], chat |-> s]]
    /\ UNCHANGED <<token, stream, chat, born, aborts>>

\* Mutant: the user's message is stored when the command is started.
RunChatCommandStoresPrompt(r) ==
    LET s == req[r].chat IN
    /\ req[r].pc = "exec"
    /\ SetPc(r, "update")
    /\ chat' = IF chat[s] = NoChat THEN chat
               ELSE [chat EXCEPT ![s].messages =
                        Append(@, [role |-> "user", of |-> r])]
    /\ UNCHANGED <<token, stream, born, aborts>>

\* Mutant: the answer is announced as soon as the command has produced it.
RunChatCommandAnnounces(r) ==
    /\ req[r].pc = "exec"
    /\ SetPc(r, "update")
    /\ Send(req[r].chat, <<ReplyEvent(r), IdleEvent>>)
    /\ UNCHANGED <<token, chat, born, aborts>>

\* run_instance_command: any exit code is an answer; only a command that
\* cannot be run at all is an error.
RunChatCommand(r) ==
    /\ req[r].pc = "exec"
    /\ SetPc(r, "update") \/ SetPc(r, "failed")
    /\ UNCHANGED <<token, stream, chat, born, aborts>>

Exchange(r) == <<[role |-> "user", of |-> r], [role |-> "assistant", of |-> r]>>

\* Mutant: nothing is sent to the streams.
UpdateChatSilently(r) ==
    LET s == req[r].chat IN
    /\ req[r].pc = "update"
    /\ SetPc(r, "done")
    /\ chat[s] # NoChat
    /\ chat' = [chat EXCEPT ![s].messages = @ \o Exchange(r)]
    /\ UNCHANGED <<token, stream, born, aborts>>

\* update_chat: both messages and all events under the store's mutex.  The
\* answer's two events are one here; what an abort sends meanwhile, it could
\* as well have sent just before or just after.
UpdateChat(r) ==
    LET s == req[r].chat
        mine == chat[s] # NoChat /\ Matches(chat[s], req[r].id, req[r].owner)
    IN
    /\ req[r].pc = "update"
    /\ \/ /\ mine
          /\ SetPc(r, "done")
          /\ chat' = [chat EXCEPT ![s].messages = @ \o Exchange(r)]
          /\ Send(s, <<ReplyEvent(r), IdleEvent>>)
       \/ /\ ~mine
          /\ SetPc(r, "failed")
          /\ UNCHANGED <<stream, chat>>
    /\ UNCHANGED <<token, born, aborts>>

-----------------------------------------------------------------------------
(* stream_session_events *)

OpenStream(x, k, i, s) ==
    /\ LoadScoped(k, i)
    /\ chat[s] # NoChat /\ Matches(chat[s], i, OwnerOf[i])
    /\ Subscribe(x, s)
    /\ UNCHANGED <<token, chat, born, req, aborts>>

ReadStream(x) == Deliver(x) /\ UNCHANGED <<token, chat, born, req, aborts>>

\* The session was deleted: no sender is left.
EndStream(x) ==
    /\ Open(x) /\ chat[stream[x].on] = NoChat
    /\ stream[x].queue = <<>>
    /\ Disconnect(x)
    /\ UNCHANGED <<token, chat, born, req, aborts>>

-----------------------------------------------------------------------------
(* The environment *)

LeaveStream(x) == Disconnect(x) /\ UNCHANGED <<token, chat, born, req, aborts>>

Auth ==
    /\ \E k \in Token : Expire(k) \/ \E i \in Id : Login(k, i)
    /\ UNCHANGED <<stream, chat, born, req, aborts>>

InFlight(r) == req[r].pc \in {"exec", "update"}

\* All of it is in memory only.
Restart ==
    /\ token' = [k \in Token |-> NoClaims]
    /\ DisconnectAll
    /\ chat' = [s \in Session |-> NoChat]
    /\ req' = [r \in Request |->
        IF InFlight(r) THEN [req[r] EXCEPT !.pc = "failed"] ELSE req[r]]
    /\ UNCHANGED <<born, aborts>>

Requests(k, i, s) ==
    \/ CreateChat(k, i, s) \/ DeleteChat(k, i, s) \/ AbortMessage(k, i, s)
    \/ \E title \in Title : RenameChat(k, i, s, title)
    \/ \E r \in Request : BeginSend(r, k, i, s)
    \/ \E x \in Stream : OpenStream(x, k, i, s)

Streams(x) == ReadStream(x) \/ EndStream(x)

Next ==
    \/ \E k \in Token, i \in Id, s \in Session : Requests(k, i, s)
    \/ \E r \in Request : RunChatCommand(r) \/ UpdateChat(r)
    \/ \E x \in Stream : Streams(x) \/ LeaveStream(x)
    \/ Auth
    \/ Restart

Spec == Init /\ [][Next]_vars

\* The chat command may run for ever.  Once it has ended, the runtime carries
\* the handler on, and the server writes to every client that reads.
FairSpec ==
    /\ Spec
    /\ \A r \in Request : WF_vars(UpdateChat(r))
    /\ \A x \in Stream : WF_vars(Streams(x))

=============================================================================
