----------------------------- MODULE Playground -----------------------------
(***************************************************************************)
(* The chat page of the web console: pages/Playground/index.jsx and the    *)
(* hooks useApiRequest, useMessageActions, useMessageEdit and              *)
(* usePlaygroundState under web/src/hooks/playground, with the stored      *)
(* conversation of components/playground/configStorage.js.                 *)
(*                                                                         *)
(* The user, the browser's timers and the answers of several requests act  *)
(* on one list of messages.  A request does not know its message: every    *)
(* answer is written into the last one.  Contents are not modelled; from   *)
(* says which requests wrote into a message.  Events of an SSE source, the *)
(* buttons Semi's Chat offers and the reload of the page are external.     *)
(***************************************************************************)
EXTENDS Integers, Sequences, FiniteSets, SequencesExt, Subsequences

CONSTANTS
    MaxRequests,   \* bound on requests
    MaxReloads,    \* bound on reloads of the page
    MaxEdits,      \* bound on user actions other than send, stop, save and reload
    Kinds,         \* SUBSET {"stream", "fetch"}: inputs.stream may be either
    CustomBodies   \* SUBSET BOOLEAN: customRequestMode may be either

ASSUME PlaygroundAssumption ==
    /\ MaxRequests \in Nat /\ MaxReloads \in Nat /\ MaxEdits \in Nat
    /\ Kinds \subseteq {"stream", "fetch"} /\ CustomBodies \subseteq BOOLEAN

VARIABLES
    message,     \* the conversation on the page
    stored,      \* the list in localStorage, NoList when there is none
    timeouts,    \* callbacks of setTimeout(_, 0), in order
    delayed,     \* callbacks of setTimeout(_, 100), in order
    streams,     \* requests with an open SSE source
    fetches,     \* requests whose fetch has not returned
    ref,         \* sseSourceRef.current, 0 for null
    dialog,      \* the Modal.confirm on the screen
    editing,     \* editingMessageRef, NoMessage when nothing is edited
    nextId,      \* messageId of helpers/utils.jsx
    unloaded,    \* initialMessages is null: the page was loaded without a stored list
    page,        \* "up", or "crashed" when an updater threw
    loads,       \* reloads so far
    requests,    \* requests so far
    edits,       \* other user actions so far
    stray,       \* requests the page lost sight of (history)
    unsaved,     \* the conversation changed without a save (history)
    dangling     \* an answer may never come for the last message (history)

pageVars == <<message, timeouts, delayed, streams, fetches, ref, dialog, editing, nextId, page>>
history == <<stray, unsaved, dangling>>
vars == <<pageVars, stored, unloaded, loads, requests, edits, history>>

NoMessage == [id |-> 0]
NoList == <<NoMessage>>
NoDialog == [kind |-> "none"]
Open == streams \cup fetches

(* A message; load and id identify it: the ids start again at every load. *)
Message(id, role, status, request) ==
    [id |-> id, load |-> loads, role |-> role, status |-> status, edited |-> FALSE,
     request |-> request, from |-> {}]
DefaultMessages ==
    << [id |-> 2, load |-> 0, role |-> "user", status |-> "none", edited |-> FALSE,
        request |-> 0, from |-> {}],
       [id |-> 3, load |-> 0, role |-> "assistant", status |-> "none", edited |-> FALSE,
        request |-> 0, from |-> {0}] >>

Generating(m) == m.status \in {"loading", "incomplete"}
LastGenerating == message # <<>> /\ Generating(Last(message))
AnyGenerating == \E i \in DOMAIN message : Generating(message[i])
SetLast(list, m) == Append(Front(list), m)

Saving(list) == [op |-> "save", list |-> list]
Resetting == [op |-> "defaults", list |-> <<>>]

Init ==
    /\ message = DefaultMessages /\ stored = NoList /\ unloaded = TRUE
    /\ timeouts = <<>> /\ delayed = <<>>
    /\ streams = {} /\ fetches = {} /\ ref = 0
    /\ dialog = NoDialog /\ editing = NoMessage /\ nextId = 4 /\ page = "up"
    /\ loads = 0 /\ requests = 0 /\ edits = 0
    /\ stray = {} /\ unsaved = FALSE /\ dangling = FALSE

-----------------------------------------------------------------------------
(* Writing into the list *)

(* streamMessageUpdate: the text goes to the last message, if that still waits. *)
StreamMessageUpdate(list, r) ==
    IF list # <<>> /\ Last(list).role = "assistant" /\ Generating(Last(list))
    THEN SetLast(list, [Last(list) EXCEPT !.status = "incomplete", !.from = @ \cup {r}])
    ELSE list

(* The list completeMessage leaves; a message of the user gets a status too. *)
CompleteMessage(list, status) ==
    IF Last(list).status \in {"complete", "error"}
    THEN list
    ELSE SetLast(list, [Last(list) EXCEPT !.status = status])

(* Mutant: the list of before the update is saved. *)
CompleteSavesOld(list, status) ==
    \/ /\ list = <<>>
       /\ page' = "crashed"
       /\ UNCHANGED <<message, timeouts, unsaved>>
    \/ /\ list # <<>>
       /\ page' = page
       /\ message' = CompleteMessage(list, status)
       /\ IF message' = list
          THEN UNCHANGED <<timeouts, unsaved>>
          ELSE timeouts' = Append(timeouts, Saving(list)) /\ unsaved' = FALSE

(* completeMessage as a step: it saves what it changed, and throws on the empty list. *)
Complete(list, status) ==
    \/ /\ list = <<>>
       /\ page' = "crashed"
       /\ UNCHANGED <<message, timeouts, unsaved>>
    \/ /\ list # <<>>
       /\ page' = page
       /\ message' = CompleteMessage(list, status)
       /\ IF message' = list
          THEN UNCHANGED <<timeouts, unsaved>>
          ELSE timeouts' = Append(timeouts, Saving(message')) /\ unsaved' = FALSE

(* setMessage(list) followed by a save of the same list. *)
SetAndSave(list) ==
    /\ message' = list
    /\ timeouts' = Append(timeouts, Saving(list))
    /\ unsaved' = FALSE

(* When a stray request changes the list, the request in progress goes astray as well. *)
Strays(r) == IF r \in stray THEN stray \cup Open ELSE stray

-----------------------------------------------------------------------------
(* Requests *)

(* Mutant: the new source is not put into sseSourceRef. *)
SendRequestWithoutRef(kind) ==
    /\ requests < MaxRequests
    /\ requests' = requests + 1
    /\ streams' = IF kind = "stream" THEN streams \cup {requests'} ELSE streams
    /\ fetches' = IF kind = "fetch" THEN fetches \cup {requests'} ELSE fetches
    /\ ref' = ref

(* sendRequest: handleSSE opens a source, and overwrites the reference to an older  *)
(* one; handleNonStreamRequest awaits a fetch that nothing refers to.               *)
SendRequest(kind) ==
    /\ requests < MaxRequests
    /\ requests' = requests + 1
    /\ streams' = IF kind = "stream" THEN streams \cup {requests'} ELSE streams
    /\ fetches' = IF kind = "fetch" THEN fetches \cup {requests'} ELSE fetches
    /\ ref' = IF kind = "stream" THEN requests' ELSE ref

(* The messages onMessageSend appends.  Without a custom body it creates the user's *)
(* message twice, and three ids are spent.                                          *)
Question(customBody) ==
    << Message(IF customBody THEN nextId ELSE nextId + 2, "user", "none", 0),
       Message(nextId + 1, "assistant", "loading", requests + 1) >>
SpendIds(customBody) == nextId' = IF customBody THEN nextId + 2 ELSE nextId + 3

OnMessageSend(kind, customBody) ==
    /\ SendRequest(kind)
    /\ SetAndSave(message \o Question(customBody))
    /\ SpendIds(customBody)

(* onMessageSend when source.stream() throws in handleSSE: an error at once, and   *)
(* the reference names a source that never opened.                                 *)
StreamThrows(customBody) ==
    LET sent == message \o Question(customBody)
        failed == CompleteMessage(StreamMessageUpdate(sent, requests + 1), "error")
    IN  /\ requests < MaxRequests
        /\ requests' = requests + 1
        /\ ref' = requests'
        /\ message' = failed
        /\ timeouts' = timeouts \o <<Saving(sent), Saving(failed)>>
        /\ unsaved' = FALSE
        /\ SpendIds(customBody)
        /\ UNCHANGED <<streams, fetches>>

(* A chunk of text arrives. *)
Chunk(r) ==
    /\ page = "up" /\ r \in streams
    /\ message' = StreamMessageUpdate(message, r)
    /\ UNCHANGED <<stored, timeouts, delayed, streams, fetches, ref, dialog, editing, nextId,
                   unloaded, page, loads, requests, edits, history>>

(* [DONE]: the source is closed, and the reference dropped whatever it refers to. *)
Done(r) ==
    /\ page = "up" /\ r \in streams
    /\ streams' = streams \ {r} /\ ref' = 0
    /\ Complete(message, "complete")
    /\ stray' = Strays(r)
    /\ UNCHANGED <<stored, delayed, fetches, dialog, editing, nextId, unloaded, loads, requests,
                   edits, dangling>>

(* A chunk that cannot be parsed: the answer is an error, the source stays open. *)
BadChunk(r) ==
    /\ page = "up" /\ r \in streams
    /\ Complete(StreamMessageUpdate(message, r), "error")
    /\ stray' = Strays(r) \cup {r}
    /\ UNCHANGED <<stored, delayed, streams, fetches, ref, dialog, editing, nextId, unloaded,
                   loads, requests, edits, dangling>>

(* The listener of the error event. *)
StreamError(r) ==
    /\ page = "up" /\ r \in streams
    /\ streams' = streams \ {r} /\ ref' = 0
    /\ Complete(StreamMessageUpdate(message, r), "error")
    /\ stray' = Strays(r)
    /\ UNCHANGED <<stored, delayed, fetches, dialog, editing, nextId, unloaded, loads, requests,
                   edits, dangling>>

(* Mutant: the message is left as it is. *)
HttpErrorCloses(r) ==
    /\ page = "up" /\ r \in streams
    /\ streams' = streams \ {r}
    /\ UNCHANGED <<message, timeouts, page, unsaved, stray>>
    /\ UNCHANGED <<stored, delayed, fetches, ref, dialog, editing, nextId, unloaded, loads,
                   requests, edits, dangling>>

(* The listener of readystatechange, for a status other than 200: the reference stays. *)
HttpError(r) ==
    /\ page = "up" /\ r \in streams
    /\ streams' = streams \ {r}
    /\ Complete(StreamMessageUpdate(message, r), "error")
    /\ stray' = Strays(r)
    /\ UNCHANGED <<stored, delayed, fetches, ref, dialog, editing, nextId, unloaded, loads,
                   requests, edits, dangling>>

(* The source ends with status 200 and no [DONE]: no listener reacts. *)
SilentEnd(r) ==
    /\ page = "up" /\ r \in streams
    /\ streams' = streams \ {r} /\ dangling' = TRUE
    /\ UNCHANGED <<message, stored, timeouts, delayed, fetches, ref, dialog, editing, nextId,
                   unloaded, page, loads, requests, edits, stray, unsaved>>

(* The fetch of handleNonStreamRequest returns: an answer, or an error.  The last   *)
(* message takes it if it is still loading; nothing is saved.                       *)
FetchReturns(r, status) ==
    /\ page = "up" /\ r \in fetches
    /\ fetches' = fetches \ {r}
    /\ IF message # <<>> /\ Last(message).status = "loading"
       THEN /\ message' = SetLast(message, [Last(message) EXCEPT !.status = status, !.from = {r}])
            /\ unsaved' = TRUE
       ELSE UNCHANGED <<message, unsaved>>
    /\ stray' = Strays(r)
    /\ UNCHANGED <<stored, timeouts, delayed, streams, ref, dialog, editing, nextId, unloaded,
                   page, loads, requests, edits, dangling>>

(* The response has no choices: no branch of the handler touches the message. *)
FetchWithoutChoices(r) ==
    /\ page = "up" /\ r \in fetches
    /\ fetches' = fetches \ {r} /\ dangling' = TRUE
    /\ UNCHANGED <<message, stored, timeouts, delayed, streams, ref, dialog, editing, nextId,
                   unloaded, page, loads, requests, edits, stray, unsaved>>
-----------------------------------------------------------------------------
(* Timers *)

(* The oldest setTimeout(_, 0): saveMessagesImmediately, or the second half of the  *)
(* reset, which puts the default messages back.                                     *)
RunTimeout ==
    /\ timeouts # <<>>
    /\ timeouts' = Tail(timeouts)
    /\ \/ /\ Head(timeouts).op = "save"
          /\ stored' = Head(timeouts).list
          /\ UNCHANGED <<message, stray, unsaved>>
       \/ /\ Head(timeouts).op = "defaults"
          /\ message' = IF page = "up" THEN DefaultMessages ELSE message
          /\ stray' = stray \cup Open
          /\ unsaved' = (stored # NoList \/ Tail(timeouts) # <<>>)
          /\ stored' = stored
    /\ UNCHANGED <<delayed, streams, fetches, ref, dialog, editing, nextId, unloaded, page,
                   loads, requests, edits, dangling>>

(* The oldest setTimeout(_, 100): the question handleMessageReset took away is sent *)
(* again, or an edited question gets a new answer, which is not saved yet.          *)
RunDelayed(kind) ==
    /\ page = "up" /\ delayed # <<>>
    /\ delayed' = Tail(delayed)
    /\ \/ /\ Head(delayed) = "resend"
          /\ OnMessageSend(kind, FALSE)
       \/ /\ Head(delayed) = "regenerate"
          /\ SendRequest(kind)
          /\ message' = Append(message, Message(nextId, "assistant", "loading", requests + 1))
          /\ nextId' = nextId + 1
          /\ UNCHANGED <<timeouts, unsaved>>
    /\ stray' = stray \cup Open
    /\ UNCHANGED <<stored, dialog, editing, unloaded, page, loads, edits, dangling>>

-----------------------------------------------------------------------------
(* The user.  A dialog covers the page; the Chat component offers to send when no   *)
(* answer is being generated, and to stop when one is.                              *)

UserActs == page = "up" /\ dialog = NoDialog
Edits == UserActs /\ edits < MaxEdits /\ edits' = edits + 1

Send(kind, customBody) ==
    /\ UserActs /\ ~LastGenerating
    /\ OnMessageSend(kind, customBody)
    /\ UNCHANGED <<stored, delayed, dialog, editing, unloaded, page, loads, edits, stray, dangling>>

SendFails(customBody) ==
    /\ UserActs /\ ~LastGenerating
    /\ StreamThrows(customBody)
    /\ UNCHANGED <<stored, delayed, dialog, editing, unloaded, page, loads, edits, stray, dangling>>

(* Mutant: the reference is dropped, but the source is not closed. *)
OnStopGeneratorKeepsSource ==
    /\ UserActs /\ LastGenerating
    /\ ref' = 0
    /\ SetAndSave(SetLast(message, [Last(message) EXCEPT !.status = "complete"]))
    /\ stray' = stray \cup fetches \cup (IF ref = 0 THEN streams ELSE {})
    /\ UNCHANGED <<stored, delayed, streams, fetches, dialog, editing, nextId, unloaded, page,
                   loads, requests, edits, dangling>>

(* onStopGenerator: the source of the reference is closed; a fetch goes on. *)
OnStopGenerator ==
    /\ UserActs /\ LastGenerating
    /\ streams' = streams \ {ref} /\ ref' = 0
    /\ SetAndSave(SetLast(message, [Last(message) EXCEPT !.status = "complete"]))
    /\ stray' = stray \cup fetches \cup (IF ref = 0 THEN streams ELSE {})
    /\ UNCHANGED <<stored, delayed, fetches, dialog, editing, nextId, unloaded, page, loads,
                   requests, edits, dangling>>

(* The place of a message: by reference, and by id when it was replaced since. *)
IndexOf(list, m) ==
    LET same == {i \in DOMAIN list : list[i] = m}
        sameId == {i \in DOMAIN list : list[i].id = m.id}
    IN  IF same # {} THEN Min(same) ELSE IF sameId # {} THEN Min(sameId) ELSE 0

(* Mutant: the buttons stay enabled while an answer is generated. *)
ActionableAlways(m) == editing.id # m.id

(* The buttons of MessageActions. *)
Actionable(m) == ~AnyGenerating /\ editing.id # m.id

(* handleMessageReset: the list is cut before the question, which is sent later. *)
HandleMessageReset(m) ==
    LET index == IndexOf(message, m)
        users == {i \in 1 .. index : message[i].role = "user"}
    IN  /\ Edits /\ Actionable(m) /\ users # {}
        /\ message' = SubSeq(message, 1, Max(users) - 1)
        /\ delayed' = Append(delayed, "resend")
        /\ unsaved' = TRUE
        /\ UNCHANGED <<stored, timeouts, streams, fetches, ref, dialog, editing, nextId, unloaded,
                       page, loads, requests, stray, dangling>>

(* handleMessageDelete asks first. *)
HandleMessageDelete(m) ==
    /\ Edits /\ Actionable(m)
    /\ dialog' = [kind |-> "delete", target |-> m]
    /\ UNCHANGED <<message, stored, timeouts, delayed, streams, fetches, ref, editing, nextId,
                   unloaded, page, loads, requests, history>>

(* Its onOk: a question goes with its reply, any other message goes by its id. *)
AfterDelete(list, m) ==
    LET index == IndexOf(list, m)
    IN  IF m.role = "user" /\ index < Len(list) /\ list[index + 1].role = "assistant"
        THEN Subsequence(list, DOMAIN list \ {index, index + 1})
        ELSE Subsequence(list, {i \in DOMAIN list : list[i].id # m.id})
DeleteConfirmed ==
    /\ page = "up" /\ dialog.kind = "delete"
    /\ dialog' = NoDialog
    /\ \/ /\ IndexOf(message, dialog.target) = 0
          /\ UNCHANGED <<message, timeouts, unsaved, stray>>
       \/ /\ IndexOf(message, dialog.target) # 0
          /\ SetAndSave(AfterDelete(message, dialog.target))
          /\ stray' = stray \cup Open
    /\ UNCHANGED <<stored, delayed, streams, fetches, ref, editing, nextId, unloaded, page, loads,
                   requests, edits, dangling>>

(* handleRoleToggle changes every message of that id. *)
HandleRoleToggle(m) ==
    /\ Edits /\ Actionable(m) /\ m.role \in {"assistant", "system"}
    /\ LET role == IF m.role = "assistant" THEN "system" ELSE "assistant"
       IN  SetAndSave([i \in DOMAIN message |->
               IF message[i].id = m.id /\ message[i].role # "user"
               THEN [message[i] EXCEPT !.role = role] ELSE message[i]])
    /\ UNCHANGED <<stored, delayed, streams, fetches, ref, dialog, editing, nextId, unloaded, page,
                   loads, requests, stray, dangling>>

(* handleMessageEdit opens the editor of a message that has a content. *)
HandleMessageEdit(m) ==
    /\ Edits /\ Actionable(m) /\ (m.role = "user" \/ m.from # {})
    /\ editing' = m
    /\ UNCHANGED <<message, stored, timeouts, delayed, streams, fetches, ref, dialog, nextId,
                   unloaded, page, loads, requests, history>>

(* handleEditSave.  A question that has a reply is not changed yet: a dialog keeps  *)
(* the changed list of this moment.  The editor stays open while answers arrive.    *)
HandleEditSave ==
    LET index == IndexOf(message, editing)
        updated == [i \in DOMAIN message |->
                       IF message[i].id = editing.id THEN [message[i] EXCEPT !.edited = TRUE]
                                                     ELSE message[i]]
        hasReply == /\ message[index].role = "user" /\ index < Len(message)
                    /\ message[index + 1].role = "assistant"
    IN  /\ UserActs /\ editing # NoMessage /\ index # 0
        /\ editing' = NoMessage
        /\ \/ /\ hasReply
              /\ dialog' = [kind |-> "edit", list |-> updated, index |-> index]
              /\ UNCHANGED <<message, timeouts, unsaved>>
           \/ /\ ~hasReply
              /\ SetAndSave(updated)
              /\ dialog' = dialog
        /\ UNCHANGED <<stored, delayed, streams, fetches, ref, nextId, unloaded, page, loads,
                       requests, edits, stray, dangling>>

HandleEditCancel ==
    /\ UserActs /\ editing # NoMessage
    /\ editing' = NoMessage
    /\ UNCHANGED <<message, stored, timeouts, delayed, streams, fetches, ref, dialog, nextId,
                   unloaded, page, loads, requests, edits, history>>

(* onOk: the kept list is cut after the question, and an answer asked for later.    *)
EditRegenerate ==
    /\ page = "up" /\ dialog.kind = "edit"
    /\ dialog' = NoDialog
    /\ SetAndSave(SubSeq(dialog.list, 1, dialog.index))
    /\ delayed' = Append(delayed, "regenerate")
    /\ stray' = stray \cup Open
    /\ UNCHANGED <<stored, streams, fetches, ref, editing, nextId, unloaded, page, loads, requests,
                   edits, dangling>>

(* onCancel writes the kept list, however old it is. *)
EditOnly ==
    /\ page = "up" /\ dialog.kind = "edit"
    /\ dialog' = NoDialog
    /\ SetAndSave(dialog.list)
    /\ stray' = stray \cup Open
    /\ dangling' = (dangling \/ \E i \in DOMAIN dialog.list : Generating(dialog.list[i]))
    /\ UNCHANGED <<stored, delayed, streams, fetches, ref, editing, nextId, unloaded, page, loads,
                   requests, edits>>

(* handleMessageDelete has no onCancel. *)
DeleteCancelled ==
    /\ page = "up" /\ dialog.kind = "delete"
    /\ dialog' = NoDialog
    /\ UNCHANGED <<message, stored, timeouts, delayed, streams, fetches, ref, editing, nextId,
                   unloaded, page, loads, requests, edits, history>>

(* handleClearMessages: open requests are not closed. *)
HandleClearMessages ==
    /\ Edits
    /\ SetAndSave(<<>>)
    /\ stray' = stray \cup Open
    /\ UNCHANGED <<stored, delayed, streams, fetches, ref, dialog, editing, nextId, unloaded, page,
                   loads, requests, dangling>>

(* clearConfig and handleConfigReset: the stored list goes, with the messages or not. *)
HandleConfigReset(resetMessages) ==
    /\ Edits
    /\ stored' = NoList
    /\ IF resetMessages
       THEN /\ message' = <<>>
            /\ timeouts' = Append(timeouts, Resetting)
            /\ unsaved' = (timeouts # <<>>)
            /\ stray' = stray \cup Open
       ELSE /\ unsaved' = TRUE
            /\ UNCHANGED <<message, timeouts, stray>>
    /\ UNCHANGED <<delayed, streams, fetches, ref, dialog, editing, nextId, unloaded, page, loads,
                   requests, dangling>>

(* handleConfigImport of a configuration with the messages of a fresh page. *)
HandleConfigImport ==
    /\ Edits
    /\ message' = DefaultMessages
    /\ unsaved' = TRUE
    /\ stray' = stray \cup Open
    /\ UNCHANGED <<stored, timeouts, delayed, streams, fetches, ref, dialog, editing, nextId,
                   unloaded, page, loads, requests, dangling>>

(* The effect on [t, initialMessages]: the default messages in the new language. *)
LanguageChanges ==
    /\ Edits /\ unloaded
    /\ message' = DefaultMessages
    /\ unsaved' = TRUE
    /\ stray' = stray \cup Open
    /\ UNCHANGED <<stored, timeouts, delayed, streams, fetches, ref, dialog, editing, nextId,
                   unloaded, page, loads, requests, dangling>>

(* A reload: everything but localStorage is lost, the ids start again, and an       *)
(* answer the list was stored without is closed and saved.                          *)
Reload ==
    LET list == IF stored = NoList THEN DefaultMessages ELSE stored
        repair == list # <<>> /\ Generating(Last(list))
    IN  /\ loads < MaxReloads
        /\ loads' = loads + 1
        /\ unloaded' = (stored = NoList)
        /\ message' = IF repair THEN SetLast(list, [Last(list) EXCEPT !.status = "complete"])
                                ELSE list
        /\ timeouts' = IF repair THEN <<Saving(message')>> ELSE <<>>
        /\ delayed' = <<>> /\ streams' = {} /\ fetches' = {} /\ ref' = 0
        /\ dialog' = NoDialog /\ editing' = NoMessage /\ nextId' = 4 /\ page' = "up"
        /\ unsaved' = FALSE
        /\ UNCHANGED <<stored, requests, edits, stray, dangling>>

-----------------------------------------------------------------------------
Streaming(r) == Chunk(r) \/ Done(r) \/ BadChunk(r) \/ StreamError(r) \/ HttpError(r) \/ SilentEnd(r)
Fetching(r) == FetchReturns(r, "complete") \/ FetchReturns(r, "error") \/ FetchWithoutChoices(r)

OnMessage(m) ==
    \/ HandleMessageReset(m) \/ HandleMessageDelete(m) \/ HandleRoleToggle(m) \/ HandleMessageEdit(m)

Next ==
    \/ \E r \in streams : Streaming(r)
    \/ \E r \in fetches : Fetching(r)
    \/ RunTimeout
    \/ \E kind \in Kinds : RunDelayed(kind)
    \/ \E kind \in Kinds, customBody \in CustomBodies : Send(kind, customBody)
    \/ \E customBody \in CustomBodies : SendFails(customBody)
    \/ OnStopGenerator
    \/ \E i \in DOMAIN message : OnMessage(message[i])
    \/ DeleteConfirmed \/ DeleteCancelled
    \/ HandleEditSave \/ HandleEditCancel \/ EditRegenerate \/ EditOnly
    \/ HandleClearMessages \/ HandleConfigImport \/ LanguageChanges
    \/ \E resetMessages \in BOOLEAN : HandleConfigReset(resetMessages)
    \/ Reload

Spec == Init /\ [][Next]_vars

(* The server ends every response, and the browser runs its timers. *)
Ends(r) == Done(r) \/ StreamError(r) \/ HttpError(r) \/ SilentEnd(r) \/ Fetching(r)
FairSpec ==
    /\ Spec
    /\ WF_vars(RunTimeout)
    /\ \A r \in 1 .. MaxRequests : WF_vars(Ends(r))

-----------------------------------------------------------------------------
(* Properties *)

Messages ==
    [id : Nat, load : 0 .. MaxReloads, role : {"user", "assistant", "system"},
     status : {"none", "loading", "incomplete", "complete", "error"}, edited : BOOLEAN,
     request : 0 .. MaxRequests, from : SUBSET (0 .. MaxRequests)]

(* Every variable stays in its type: a list is a list of messages. *)
TypeOK ==
    /\ Range(message) \subseteq Messages
    /\ stored = NoList \/ Range(stored) \subseteq Messages
    /\ \A i \in DOMAIN timeouts : /\ timeouts[i].op \in {"save", "defaults"}
                                  /\ Range(timeouts[i].list) \subseteq Messages
    /\ Range(delayed) \subseteq {"resend", "regenerate"}
    /\ streams \subseteq 1 .. MaxRequests /\ fetches \subseteq 1 .. MaxRequests
    /\ ref \in 0 .. MaxRequests /\ nextId \in Nat
    /\ dialog.kind \in {"none", "delete", "edit"}
    /\ editing = NoMessage \/ editing \in Messages
    /\ page \in {"up", "crashed"}
    /\ loads \in 0 .. MaxReloads /\ requests \in 0 .. MaxRequests /\ edits \in 0 .. MaxEdits
    /\ stray \subseteq 1 .. MaxRequests
    /\ {unloaded, unsaved, dangling} \subseteq BOOLEAN

(* A request the page has not lost sight of is the one the last message waits for, *)
(* and a stream is the one that the stop button closes (useApiRequest.jsx:454).    *)
OpenIsTracked ==
    page = "up" =>
        \A r \in Open \ stray :
            /\ LastGenerating /\ Last(message).request = r
            /\ r \in streams => ref = r

(* An answer holds the text of its own request, unless another one was lost sight  *)
(* of: stopped while fetching, left open after a parse error, or overtaken.        *)
AnswersAreOwn ==
    \A i \in DOMAIN message : message[i].from \ {message[i].request} \subseteq stray

(* When nothing is pending, a reload shows the conversation of the page: the saves *)
(* of the handlers, run late but in order, leave the newest list in localStorage.  *)
StoredIsShown ==
    page = "up" /\ timeouts = <<>> /\ delayed = <<>> /\ Open = {} /\ ~AnyGenerating /\ ~unsaved
        => message = IF stored = NoList THEN DefaultMessages ELSE stored

(* completeMessage throws on an empty list only for a request that was lost sight  *)
(* of: no stop, answer or save of a conversation in progress brings the page down. *)
CrashNeedsStray == page = "crashed" => stray # {}

(* An answer in progress is finished at some time, unless its response ended        *)
(* without a word or an old list was put back by the edit dialog.                   *)
AnswerFinishes == LastGenerating ~> (~LastGenerating \/ dangling \/ page = "crashed")

(* Deleting a message takes that message, and the reply of a question, from the     *)
(* list: "使用引用查找索引，防止重复 id 造成误匹配" (useMessageActions.jsx:189).          *)
DeleteRemovesOneExchange ==
    [][dialog.kind = "delete" /\ dialog' = NoDialog /\ loads' = loads =>
           \A i \in DOMAIN message :
               message[i] \notin Range(message') =>
                   \/ i = IndexOf(message, dialog.target)
                   \/ i = IndexOf(message, dialog.target) + 1 /\ dialog.target.role = "user"]_vars

=============================================================================
