------------------------------ MODULE ChatPage ------------------------------
(***************************************************************************)
(* The page of one conversation (apps/web, chat/[id]/page.tsx): loading    *)
(* what was saved, sending, stopping, following the events of the newest   *)
(* run, and the auto-save of the whole page behind it                      *)
(* (use-chat-auto-save.ts, chat/[conversationId]/messages).  Every         *)
(* callback and every continuation of an await is an action.               *)
(*                                                                         *)
(* A send is a number and stands for its run too.  A piece of an answer is *)
(* its place in the run.  A conversation begins with a task that has no    *)
(* active run (chat/start), so that the page never attaches to one, and    *)
(* nothing sets isDisconnect, so that the heartbeat never resumes; both    *)
(* branches, and the sequence numbers kept for them, are left out.  A save *)
(* that is under way when the page is left is committed then or never.     *)
(***************************************************************************)
EXTENDS Naturals, Sequences, FiniteSets, SequencesExt

CONSTANTS
  MaxSends,   \* bound: sends of all openings of the page
  MaxPieces,  \* bound: pieces of one answer
  MaxStops,   \* bound: calls of stopRun that wait at once
  MaxOpens    \* bound: openings of the page

ASSUME ChatAssumption ==
  MaxSends \in Nat /\ MaxPieces \in Nat /\ MaxStops \in Nat /\ MaxOpens \in Nat \ {0}

VARIABLES
  messages,     \* of the page: role, the send it belongs to, its pieces
  chatStatus,
  current,      \* currentRunIdRef
  controller,   \* streamAbortRef: the send whose stream it aborts
  turn,         \* turn[p]: where send p is
  answer,       \* answer[p]: the pieces read, and behind which they are shown
  stopping,     \* calls of stopRun that wait for the answer to their cancel
  loading,      \* the GET of the messages: "get", "got" or "done"
  loaded,       \* what it was answered
  saving,       \* the body of the save under way; NoSave
  saved,        \* the rows of the conversation, in order
  opens,        \* how often the page has been opened
  calm,         \* history: the page never became ready while a send was out, nor
                \* took another while a POST was
  wiped         \* history: what had been sent when the page showed its load

chatVars == <<messages, chatStatus, current, controller, turn, answer, stopping,
              loading, loaded, saving, saved, opens, calm, wiped>>

Sends == 1 .. MaxSends

Pending == 0

NoSave == <<>>

User(p) == [role |-> "user", of |-> p, text |-> <<>>]
Assistant(p, text) == [role |-> "assistant", of |-> p, text |-> text]

Loading == {"submitted", "streaming"}

Posting == {p \in Sends : turn[p] = "posting"}
Reading == {p \in Sends : turn[p] \in {"reading", "failed"}}

\* The sends of this opening of the page.
Mine == {p \in Sends : turn[p] \notin {"new", "left"}}

NextSend == CHOOSE p \in Sends : turn[p] = "new" /\ \A q \in Sends : turn[q] = "new" => p <= q
CanSend == \E p \in Sends : turn[p] = "new"

(* The page as it is mounted; with a prompt in its URL it sends it at once. *)
Mounted(prompted) ==
  /\ loading' = "get" /\ loaded' = <<>> /\ saving' = NoSave
  /\ current' = Pending /\ controller' = Pending /\ stopping' = 0
  /\ IF prompted
     THEN /\ messages' = <<User(NextSend), Assistant(Pending, <<>>)>>
          /\ chatStatus' = "submitted"
     ELSE messages' = <<>> /\ chatStatus' = "ready"

ChatInit ==
  /\ messages = <<>> /\ chatStatus = "ready"
  /\ current = Pending /\ controller = Pending /\ stopping = 0
  /\ turn = [p \in Sends |-> "new"]
  /\ answer = [p \in Sends |-> [read |-> 0, from |-> 0]]
  /\ loading = "done" /\ loaded = <<>> /\ saving = NoSave /\ saved = <<>>
  /\ opens = 0 /\ calm = TRUE /\ wiped = {}

(* The page is opened from the home page with a prompt, from the side bar  *)
(* without one, or reloaded, which sends the prompt of its URL again.      *)
OpenPage(prompted) ==
  /\ opens < MaxOpens /\ opens' = opens + 1
  /\ prompted => CanSend
  /\ Mounted(prompted)
  /\ turn' = [p \in Sends |->
                IF turn[p] = "new"
                THEN IF prompted /\ p = NextSend THEN "posting" ELSE "new"
                ELSE "left"]
  /\ saved' \in {saved} \cup (IF saving = NoSave THEN {} ELSE {saving})
  /\ UNCHANGED <<answer, calm, wiped>>

-----------------------------------------------------------------------------
(* Loading. *)

GetMessages ==
  /\ loading = "get" /\ loading' = "got" /\ loaded' = saved
  /\ UNCHANGED <<messages, chatStatus, current, controller, turn, answer, stopping,
                 saving, saved, opens, calm, wiped>>

(* setMessages(loaded), whatever has been sent meanwhile. *)
ShowLoaded ==
  /\ loading = "got" /\ loading' = "done"
  /\ messages' = loaded
  /\ answer' = [p \in Sends |->
                  IF p \in Reading THEN [answer[p] EXCEPT !.from = answer[p].read] ELSE answer[p]]
  /\ wiped' = wiped \cup Mine
  /\ UNCHANGED <<chatStatus, current, controller, turn, stopping, loaded, saving, saved,
                 opens, calm>>

(* It fails, and nobody catches. *)
LoadFails ==
  /\ loading = "get" /\ loading' = "done"
  /\ UNCHANGED <<messages, chatStatus, current, controller, turn, answer, stopping,
                 loaded, saving, saved, opens, calm, wiped>>

-----------------------------------------------------------------------------
(* Sending and stopping. *)

(* handleSubmit, which is refused while the page is loading an answer. *)
Submit ==
  /\ opens > 0 /\ chatStatus \notin Loading /\ CanSend
  /\ chatStatus' = "submitted"
  /\ messages' = messages \o <<User(NextSend), Assistant(Pending, <<>>)>>
  /\ turn' = [turn EXCEPT ![NextSend] = "posting"]
  /\ calm' = (calm /\ Posting = {})
  /\ UNCHANGED <<current, controller, answer, stopping, loading, loaded, saving, saved,
                 opens, wiped>>

\* filter: the n-th of its result is the n-th of those that stay.
Without(gone) ==
  LET stay == {i \in DOMAIN messages : messages[i] \notin gone}
      Nth(n) == CHOOSE i \in stay : Cardinality({j \in stay : j <= i}) = n
  IN  [n \in 1 .. Cardinality(stay) |-> messages[Nth(n)]]

AnswersOf(p) == {m \in ToSet(messages) : m.role = "assistant" /\ m.of = p}

(* The POST is refused or lost: its message goes, with every pending one. *)
PostFails(p) ==
  /\ p \in Posting
  /\ turn' = [turn EXCEPT ![p] = "refused"]
  /\ messages' = Without({User(p)} \cup AnswersOf(Pending))
  /\ chatStatus' = "error"
  /\ UNCHANGED <<current, controller, answer, stopping, loading, loaded, saving, saved,
                 opens, calm, wiped>>

Renamed(p) == [i \in DOMAIN messages |->
                 IF messages[i].of = Pending THEN [messages[i] EXCEPT !.of = p] ELSE messages[i]]

(* Mutant: the stream in flight is left alone. *)
FollowedToo(p) == [turn EXCEPT ![p] = "reading"]

\* consumeRunStream ends the stream in flight first.
Followed(p) ==
  [turn EXCEPT ![p] = "reading",
               ![controller] = IF controller \in Reading THEN "aborted" ELSE @]

(* The POST is answered with a run, which the page begins to follow. *)
PostAnswered(p) ==
  /\ p \in Posting
  /\ messages' = Renamed(p)
  /\ turn' = Followed(p)
  /\ current' = p /\ controller' = p
  /\ chatStatus' = "streaming"
  /\ UNCHANGED <<answer, stopping, loading, loaded, saving, saved, opens, calm, wiped>>

(* setStatus('ready'): the auto-save sends the page if it was active and   *)
(* no save is under way; one that is skipped is not made up for.           *)
BecomesReady(turnNow) ==
  /\ chatStatus' = "ready"
  /\ saving' = IF chatStatus \in Loading /\ messages # <<>> /\ saving = NoSave
               THEN messages ELSE saving
  /\ calm' = (calm /\ \A p \in Sends : turnNow[p] \notin {"posting", "reading", "failed"})

(* stopRun: the stream is aborted and the run it belonged to is cancelled, *)
(* which for a send whose POST is out is the run before.                   *)
StopRun ==
  /\ chatStatus \in Loading /\ stopping < MaxStops
  /\ turn' = IF controller \in Reading THEN [turn EXCEPT ![controller] = "aborted"] ELSE turn
  /\ IF current = Pending THEN BecomesReady(turn') /\ UNCHANGED stopping
     ELSE stopping' = stopping + 1 /\ UNCHANGED <<chatStatus, saving, calm>>
  /\ UNCHANGED <<messages, current, controller, answer, loading, loaded, saved, opens, wiped>>

(* Its cancel was answered, or failed. *)
Stopped ==
  /\ stopping > 0 /\ stopping' = stopping - 1
  /\ BecomesReady(turn)
  /\ UNCHANGED <<messages, current, controller, turn, answer, loading, loaded, saved, opens, wiped>>

(* The AbortError of a stream. *)
AbortSeen(p) ==
  /\ turn[p] = "aborted"
  /\ turn' = [turn EXCEPT ![p] = "over"]
  /\ IF current = p THEN BecomesReady(turn') ELSE UNCHANGED <<chatStatus, saving, calm>>
  /\ UNCHANGED <<messages, current, controller, answer, stopping, loading, loaded, saved,
                 opens, wiped>>

-----------------------------------------------------------------------------
(* Following a run, whose log is taken to grow as it is read. *)

(* Mutant: pieces go to the last answer on the page. *)
PlaceLast(p) == SelectLastInSeq(messages, LAMBDA m : m.role = "assistant")

\* The message a piece of send p goes to; 0 for a new one.
Place(p) ==
  LET at == {i \in DOMAIN messages : messages[i].role = "assistant" /\ messages[i].of = p}
  IN  IF at = {} THEN 0 ELSE CHOOSE i \in at : \A j \in at : i <= j

ReadPiece(p) ==
  LET i == Place(p)
      piece == answer[p].read + 1
  IN
  /\ turn[p] = "reading" /\ answer[p].read < MaxPieces
  /\ answer' = [answer EXCEPT ![p].read = piece]
  /\ messages' = IF i = 0 THEN Append(messages, Assistant(p, <<piece>>))
                 ELSE [messages EXCEPT ![i].text = Append(@, piece)]
  /\ UNCHANGED <<chatStatus, current, controller, turn, stopping, loading, loaded, saving,
                 saved, opens, calm, wiped>>

(* An event with an "error": the answer is taken away, the stream read on. *)
(* (The error chunks of the AI SDK have an "errorText" and are no such.)   *)
ReadError(p) ==
  /\ turn[p] = "reading"
  /\ messages' = Without(AnswersOf(p))
  /\ chatStatus' = "error"
  /\ turn' = [turn EXCEPT ![p] = "failed"]
  /\ UNCHANGED <<current, controller, answer, stopping, loading, loaded, saving, saved,
                 opens, calm, wiped>>

(* The route closes the stream of a run that is over, or whose log it      *)
(* cannot read.  It sends no [DONE], and nothing else tells the page.      *)
StreamEnds(p) ==
  /\ p \in Reading
  /\ turn' = [turn EXCEPT ![p] = "over"]
  /\ UNCHANGED <<messages, chatStatus, current, controller, answer, stopping, loading, loaded,
                 saving, saved, opens, calm, wiped>>

(* Refused by the route, or broken. *)
StreamBreaks(p) ==
  /\ p \in Reading
  /\ turn' = [turn EXCEPT ![p] = "over"]
  /\ chatStatus' = "error"
  /\ UNCHANGED <<messages, current, controller, answer, stopping, loading, loaded,
                 saving, saved, opens, calm, wiped>>

(* POST messages: DELETE and INSERT in one transaction, or a failure. *)
Saved ==
  /\ saving # NoSave /\ saving' = NoSave
  /\ saved' \in {saved, saving}
  /\ UNCHANGED <<messages, chatStatus, current, controller, turn, answer, stopping, loading,
                 loaded, opens, calm, wiped>>

ChatNext ==
  \/ \E prompted \in BOOLEAN : OpenPage(prompted)
  \/ GetMessages \/ ShowLoaded \/ LoadFails
  \/ Submit \/ StopRun \/ Stopped \/ Saved
  \/ \E p \in Sends :
       \/ PostFails(p) \/ PostAnswered(p) \/ AbortSeen(p)
       \/ ReadPiece(p) \/ ReadError(p) \/ StreamEnds(p) \/ StreamBreaks(p)

(* Requests are answered, and streams end, as runs do. *)
ChatFairness ==
  /\ WF_chatVars(Stopped) /\ WF_chatVars(Saved)
  /\ \A p \in Sends :
       /\ WF_chatVars(PostFails(p) \/ PostAnswered(p))
       /\ WF_chatVars(AbortSeen(p))
       /\ WF_chatVars(StreamEnds(p) \/ StreamBreaks(p))

ChatSpec == ChatInit /\ [][ChatNext]_chatVars /\ ChatFairness

-----------------------------------------------------------------------------
(* Properties. *)

(* The page reads one stream at a time, however sends, stops and late      *)
(* answers to a POST cross.                                                *)
OneStream == \A p, q \in Reading : p = q

(* Every answer on the page is made of the pieces of its own run, in order *)
(* and without a gap, up to the last one read.                             *)
TextInOrder ==
  \A i \in DOMAIN messages :
    LET m == messages[i] IN
    m.role = "assistant" /\ m.of # Pending =>
      m.text = [k \in 1 .. answer[m.of].read - answer[m.of].from |-> answer[m.of].from + k]

(* What was loaded stands first and stays; what was sent since, and not    *)
(* refused, is there once, with its answer right behind it.  (What was     *)
(* sent before the load is shown disappears with it: the prompt of the     *)
(* home page always does.)                                                 *)
SentInOrder ==
  /\ loading = "done" => IsPrefix(loaded, messages)
  /\ \A p \in Mine \ wiped : turn[p] # "refused" => User(p) \in ToSet(messages)
  /\ \A i \in DOMAIN messages :
       LET m == messages[i] IN
       /\ \A j \in DOMAIN messages : m.role = messages[j].role /\ m.of = messages[j].of => i = j
       /\ m.role = "assistant" /\ m.of \in (Mine \ wiped) => i > 1 /\ messages[i - 1] = User(m.of)

(* The page says who said what, in order, until it becomes ready while a   *)
(* send is out or takes another while a POST is: by a stop before the POST *)
(* is answered, by the late answer to the cancel of an earlier stop, or by *)
(* an older stream that breaks.                                            *)
ChatSound == OneStream /\ (calm => TextInOrder /\ SentInOrder)

(* "Saves messages to DB when the chat becomes idle (status: ready) after  *)
(* having been active" (use-chat-auto-save.ts): it becomes idle, again and *)
(* again, as every run ends.                                               *)
PageSettles == []<>(chatStatus \notin Loading)
=============================================================================
