--------------------------- MODULE ChatPlayground ---------------------------
(***************************************************************************)
(* The chat playground of the admin pages: chatPlayground in               *)
(* internal/web/static/app.js, its tabs, threads and generations.          *)
(*                                                                         *)
(* The script is single-threaded: an event handler or the continuation of  *)
(* a promise is one step.  A generation ("run") is a fetch, then either a  *)
(* stream that is read chunk by chunk or a job that is polled with a timer *)
(* between two requests.  Runs know their tab by id only, and the tab may  *)
(* be switched away from, closed or reloaded under them.                   *)
(*                                                                         *)
(* A message keeps who speaks, the run its turn was opened for ("of", a    *)
(* history variable), what kind of text it has, its picture or video and   *)
(* whether it is pending.  What the composer checks before it sends is in  *)
(* ChatComposer.                                                           *)
(***************************************************************************)
EXTENDS Integers, Sequences, FiniteSets

CONSTANTS
  Chats,     \* ids newChat draws, all different
  Runs,      \* generations, one AbortController each
  Kinds,     \* of "chat", "image" and "video", those that are generated
  MaxPolls,  \* bound on the polls of a job that find it unfinished
  NoRun

ASSUME ChatsAssumption == IsFiniteSet(Chats) /\ Chats # {}
ASSUME RunsAssumption  == IsFiniteSet(Runs) /\ NoRun \notin Runs
ASSUME KindsAssumption == Kinds \subseteq {"chat", "image", "video"}
ASSUME PollsAssumption == MaxPolls \in Nat

VARIABLES
  chats,     \* the open tabs, in order
  messages,  \* chat |-> its thread
  busy,      \* chat.busy
  own,       \* chat.ac: the run whose controller the chat holds
  activeId,  \* the tab that is shown
  locked,    \* send and input are disabled and Stop is shown
  ac,        \* the controller of the last run of kind chat
  run,       \* where each run is
  store,     \* localStorage "ml-chats"; ok: the last write succeeded
  used       \* ids drawn so far

tabs == <<chats, activeId, used>>
vars == <<tabs, messages, busy, own, locked, ac, run, store>>

Media   == {"none", "image", "video"}
Bodies  == {"prompt", "wait", "partial", "text", "media", "error", "stopped"}
Message == [role : {"user", "assistant"}, of : Runs, body : Bodies, media : Media,
            pending : BOOLEAN]
User(r)    == [role |-> "user", of |-> r, body |-> "prompt", media |-> "none",
               pending |-> FALSE]
Waiting(r) == [role |-> "assistant", of |-> r, body |-> "wait", media |-> "none",
               pending |-> TRUE]

LiveSts == {"post", "stream", "poll", "timer"}
RunRec  == [st : LiveSts \cup {"idle", "done"}, chat : Chats,
            kind : {"chat", "image", "video"}, aborted : BOOLEAN, acc : BOOLEAN,
            late : BOOLEAN, depth : 0 .. MaxPolls]
Idle    == [st |-> "idle", chat |-> CHOOSE c \in Chats : TRUE, kind |-> "chat",
            aborted |-> FALSE, acc |-> FALSE, late |-> FALSE, depth |-> 0]
Ended   == [Idle EXCEPT !.st = "done"]
Posted(c, k) == [Idle EXCEPT !.st = "post", !.chat = c, !.kind = k]

Live(r)   == run[r].st \in LiveSts
Open      == {chats[n] : n \in DOMAIN chats}
Thread(c) == messages[c]
LastOf(s) == s[Len(s)]
Goto(r, l) == run' = [run EXCEPT ![r].st = l]
-----------------------------------------------------------------------------
(***************************************************************************)
(* persist: the tabs go to localStorage with their pictures or, when that  *)
(* is over the quota, without; when neither fits the old value stays.  No  *)
(* run and no busy flag is stored.                                         *)
(***************************************************************************)
NoStore  == [chats |-> << >>, active |-> CHOOSE c \in Chats : TRUE,
             messages |-> [c \in Chats |-> << >>], ok |-> FALSE]
Bare(m)  == [m EXCEPT !.media = IF @ = "image" THEN "none" ELSE @]
Pack(s, a, ms, withImage) ==
  [chats |-> s, active |-> a, ok |-> TRUE,
   messages |-> [c \in Chats |-> IF withImage THEN ms[c]
                                 ELSE [n \in DOMAIN ms[c] |-> Bare(ms[c][n])]]]
Persist ==
  \/ \E withImage \in BOOLEAN : store' = Pack(chats', activeId', messages', withImage)
  \/ store' = [store EXCEPT !.ok = FALSE]

(***************************************************************************)
(* Faulty variants, one plausible mistake each; not part of the            *)
(* specification.                                                          *)
(***************************************************************************)
FinishOnShown(c, r, b, md) ==      \* the answer goes to the tab that is shown
  /\ messages' = [messages EXCEPT ![activeId] = Append(@, [Waiting(r) EXCEPT !.body = b])]
  /\ busy' = [busy EXCEPT ![c] = FALSE]
  /\ own' = [own EXCEPT ![c] = NoRun]
  /\ locked' = FALSE /\ Persist
FinishUnsaved(c, r, b, md) ==      \* finishAssistant without persist
  \/ c \notin Open /\ UNCHANGED <<messages, busy, own, locked, store>>
  \/ /\ c \in Open
     /\ messages' = [messages EXCEPT ![c][Len(Thread(c))] =
                        [@ EXCEPT !.body = b, !.pending = FALSE, !.media = md]]
     /\ busy' = [busy EXCEPT ![c] = FALSE]
     /\ own' = [own EXCEPT ![c] = NoRun]
     /\ locked' = IF c = activeId THEN FALSE ELSE locked
     /\ UNCHANGED store
SwitchStillLocked(c) ==            \* switchChat without setBusy
  /\ c \in Open /\ c # activeId
  /\ activeId' = c
  /\ UNCHANGED <<chats, used, messages, busy, own, locked, ac, run>>
  /\ Persist
StopUnlocks ==                     \* Stop does not wait for the run to end
  /\ locked
  /\ run' = [r \in Runs |-> IF r = own[activeId] /\ Live(r)
                            THEN [run[r] EXCEPT !.aborted = TRUE] ELSE run[r]]
  /\ busy' = [busy EXCEPT ![activeId] = FALSE]
  /\ own' = [own EXCEPT ![activeId] = NoRun]
  /\ locked' = FALSE
  /\ UNCHANGED <<tabs, messages, ac, store>>
StopLatest ==                      \* Stop aborts the controller made last
  /\ locked
  /\ run' = [r \in Runs |-> IF r = ac /\ Live(r)
                            THEN [run[r] EXCEPT !.aborted = TRUE] ELSE run[r]]
  /\ UNCHANGED <<tabs, messages, busy, own, locked, ac, store>>
TickAgain(r) ==                    \* the deadline is retried like any error
  /\ run[r].st = "timer" /\ ~run[r].aborted
  /\ \/ ~run[r].late /\ run' = [run EXCEPT ![r].st = "poll"]
     \/ run[r].late /\ UNCHANGED run
  /\ UNCHANGED <<tabs, messages, busy, own, locked, ac, store>>

(***************************************************************************)
(* setPendingText and finishAssistant find the chat by id, or do nothing;  *)
(* both write to the last message of its thread, whosever it is.           *)
(***************************************************************************)
SetPendingText(c, b) ==
  messages' = IF c \in Open /\ Thread(c) # << >> /\ LastOf(Thread(c)).role = "assistant"
              THEN [messages EXCEPT ![c][Len(Thread(c))].body = b,
                                    ![c][Len(Thread(c))].pending = TRUE]
              ELSE messages

Settled(m, b, md) == [m EXCEPT !.body = b, !.pending = FALSE,
                               !.media = IF md = "none" THEN @ ELSE md]
FinishAssistant(c, r, b, md) ==
  \/ c \notin Open /\ UNCHANGED <<messages, busy, own, locked, store>>
  \/ /\ c \in Open
     /\ messages' = IF Thread(c) # << >> /\ LastOf(Thread(c)).role = "assistant"
                    THEN [messages EXCEPT ![c][Len(Thread(c))] = Settled(@, b, md)]
                    ELSE [messages EXCEPT ![c] = Append(@, Settled(Waiting(r), b, md))]
     /\ busy' = [busy EXCEPT ![c] = FALSE]
     /\ own' = [own EXCEPT ![c] = NoRun]
     /\ locked' = IF c = activeId THEN FALSE ELSE locked
     /\ Persist

\* A run ends: its last continuation calls finishAssistant.
Finish(r, b, md) ==
  /\ run' = [run EXCEPT ![r] = Ended]
  /\ UNCHANGED <<tabs, ac>>
  /\ FinishAssistant(run[r].chat, r, b, md)
-----------------------------------------------------------------------------
\* restore on a page without stored tabs: newChat(true), which persists.  The
\* id is drawn at random, so any one will do.
Init ==
  LET c == CHOOSE d \in Chats : TRUE
  IN /\ chats = <<c>> /\ activeId = c /\ used = {c}
     /\ messages = [d \in Chats |-> << >>]
     /\ busy = [d \in Chats |-> FALSE] /\ own = [d \in Chats |-> NoRun]
     /\ locked = FALSE /\ ac = NoRun
     /\ run = [r \in Runs |-> Idle]
     /\ store \in {Pack(chats, c, messages, TRUE), NoStore}

\* newChat: a fresh id at the end of the bar; other tabs keep their runs.
OpenFresh(s) ==
  \E c \in Chats \ used :
    /\ chats' = Append(s, c) /\ activeId' = c /\ used' = used \cup {c}
    /\ locked' = FALSE
NewChat ==
  /\ OpenFresh(chats)
  /\ UNCHANGED <<messages, busy, own, ac, run>>
  /\ Persist

\* switchChat: setBusy follows the tab that is shown now.
SwitchChat(c) ==
  /\ c \in Open /\ c # activeId
  /\ activeId' = c
  /\ locked' = busy[c]
  /\ UNCHANGED <<chats, used, messages, busy, own, ac, run>>
  /\ Persist

\* controller.abort: a run that has ended no longer listens.
Abort(x) == [r \in Runs |-> IF r = x /\ Live(r) THEN [run[r] EXCEPT !.aborted = TRUE]
                            ELSE run[r]]

\* The cross on a tab: its run is aborted and learns of it later; the last
\* tab is replaced by a new one, else the last tab of the bar is shown.
Without(k) == [n \in 1 .. Len(chats) - 1 |-> chats[IF n < k THEN n ELSE n + 1]]
CloseTab(c) ==
  \E k \in DOMAIN chats :
    /\ chats[k] = c
    /\ run' = Abort(own[c])
    /\ messages' = [messages EXCEPT ![c] = << >>]
    /\ busy' = [busy EXCEPT ![c] = FALSE] /\ own' = [own EXCEPT ![c] = NoRun]
    /\ \/ Len(chats) = 1 /\ OpenFresh(<< >>)
       \/ /\ Len(chats) > 1 /\ chats' = Without(k) /\ UNCHANGED used
          /\ activeId' = IF c = activeId THEN LastOf(chats') ELSE activeId
          /\ locked' = IF c = activeId THEN busy[LastOf(chats')] ELSE locked
    /\ Persist
    /\ UNCHANGED ac

\* The Stop button, shown while the composer is locked.
Stop ==
  /\ locked
  /\ run' = Abort(IF own[activeId] # NoRun THEN own[activeId] ELSE ac)
  /\ UNCHANGED <<tabs, messages, busy, own, locked, ac, store>>

\* A run begins in the active tab: setChatBusy and the chat's controller.
Launch(r, k, thread) ==
  /\ run[r].st = "idle"
  /\ run' = [run EXCEPT ![r] = Posted(activeId, k)]
  /\ messages' = [messages EXCEPT ![activeId] = thread]
  /\ busy' = [busy EXCEPT ![activeId] = TRUE]
  /\ own' = [own EXCEPT ![activeId] = r]
  /\ locked' = TRUE
  /\ UNCHANGED tabs
  /\ Persist

\* The form's submit, past the composer's checks.
Submit(r, k) ==
  /\ ~locked
  /\ Launch(r, k, Append(Append(Thread(activeId), User(r)), Waiting(r)))
  /\ ac' = IF k = "chat" THEN r ELSE ac

\* "Once more" under any picture or video of the thread: the last answer is
\* dropped and generated again.
Regenerate(r, k) ==
  LET t == Thread(activeId)
  IN /\ ~busy[activeId]
     /\ \E n \in DOMAIN t : t[n].media = k
     /\ Launch(r, k, IF LastOf(t).role = "assistant"
                     THEN [t EXCEPT ![Len(t)] = Waiting(r)] ELSE Append(t, Waiting(r)))
     /\ UNCHANGED ac

\* The page is loaded again, by its user or after a crash of the browser:
\* runs are gone, the tabs are those stored.
Reload ==
  /\ run' = [r \in Runs |-> IF Live(r) THEN Ended ELSE run[r]]
  /\ busy' = [c \in Chats |-> FALSE] /\ own' = [c \in Chats |-> NoRun]
  /\ ac' = NoRun
  /\ \/ /\ store.chats # << >>
        /\ chats' = store.chats /\ messages' = store.messages
        /\ activeId' = IF \E n \in DOMAIN store.chats : store.chats[n] = store.active
                       THEN store.active ELSE store.chats[1]
        /\ locked' = FALSE
        /\ UNCHANGED <<used, store>>
     \/ /\ store.chats = << >>
        /\ messages' = [c \in Chats |-> << >>]
        /\ OpenFresh(<< >>)
        /\ Persist
-----------------------------------------------------------------------------
(***************************************************************************)
(* Steps of a run.  An abort rejects the fetch or the read in flight; a    *)
(* run that sleeps between two polls meets it at its next tick.  Either    *)
(* way AbortError passes every catch.                                      *)
(***************************************************************************)
At(r, l) == run[r].st = l /\ ~run[r].aborted
Same(r)  == UNCHANGED <<tabs, busy, own, locked, ac, store>>

RunAborted(r) ==
  /\ Live(r) /\ run[r].aborted
  /\ Finish(r, IF run[r].acc THEN "text" ELSE "stopped", "none")

\* The first answer refuses, is not JSON, has no job id, or never came.
PostFails(r) == At(r, "post") /\ Finish(r, "error", "none")

\* A picture came at once; without a file its JSON is shown.
PostAnswers(r) ==
  /\ At(r, "post") /\ run[r].kind = "image"
  /\ Finish(r, "media", "image") \/ Finish(r, "text", "none")

\* The job has an id: pollVideo or pollImage, whose first tick asks at once.
PostQueued(r) ==
  /\ At(r, "post") /\ run[r].kind # "chat"
  /\ Goto(r, "poll")
  /\ SetPendingText(run[r].chat, "wait")
  /\ Same(r)

StreamOpens(r) ==
  /\ At(r, "post") /\ run[r].kind = "chat"
  /\ Goto(r, "stream")
  /\ UNCHANGED messages /\ Same(r)

\* A chunk of text or of thinking: the tab that is shown gets it on the page
\* only, another tab in its pending message.
StreamChunk(r) ==
  /\ At(r, "stream")
  /\ \E a \in {run[r].acc, TRUE} :
       /\ run' = [run EXCEPT ![r].acc = a]
       /\ \/ run[r].chat = activeId /\ UNCHANGED messages
          \/ /\ run[r].chat # activeId
             /\ SetPendingText(run[r].chat, IF a THEN "partial" ELSE "wait")
  /\ Same(r)

StreamEnds(r)  == At(r, "stream") /\ Finish(r, "text", "none")
StreamFails(r) == At(r, "stream") /\ Finish(r, "error", "none")

(***************************************************************************)
(* tick of pollVideo and pollImage.  A status that is not final, or a rate *)
(* limit, sleeps and calls tick inside the promise whose catch is still    *)
(* open, so depth counts the catches around the next tick; a request that  *)
(* failed is retried by its own catch, which is then used up.  The         *)
(* deadline is met at a tick and is no fatal error: every open catch turns *)
(* it into one more sleep.                                                 *)
(***************************************************************************)
Sleep(r, d) ==
  /\ run' = [run EXCEPT ![r].st = "timer", ![r].depth = d]
  /\ SetPendingText(run[r].chat, "wait")
  /\ Same(r)

PollWaits(r)   == At(r, "poll") /\ run[r].depth < MaxPolls /\ Sleep(r, run[r].depth + 1)
PollRetries(r) == At(r, "poll") /\ Sleep(r, run[r].depth)
PollDone(r)    == At(r, "poll") /\ Finish(r, "media", run[r].kind)
PollFails(r)   == At(r, "poll") /\ Finish(r, "error", "none")

Tick(r) ==
  /\ At(r, "timer")
  /\ \/ ~run[r].late /\ Goto(r, "poll") /\ UNCHANGED messages /\ Same(r)
     \/ run[r].late /\ run[r].depth > 0 /\ Sleep(r, run[r].depth - 1)
     \/ run[r].late /\ run[r].depth = 0 /\ Finish(r, "error", "none")

\* 45 minutes after a video's first poll, 20 after a picture's.
DeadlinePasses(r) ==
  /\ run[r].st \in {"poll", "timer"} /\ ~run[r].late
  /\ run' = [run EXCEPT ![r].late = TRUE]
  /\ UNCHANGED messages /\ Same(r)

Ends(r)    == RunAborted(r) \/ PostFails(r) \/ PostAnswers(r) \/ PostQueued(r)
              \/ StreamOpens(r) \/ StreamEnds(r) \/ StreamFails(r)
Polls(r)   == PollWaits(r) \/ PollRetries(r) \/ PollDone(r) \/ PollFails(r) \/ Tick(r)
RunStep(r) == Ends(r) \/ StreamChunk(r) \/ Polls(r) \/ DeadlinePasses(r)

Next ==
  \/ NewChat \/ Stop \/ Reload
  \/ \E c \in Chats : SwitchChat(c) \/ CloseTab(c)
  \/ \E r \in Runs : RunStep(r) \/ \E k \in Kinds : Submit(r, k) \/ Regenerate(r, k)

\* A request is answered or fails, a stream ends, timers fire, time passes.
Fairness == \A r \in Runs : /\ WF_vars(Ends(r)) /\ WF_vars(Polls(r))
                            /\ WF_vars(DeadlinePasses(r))
Spec == Init /\ [][Next]_vars /\ Fairness
-----------------------------------------------------------------------------
\* Every variable keeps its type.
TypeOK ==
  /\ chats \in Seq(Chats) /\ activeId \in Chats /\ used \subseteq Chats
  /\ messages \in [Chats -> Seq(Message)]
  /\ busy \in [Chats -> BOOLEAN] /\ own \in [Chats -> Runs \cup {NoRun}]
  /\ locked \in BOOLEAN /\ ac \in Runs \cup {NoRun}
  /\ run \in [Runs -> RunRec]
  /\ store \in [chats : Seq(Chats), active : Chats,
                messages : [Chats -> Seq(Message)], ok : BOOLEAN]

\* A tab is busy exactly while one run works for it, its controller is that
\* run's, and the composer is locked exactly for a busy tab, whatever tabs were
\* switched, closed or stopped meanwhile: no tab stays locked after its run, and
\* no second run starts beside the first (setChatBusy, switchChat,
\* finishAssistant).
OneRunPerTab ==
  /\ locked = busy[activeId]
  /\ \A c \in Open : busy[c] = (own[c] # NoRun)
  /\ \A r \in Runs : \A c \in Open :
       (own[c] = r) <=> (Live(r) /\ run[r].chat = c)

\* setPendingText and finishAssistant write to the last message of the thread:
\* while a run works for an open tab that message is the pending one of its own
\* turn, and the prompt it answers stands before it.
OwnTurnIsLast ==
  \A r \in Runs :
    LET t == Thread(run[r].chat)
    IN Live(r) /\ run[r].chat \in Open =>
         /\ Len(t) >= 2
         /\ LastOf(t).role = "assistant" /\ LastOf(t).pending /\ LastOf(t).of = r
         /\ t[Len(t) - 1].role = "user"

\* A reload brings back every tab, every prompt and every answer given so far,
\* pictures over the quota excepted, unless the last write to localStorage
\* failed (persist is called wherever a thread changes).
AnswersSaved ==
  store.ok =>
    /\ store.chats = chats /\ store.active = activeId
    /\ \A c \in Chats :
         /\ Len(store.messages[c]) = Len(Thread(c))
         /\ \A n \in DOMAIN Thread(c) :
              LET m == Thread(c)[n] saved == store.messages[c][n]
              IN /\ saved.of = m.of /\ saved.pending = m.pending
                 /\ ~m.pending => saved \in {m, Bare(m)}

\* Stop and the cross on a tab abort runs of that tab only, never one that
\* works for another tab (the fallback on the last controller made).
AbortHitsOwnTab ==
  [][\A r \in Runs :
       run[r].aborted' /\ ~run[r].aborted =>
         \/ run[r].chat = activeId
         \/ ~ \E n \in DOMAIN chats' : chats'[n] = run[r].chat]_vars

\* Every generation ends, with an answer, an error or a stop: however often a
\* poll is retried, the deadline unwinds through the catches it has nested.
GenerationEnds == \A r \in Runs : Live(r) ~> ~Live(r)

(***************************************************************************)
(* The turns of ChatThreads: a prompt and its answer are one turn.         *)
(***************************************************************************)
TurnsOf(ms) ==
  [c \in Chats |-> [n \in 1 .. Len(ms[c]) \div 2 |->
     [of |-> ms[c][2 * n].of, open |-> ms[c][2 * n].pending]]]
Threads == INSTANCE ChatThreads
             WITH turns <- TurnsOf(messages), gen <- own,
                  saved <- TurnsOf(store.messages)

\* The playground implements ChatThreads: answers land in the turn they were
\* asked for, whichever tab is shown, and a turn that has settled changes only
\* when it is generated again, closed or reloaded.
ImplementsThreads == Threads!Spec
=============================================================================
