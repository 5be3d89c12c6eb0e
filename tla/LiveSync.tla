------------------------------ MODULE LiveSync ------------------------------
(***************************************************************************)
(* The page and the backend: how the store of the web interface follows    *)
(* one loadpoint and the health of one module (server/sse.ts, the health   *)
(* guard of core/lifecycle.ts, ui2/src/lib/live/useLiveSync.ts,            *)
(* commands.ts, map.ts and api/sse.ts).  The page reads everything once,   *)
(* subscribes to the event stream only then, changes the mode on the       *)
(* screen before it posts it, reads the loadpoint again on every change of *)
(* configuration, and asks for the health of all modules every 15 seconds. *)
(* Requests overtake one another and the stream; the stream breaks and     *)
(* resumes without what was sent meanwhile.                                *)
(***************************************************************************)
EXTENDS Naturals, Sequences

CONSTANTS MaxTurns,  \* bound: mode changes, configuration writes, health changes and breaks of
                     \* the stream, all together
          MaxQueue   \* bound: events undelivered when the next is sent, less one

ASSUME LiveSyncAssumption == MaxTurns \in Nat /\ MaxQueue \in Nat

VARIABLES lp,      \* the loadpoint as the backend holds it
          module,  \* health of a module: what the map says, and the last announced
          page,    \* "probing", "demo", "syncing" or "live"
          ui,      \* the charger and the health as the store of the page holds them
          stream,  \* the EventSource: "off", "connecting" or "open"
          queue,   \* events sent on the open stream and not yet delivered
          posts,   \* modes posted and not yet handled
          asks,    \* re-reads of the loadpoint the backend has not answered
          answers, \* answers to them not yet applied
          polls,   \* answers to the poll of the health not yet applied
          lost,    \* has the page missed the mode since it last heard it?
          turns    \* the turns taken
pageVars == <<lp, module, page, ui, stream, queue, posts, asks, answers, polls, lost, turns>>

Modes == {"off", "smart", "fast"}
\* no car, a car that does not draw, a car that draws
Phases == {"away", "idle", "drawing"}
Loadpoints == [mode : Modes, phase : Phases, finished : BOOLEAN]
Healths == {"ok", "unavailable"}
Statuses == {"unplugged", "charging", "fast_charging", "ready", "off",
             "waiting_cheap", "plugged_paused"}
Charging == {"charging", "fast_charging"}

----------------------------------------------------------------------------
(***************************************************************************)
(* What the page shows of a loadpoint.                                     *)
(***************************************************************************)

drawStatus(mode) == IF mode = "fast" THEN "fast_charging" ELSE "charging"
restStatus(mode) ==
    CASE mode = "off" -> "off" [] mode = "smart" -> "waiting_cheap" [] OTHER -> "plugged_paused"

\* Slip: the finished flag wins over the draw
deriveStatusFinished(c) ==
    CASE c.phase = "away"    -> "unplugged"
      [] c.phase # "away" /\ c.finished -> "ready"
      [] c.phase = "drawing" /\ ~c.finished -> drawStatus(c.mode)
      [] c.phase = "idle" /\ ~c.finished    -> restStatus(c.mode)

\* A car that draws wins over a finished flag: it may be a stale one.
deriveStatus(c) ==
    CASE c.phase = "away"    -> "unplugged"
      [] c.phase = "drawing" -> drawStatus(c.mode)
      [] c.phase = "idle"    -> IF c.finished THEN "ready" ELSE restStatus(c.mode)

\* The charger of the store with the fields of c replaced and its status derived again.
mapLoadpoint(c) ==
    [mode |-> c.mode, phase |-> c.phase, finished |-> c.finished,
     status |-> deriveStatus(c), health |-> ui.health]

----------------------------------------------------------------------------
(***************************************************************************)
(* The backend: every change of the loadpoint is emitted on the event bus, *)
(* and what is emitted is written to the stream if one is open.            *)
(***************************************************************************)

\* The bound on what users, modules and the network do.
Turn == turns < MaxTurns /\ turns' = turns + 1

modeEvents(q) == {i \in 1..Len(q) : q[i].type = "mode"}

Emit(events) ==
    /\ events = <<>> \/ Len(queue) < MaxQueue
    /\ queue' = IF stream = "open" THEN queue \o events ELSE queue
    /\ lost' = (lost \/ (stream # "open" /\ modeEvents(events) # {}))

modeEvent == [type |-> "mode", mode |-> lp'.mode]

\* handleModeChange, for this page (POST), another one, or an MQTT command.
handleModeChange(m) ==
    /\ lp' = [lp EXCEPT !.mode = m]
    /\ Emit(<<modeEvent>>)

PostHandled(m) ==
    /\ m \in posts
    /\ posts' = posts \ {m}
    /\ handleModeChange(m)
    /\ UNCHANGED <<module, page, ui, stream, asks, answers, polls, turns>>

\* The request does not reach the backend; the store keeps the optimistic mode.
PostFails(m) ==
    /\ m \in posts
    /\ posts' = posts \ {m}
    /\ lost' = TRUE
    /\ UNCHANGED <<lp, module, page, ui, stream, queue, asks, answers, polls, turns>>

ModeElsewhere(m) ==
    /\ Turn
    /\ handleModeChange(m)
    /\ UNCHANGED <<module, page, ui, stream, posts, asks, answers, polls>>

\* A status or meter frame of the charger: folded into the state and passed on, with the
\* session flag the last tick left there.
Frame(p) ==
    /\ lp' = [lp EXCEPT !.phase = p]
    /\ Emit(<<[type |-> "state", phase |-> p, finished |-> lp.finished]>>)
    /\ UNCHANGED <<module, page, ui, stream, posts, asks, answers, polls, turns>>

\* Slip: the revert is not announced
TickSilent(f) ==
    /\ f => lp.phase # "away"
    /\ \E reverts \in {FALSE, lp.mode = "fast" /\ lp.phase = "away"} :
           lp' = [lp EXCEPT !.finished = f, !.mode = IF reverts THEN "smart" ELSE @]
    /\ lp' # lp
    /\ Emit(IF f # lp.finished THEN <<[type |-> "session", finished |-> f]>> ELSE <<>>)
    /\ UNCHANGED <<module, page, ui, stream, posts, asks, answers, polls, turns>>

\* A tick of the control loop: fast reverts to smart when the car has been away for longer than
\* the grace, and the session is found complete or not; each change is announced.
LoopTick(f) ==
    /\ f => lp.phase # "away"
    /\ \E reverts \in {FALSE, lp.mode = "fast" /\ lp.phase = "away"} :
         /\ lp' = [lp EXCEPT !.finished = f, !.mode = IF reverts THEN "smart" ELSE @]
         /\ lp' # lp
         /\ Emit((IF reverts THEN <<modeEvent>> ELSE <<>>)
                 \o (IF f # lp.finished THEN <<[type |-> "session", finished |-> f]>> ELSE <<>>))
    /\ UNCHANGED <<module, page, ui, stream, posts, asks, answers, polls, turns>>

\* PUT of a part of the configuration, by any page.
ConfigWrite ==
    /\ Turn
    /\ Emit(<<[type |-> "config"]>>)
    /\ UNCHANGED <<lp, module, page, ui, stream, posts, asks, answers, polls>>

\* setHealth, from an event of the module or from the sweep: h is what the module says.  The map
\* follows, and a health that is not the last one sent is announced.
setHealth(h) ==
    /\ module' = [map |-> h, emitted |-> h]
    /\ module' # module
    /\ IF h # module.map THEN Turn ELSE UNCHANGED turns
    /\ Emit(IF module.emitted # h THEN <<[type |-> "health", health |-> h]>> ELSE <<>>)
    /\ UNCHANGED <<lp, page, ui, stream, posts, asks, answers, polls>>

\* sweepHealth, every 15 s.
Sweep == setHealth(module.map)

\* reconcile: a reload writes the map past the guard and announces nothing.
ReloadModule(h) ==
    /\ h # module.map
    /\ Turn
    /\ module' = [module EXCEPT !.map = h]
    /\ UNCHANGED <<lp, page, ui, stream, queue, posts, asks, answers, polls, lost>>

----------------------------------------------------------------------------
(***************************************************************************)
(* The page.                                                               *)
(***************************************************************************)

\* The probe: no answer means the simulated backend, for as long as the page lives.
ProbeFails ==
    /\ page = "probing"
    /\ page' = "demo"
    /\ UNCHANGED <<lp, module, ui, stream, queue, posts, asks, answers, polls, lost, turns>>

\* The answer to the probe is the first content of the store.  The health and a dozen other
\* reads follow, one after the other, before the page subscribes.
ProbeAnswered ==
    /\ page = "probing"
    /\ page' = "syncing"
    /\ ui' = mapLoadpoint(lp)
    /\ lost' = FALSE
    /\ UNCHANGED <<lp, module, stream, queue, posts, asks, answers, polls, turns>>

\* getHealth is optional: when it fails the entry is not there yet.
InitialHealth ==
    /\ page = "syncing"
    /\ ui' = [ui EXCEPT !.health = module.map]
    /\ ui' # ui
    /\ UNCHANGED <<lp, module, page, stream, queue, posts, asks, answers, polls, lost, turns>>

Subscribe ==
    /\ page = "syncing"
    /\ page' = "live"
    /\ stream' = "connecting"
    /\ UNCHANGED <<lp, module, ui, queue, posts, asks, answers, polls, lost, turns>>

\* The backend's handler of GET /events: from now on it hears the event bus.
StreamOpens ==
    /\ stream = "connecting"
    /\ stream' = "open"
    /\ UNCHANGED <<lp, module, page, ui, queue, posts, asks, answers, polls, lost, turns>>

\* onerror: close, and connect again after the backoff; what was on its way is gone, and
\* nothing is read again.
StreamBreaks ==
    /\ stream = "open"
    /\ Turn
    /\ stream' = "connecting"
    /\ queue' = <<>>
    /\ lost' = (lost \/ modeEvents(queue) # {})
    /\ UNCHANGED <<lp, module, page, ui, posts, asks, answers, polls>>

\* changeMode: the store first, then the POST.  setMode knows one status only.
changeMode(m) ==
    /\ page \in {"syncing", "live"}
    /\ Turn
    /\ ui' = [ui EXCEPT !.mode = m, !.status = IF m = "off" THEN "off" ELSE @]
    /\ posts' = posts \cup {m}
    /\ UNCHANGED <<lp, module, page, stream, queue, asks, answers, polls, lost>>

\* The subscribers of the five events: what each makes of the store.
onState(e) == mapLoadpoint([ui EXCEPT !.phase = e.phase, !.finished = e.finished])
onMode(e) == mapLoadpoint([ui EXCEPT !.mode = e.mode])
onSession(e) == mapLoadpoint([ui EXCEPT !.finished = e.finished])
onHealth(e) == [ui EXCEPT !.health = e.health]
\* The store stays as it is until the re-read is answered.
onConfig == asks' = asks + 1 /\ UNCHANGED ui

\* dispatch: the event at the head of the stream goes to its subscribers.
Dispatch ==
    /\ queue # <<>>
    /\ queue' = Tail(queue)
    /\ LET e == Head(queue) IN
         /\ lost' = (lost /\ e.type # "mode")
         /\ \/ e.type = "state"   /\ ui' = onState(e)   /\ UNCHANGED asks
            \/ e.type = "mode"    /\ ui' = onMode(e)    /\ UNCHANGED asks
            \/ e.type = "session" /\ ui' = onSession(e) /\ UNCHANGED asks
            \/ e.type = "health"  /\ ui' = onHealth(e)  /\ UNCHANGED asks
            \/ e.type = "config"  /\ onConfig
    /\ UNCHANGED <<lp, module, page, stream, posts, answers, polls, turns>>

\* rehydrateSite: the backend answers GET /api/loadpoints; GET /api/site follows, and only then
\* is the answer applied -- over whatever the stream has brought in between.
LoadpointRead ==
    /\ asks > 0
    /\ asks' = asks - 1
    /\ answers' = answers \cup {lp}
    /\ UNCHANGED <<lp, module, page, ui, stream, queue, posts, polls, lost, turns>>

ReadFails ==
    /\ asks > 0
    /\ asks' = asks - 1
    /\ UNCHANGED <<lp, module, page, ui, stream, queue, posts, answers, polls, lost, turns>>

rehydrate(a) ==
    /\ a \in answers
    /\ answers' = answers \ {a}
    /\ ui' = mapLoadpoint(a)
    /\ lost' = (a.mode # lp.mode)
    /\ UNCHANGED <<lp, module, page, stream, queue, posts, asks, polls, turns>>

\* Slip: no poll
PollNever == FALSE /\ UNCHANGED pageVars

\* The poll every HEALTH_POLL_MS; bound: one on its way at a time.
Poll ==
    /\ page = "live"
    /\ polls = {}
    /\ polls' = polls \cup {module.map}
    /\ UNCHANGED <<lp, module, page, ui, stream, queue, posts, asks, answers, lost, turns>>

PollAnswered(h) ==
    /\ h \in polls
    /\ polls' = polls \ {h}
    /\ ui' = [ui EXCEPT !.health = h]
    /\ UNCHANGED <<lp, module, page, stream, queue, posts, asks, answers, lost, turns>>

----------------------------------------------------------------------------
Init ==
    /\ lp \in [mode : Modes, phase : {"away"}, finished : {FALSE}]
    /\ module = [map |-> "ok", emitted |-> "ok"]
    /\ page = "probing"
    /\ ui = [mode |-> "smart", phase |-> "away", finished |-> FALSE,
             status |-> "unplugged", health |-> "none"]
    /\ stream = "off" /\ queue = <<>>
    /\ posts = {} /\ asks = 0 /\ answers = {} /\ polls = {}
    /\ lost = FALSE
    /\ turns = 0

Backend ==
    \/ \E m \in Modes : PostHandled(m) \/ PostFails(m) \/ ModeElsewhere(m)
    \/ \E p \in Phases : Frame(p)
    \/ \E f \in BOOLEAN : LoopTick(f)
    \/ ConfigWrite
    \/ \E h \in Healths : setHealth(h) \/ ReloadModule(h)

Page ==
    \/ ProbeFails \/ ProbeAnswered \/ InitialHealth \/ Subscribe
    \/ StreamOpens \/ StreamBreaks \/ Dispatch
    \/ \E m \in Modes : changeMode(m)
    \/ LoadpointRead \/ ReadFails
    \/ \E a \in Loadpoints : rehydrate(a)
    \/ Poll
    \/ \E h \in Healths : PollAnswered(h)

Next == Backend \/ Page

(***************************************************************************)
(* The sweep of the health and the poll run on intervals; the event loop   *)
(* of the page serves what has arrived; a charger that delivers sends its  *)
(* meter values.  The stream breaks MaxTurns times at most.                *)
(***************************************************************************)
Fairness ==
    /\ WF_pageVars(Sweep) /\ SF_pageVars(lp.phase = "drawing" /\ Frame("drawing"))
    /\ WF_pageVars(ProbeAnswered \/ ProbeFails) /\ WF_pageVars(Subscribe)
    /\ WF_pageVars(StreamOpens) /\ WF_pageVars(Dispatch)
    /\ WF_pageVars(LoadpointRead \/ ReadFails) /\ WF_pageVars(\E a \in Loadpoints : rehydrate(a))
    /\ WF_pageVars(Poll) /\ \A h \in Healths : WF_pageVars(PollAnswered(h))

Spec == Init /\ [][Next]_pageVars /\ Fairness

----------------------------------------------------------------------------
(***************************************************************************)
(* The state has the shape the code gives it; a page that is not live      *)
(* holds no stream open (sse.ts: demo mode does not try to reach an absent *)
(* backend), hears no events and reads nothing again.                      *)
(***************************************************************************)
LiveTypeOK ==
    /\ lp \in Loadpoints
    /\ module \in [map : Healths, emitted : Healths]
    /\ page \in {"probing", "demo", "syncing", "live"}
    /\ ui \in [mode : Modes, phase : Phases, finished : BOOLEAN, status : Statuses,
               health : Healths \cup {"none"}]
    /\ stream \in {"off", "connecting", "open"}
    /\ Len(queue) <= MaxQueue + 1
    /\ posts \subseteq Modes /\ answers \subseteq Loadpoints /\ polls \subseteq Healths
    /\ asks \in 0..MaxTurns
    /\ turns \in 0..MaxTurns
    /\ stream # "off" => page = "live"
    /\ queue # <<>> => stream = "open"
    /\ page # "live" => asks = 0 /\ answers = {} /\ polls = {}

(***************************************************************************)
(* The echo of a mode change reconciles the page, as commands.ts says of   *)
(* its optimistic update: once no POST and no echo is on its way, the page *)
(* shows the backend's mode and the status that follows from what it       *)
(* holds, whoever changed the mode and in whatever order the POSTs were    *)
(* served.  What it takes to be wrong is a mode event that never arrived   *)
(* (stream broken or not yet open), a POST that failed, or an answer to    *)
(* an older read that was applied over a newer event -- and the next mode  *)
(* event or read cures each of them.                                       *)
(***************************************************************************)
EchoReconciles ==
    page = "live" /\ posts = {} /\ modeEvents(queue) = {} /\ ~lost
        => ui.mode = lp.mode /\ ui.status = deriveStatus(ui)

(***************************************************************************)
(* A car that keeps drawing is in the end shown as charging for good,      *)
(* whatever was missed, overtaken or claimed finished before: every meter  *)
(* frame carries all the inputs of the status but the mode.                *)
(***************************************************************************)
ChargingIsShown ==
    <>[](lp.phase = "drawing") => <>[](page = "demo" \/ ui.status \in Charging)

(***************************************************************************)
(* The health the page shows becomes the module's and stays so once the    *)
(* module's stops changing: also when the event was sent while the stream  *)
(* was down or before the page subscribed, or was never sent because a     *)
(* reload wrote the map.                                                   *)
(***************************************************************************)
HealthCatchesUp ==
    \A h \in Healths :
        <>[](module.map = h) => <>[](page = "demo" \/ ui.health = h)
=============================================================================
