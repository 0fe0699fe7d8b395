------------------------ MODULE GgpoLifecycleProofs ------------------------
(***************************************************************************)
(* What the life of a GGPO session guarantees on every transport and for   *)
(* any bound on the pacing debt.                                           *)
(***************************************************************************)
EXTENDS GgpoLifecycle, TLAPS

(* The inductive invariant, as a predicate on the process's statics, so    *)
(* that it can be shown of each handler that composes them.                *)
Gated(a) ==
    /\ a.manualPause => ~a.updateAllowed
    /\ a.fatal => a.ggpo = "none"
    /\ a.ggpo # "none" => a.phase # "none"

Spent(a) ==
    a.ggpo = "none" => a.pacer = 0 /\ ~a.warning /\ ~a.interrupted /\ ~a.stalled

Deferred(a) ==
    (a.deferClose \/ a.deferPending) /\ a.ggpo # "none" => a.phase = "closing"

Placed(a) ==
    a.ggpo # "none" /\ a.flow = "menu"
        => a.deferPending /\ a.phase = "closing" /\ a.room # "none"

Degraded(a) ==
    a.lost => /\ a.flow = "fight" /\ a.room # "none" /\ ~a.tunnel
              /\ ~a.deferClose /\ ~a.deferPending

Good(a) ==
    a \in AppType /\ Gated(a) /\ Spent(a) /\ Deferred(a) /\ Placed(a) /\ Degraded(a)

----------------------------------------------------------------------------
(* The ways a session ends.                                                *)

(* No debt is a debt within the bound.                                      *)
LEMMA ZeroPace == 0 \in 0 .. MaxPace
BY MaxPaceAssumption

(* Retiring takes the session and its leftovers, and nothing else.          *)
LEMMA RetireFacts ==
    ASSUME NEW a \in AppType
    PROVE  LET r == RetireGgpoSession(a) IN
           /\ r \in AppType
           /\ r.ggpo = "none"
           /\ a.ggpo = "none" => r = a
           /\ a.ggpo # "none" => /\ r.phase = "none" /\ r.pacer = 0
                                 /\ ~r.stalled /\ ~r.warning /\ ~r.interrupted
           /\ r.manualPause = a.manualPause /\ r.fatal = a.fatal
           /\ r.updateAllowed = a.updateAllowed /\ r.tunnel = a.tunnel
           /\ r.room = a.room /\ r.lost = a.lost /\ r.flow = a.flow
           /\ r.deferClose = a.deferClose /\ r.deferPending = a.deferPending
<1>1. CASE a.ggpo = "none"
  BY <1>1 DEF RetireGgpoSession
<1>2. CASE a.ggpo # "none"
  <2> DEFINE c == OnSessionClosed(a)
             r == RetireGgpoSession(a)
  <2>1. c = [a EXCEPT !.phase = "none", !.stalled = FALSE, !.warning = FALSE]
    BY DEF OnSessionClosed
  <2>2. r = [c EXCEPT !.ggpo = "none", !.interrupted = FALSE, !.pacer = 0]
    BY <1>2 DEF RetireGgpoSession
  <2>3. /\ c \in AppType /\ c.phase = "none" /\ ~c.stalled /\ ~c.warning
        /\ c.manualPause = a.manualPause /\ c.fatal = a.fatal
        /\ c.updateAllowed = a.updateAllowed /\ c.tunnel = a.tunnel
        /\ c.room = a.room /\ c.lost = a.lost /\ c.flow = a.flow
        /\ c.deferClose = a.deferClose /\ c.deferPending = a.deferPending
    BY ZenonT(60), <2>1 DEF AppType
  <2> HIDE DEF c, r
  <2>4. r \in AppType
    BY ZenonT(60), <2>2, <2>3, ZeroPace DEF AppType
  <2>5. /\ r.ggpo = "none" /\ ~r.interrupted /\ r.pacer = 0
        /\ r.phase = "none" /\ ~r.stalled /\ ~r.warning
        /\ r.manualPause = a.manualPause /\ r.fatal = a.fatal
        /\ r.updateAllowed = a.updateAllowed /\ r.tunnel = a.tunnel
        /\ r.room = a.room /\ r.lost = a.lost /\ r.flow = a.flow
        /\ r.deferClose = a.deferClose /\ r.deferPending = a.deferPending
    BY <2>2, <2>3 DEF AppType
  <2> QED BY <1>2, <2>4, <2>5 DEF r
<1> QED BY <1>1, <1>2

(* An abort keeps the room; its session is gone.                            *)
LEMMA AbortGood ==
    ASSUME NEW a, Good(a)
    PROVE  LET r == AbortGgpoMatch(a) IN
           Good(r) /\ r.ggpo = "none" /\ r.lost = a.lost
<1> DEFINE stopped == [a EXCEPT !.fatal = TRUE, !.updateAllowed = FALSE,
                                !.interrupted = FALSE]
           t == RetireGgpoSession(stopped)
           r == AbortGgpoMatch(a)
<1>1. /\ stopped \in AppType /\ stopped.fatal /\ ~stopped.updateAllowed
      /\ ~stopped.interrupted /\ stopped.ggpo = a.ggpo
      /\ stopped.pacer = a.pacer /\ stopped.stalled = a.stalled
      /\ stopped.warning = a.warning /\ stopped.room = a.room
      /\ stopped.tunnel = a.tunnel /\ stopped.flow = a.flow /\ stopped.lost = a.lost
      /\ stopped.deferClose = a.deferClose /\ stopped.deferPending = a.deferPending
  BY DEF Good, AppType
<1>2. r = [t EXCEPT !.tunnel = FALSE, !.leaving = a.flow # "menu"]
  BY DEF AbortGgpoMatch
<1> HIDE DEF stopped
<1>3. /\ t \in AppType /\ t.ggpo = "none" /\ ~t.updateAllowed /\ t.pacer = 0
      /\ ~t.stalled /\ ~t.warning /\ ~t.interrupted
      /\ t.room = a.room /\ t.lost = a.lost /\ t.flow = a.flow
      /\ t.deferClose = a.deferClose /\ t.deferPending = a.deferPending
  BY <1>1, RetireFacts DEF Good, Spent
<1> HIDE DEF t, r
<1>4. r \in AppType
  BY ZenonT(60), <1>2, <1>3 DEF AppType
<1>5. /\ r.ggpo = "none" /\ ~r.updateAllowed /\ r.pacer = 0
      /\ ~r.stalled /\ ~r.warning /\ ~r.interrupted /\ ~r.tunnel
      /\ r.room = a.room /\ r.lost = a.lost /\ r.flow = a.flow
      /\ r.deferClose = a.deferClose /\ r.deferPending = a.deferPending
  BY <1>2, <1>3 DEF AppType
<1>6. Good(r)
  BY <1>4, <1>5 DEF Good, Gated, Spent, Deferred, Placed, Degraded
<1> QED BY <1>5, <1>6 DEF r

(* Leaving the room ends everything that hangs on it, whatever state it is  *)
(* left in.                                                                 *)
LEMMA ShutdownGood ==
    ASSUME NEW a \in AppType, a.manualPause => ~a.updateAllowed, Spent(a)
    PROVE  LET r == ShutdownNetplay(a) IN
           Good(r) /\ r.ggpo = "none" /\ r.room = "none" /\ ~r.lost /\ ~r.deferPending
<1> DEFINE t == RetireGgpoSession(a)
           r == ShutdownNetplay(a)
<1>1. r = [t EXCEPT !.pacer = 0, !.tunnel = FALSE, !.reported = FALSE,
                    !.syncRunning = FALSE, !.watching = FALSE, !.fallbackTried = FALSE,
                    !.room = "none", !.deferClose = FALSE, !.deferPending = FALSE,
                    !.lost = FALSE]
  BY DEF ShutdownNetplay
<1>2. /\ t \in AppType /\ t.ggpo = "none" /\ (t.manualPause => ~t.updateAllowed)
      /\ ~t.stalled /\ ~t.warning /\ ~t.interrupted
  BY RetireFacts DEF Spent
<1> HIDE DEF t, r
<1>3. r \in AppType
  BY ZenonT(60), <1>1, <1>2, ZeroPace DEF AppType
<1>4. /\ r.ggpo = "none" /\ r.room = "none" /\ ~r.lost /\ ~r.deferPending
      /\ r.pacer = 0 /\ ~r.stalled /\ ~r.warning /\ ~r.interrupted
      /\ (r.manualPause => ~r.updateAllowed)
  BY <1>1, <1>2 DEF AppType
<1>5. Good(r)
  BY <1>3, <1>4 DEF Good, Gated, Spent, Deferred, Placed, Degraded
<1> QED BY <1>4, <1>5 DEF r

(* A failure of netplay stops the fight first and then leaves the room.     *)
LEMMA FailureGood ==
    ASSUME NEW a, Good(a)
    PROVE  LET r == HandleNetplayFailure(a) IN
           Good(r) /\ r.ggpo = "none" /\ r.room = "none" /\ ~r.lost /\ ~r.deferPending
<1> DEFINE stopped == [a EXCEPT !.leaving = @ \/ a.flow = "fight",
                                !.fatal = TRUE, !.updateAllowed = FALSE]
<1>1. CASE a.ggpo = "none"
  <2>1. HandleNetplayFailure(a) = ShutdownNetplay(a)
    BY <1>1 DEF HandleNetplayFailure
  <2> QED BY <2>1, ShutdownGood DEF Good, Gated
<1>2. CASE a.ggpo # "none"
  <2>1. HandleNetplayFailure(a) = ShutdownNetplay(stopped)
    BY <1>2 DEF HandleNetplayFailure
  <2>2. stopped \in AppType
    BY ZenonT(60) DEF Good, AppType
  <2>3. ~stopped.updateAllowed /\ stopped.ggpo = a.ggpo
    BY DEF Good, AppType
  <2> HIDE DEF stopped
  <2> QED BY <1>2, <2>1, <2>2, <2>3, ShutdownGood DEF Spent
<1> QED BY <1>1, <1>2

(* A lost room leaves a running fight alone unless its traffic rides on the *)
(* room; everything else fails.                                             *)
LEMMA LossGood ==
    ASSUME NEW a, Good(a), a.room # "none"
    PROVE  LET r == HandleControlPlaneLoss(a) IN
           /\ Good(r)
           /\ a.lost => r = a
           /\ r \in {a, [a EXCEPT !.lost = TRUE]} \/ r.ggpo = "none"
<1>1. CASE a.lost
  BY <1>1 DEF HandleControlPlaneLoss
<1>2. CASE ~a.lost /\ a.ggpo # "none" /\ a.phase = "running" /\ ~a.fatal
           /\ a.flow = "fight" /\ ~a.tunnel
  <2>1. HandleControlPlaneLoss(a) = [a EXCEPT !.lost = TRUE]
    BY <1>2 DEF HandleControlPlaneLoss
  <2>2. Good([a EXCEPT !.lost = TRUE])
    BY <1>2 DEF AppType, Good, Gated, Spent, Deferred, Placed, Degraded
  <2> QED BY <1>2, <2>1, <2>2
<1>3. CASE ~a.lost /\ ~(a.ggpo # "none" /\ a.phase = "running" /\ ~a.fatal
                         /\ a.flow = "fight" /\ ~a.tunnel)
  <2>1. HandleControlPlaneLoss(a) = HandleNetplayFailure(a)
    BY <1>3 DEF HandleControlPlaneLoss
  <2> QED BY <1>3, <2>1, FailureGood
<1> QED BY <1>1, <1>2, <1>3

----------------------------------------------------------------------------
(* A session opens: whatever was deferred is closed before.                 *)
LEMMA OpenFacts ==
    ASSUME NEW a, Good(a), a.flow # "menu", ~a.lost
    PROVE  LET r == OpenSession(a) IN
           /\ Good(r)
           /\ r.ggpo = "none" /\ r.phase = "waiting" /\ ~r.fatal /\ ~r.lost
           /\ ~r.deferClose /\ ~r.deferPending
           /\ r.flow = a.flow
<1> DEFINE c == CancelDeferredGgpoClose(a)
           t == RetireGgpoSession(c)
           r == OpenSession(a)
<1>1. /\ c \in AppType /\ ~c.deferClose /\ ~c.deferPending /\ c.flow = a.flow
      /\ ~c.lost /\ c.ggpo = a.ggpo /\ c.interrupted = a.interrupted
      /\ c.manualPause = a.manualPause
  BY DEF CancelDeferredGgpoClose, Good, AppType
<1>2. r = [t EXCEPT !.phase = "waiting", !.fatal = FALSE, !.stalled = FALSE,
                    !.warning = FALSE, !.pacer = 0, !.updateAllowed = ~a.manualPause]
  BY DEF OpenSession
<1> HIDE DEF c
<1>3. /\ t \in AppType /\ t.ggpo = "none" /\ ~t.deferClose /\ ~t.deferPending
      /\ t.flow = a.flow /\ ~t.lost /\ t.manualPause = a.manualPause
      /\ ~t.interrupted
  BY <1>1, RetireFacts DEF Good, Spent
<1> HIDE DEF t, r
<1>4. r \in AppType
  BY ZenonT(60), <1>2, <1>3, ZeroPace DEF AppType
<1>5. /\ r.ggpo = "none" /\ r.phase = "waiting" /\ ~r.fatal /\ ~r.lost
      /\ ~r.deferClose /\ ~r.deferPending /\ r.flow = a.flow
      /\ r.updateAllowed = ~r.manualPause
      /\ r.pacer = 0 /\ ~r.stalled /\ ~r.warning /\ ~r.interrupted
  BY <1>2, <1>3 DEF AppType
<1>6. Good(r)
  BY <1>4, <1>5 DEF Good, Gated, Spent, Deferred, Placed, Degraded
<1> QED BY <1>5, <1>6 DEF r

(* GGPO takes the opened session.                                           *)
LEMMA SessionGood ==
    ASSUME NEW a, Good(a), a.flow # "menu", ~a.lost, a.ggpo = "none",
           a.phase = "waiting", ~a.fatal, ~a.deferClose, ~a.deferPending,
           NEW kind \in {"player", "spectator"}
    PROVE  Good([a EXCEPT !.ggpo = kind])
BY DEF AppType, Good, Gated, Spent, Deferred, Placed, Degraded

(* StartGGPO, whatever the library answers.                                 *)
LEMMA StartGood ==
    ASSUME NEW a, Good(a), a.flow # "menu", ~a.lost, NEW result \in StartResults
    PROVE  Good(StartGGPO(a, result))
<1> DEFINE opened == [OpenSession(a) EXCEPT !.interrupted = FALSE]
<1>1. /\ Good(opened) /\ opened.ggpo = "none" /\ opened.phase = "waiting"
      /\ ~opened.fatal /\ ~opened.lost /\ opened.flow # "menu"
      /\ ~opened.deferClose /\ ~opened.deferPending
  BY ZenonT(60), OpenFacts DEF AppType, Good, Gated, Spent, Deferred, Placed, Degraded
<1>2. Good([opened EXCEPT !.ggpo = "player"])
  BY <1>1, SessionGood
<1>3. CASE result = "ok"
  BY <1>2, <1>3 DEF StartGGPO
<1>4. CASE result = "start_fails"
  BY <1>1, <1>4, AbortGood DEF StartGGPO
<1>5. CASE result = "add_fails"
  BY <1>2, <1>5, AbortGood DEF StartGGPO
<1> QED BY <1>3, <1>4, <1>5 DEF StartResults

(* StartSpectating, whether it succeeds or not.                             *)
LEMMA SpectateGood ==
    ASSUME NEW a, Good(a), a.flow # "menu", ~a.lost, NEW ok \in BOOLEAN
    PROVE  Good(StartSpectating(a, ok))
<1> DEFINE opened == OpenSession(a)
<1>1. /\ Good(opened) /\ opened.ggpo = "none" /\ opened.phase = "waiting"
      /\ ~opened.fatal /\ ~opened.lost /\ opened.flow # "menu"
      /\ ~opened.deferClose /\ ~opened.deferPending
  BY OpenFacts
<1>2. [opened EXCEPT !.ggpo = "none"] = opened
  BY <1>1 DEF Good, AppType
<1>3. CASE ok
  BY <1>1, <1>3, SessionGood DEF StartSpectating
<1>4. CASE ~ok
  BY <1>1, <1>2, <1>4 DEF StartSpectating
<1> QED BY <1>3, <1>4

(* The battle starts to load; a deferred session may still be open.         *)
LEMMA LoadingGood ==
    ASSUME Good(app), app.flow = "menu"
    PROVE  Good(Loading) /\ Loading.flow = "loading" /\ ~Loading.lost
BY ZenonT(60) DEF Loading, AppType, Good, Gated, Spent, Deferred, Placed, Degraded

(* ReleasePort closes it.                                                   *)
LEMMA ReleaseGood ==
    ASSUME NEW a, Good(a)
    PROVE  LET r == ReleasePort(a) IN Good(r) /\ r.flow = a.flow /\ r.lost = a.lost
<1>1. CASE a.ggpo = "none"
  BY <1>1 DEF ReleasePort
<1>2. CASE a.ggpo # "none"
  <2> DEFINE c == CancelDeferredGgpoClose(a)
             t == RetireGgpoSession(c)
             r == ReleasePort(a)
  <2>1. /\ c \in AppType /\ ~c.deferClose /\ ~c.deferPending /\ c.flow = a.flow
        /\ c.lost = a.lost /\ c.ggpo = a.ggpo /\ c.room = a.room
        /\ c.manualPause = a.manualPause /\ c.updateAllowed = a.updateAllowed
    BY DEF CancelDeferredGgpoClose, Good, AppType
  <2>2. r = [t EXCEPT !.tunnel = FALSE]
    BY <1>2 DEF ReleasePort
  <2> HIDE DEF c
  <2>3. /\ t \in AppType /\ t.ggpo = "none" /\ ~t.deferClose /\ ~t.deferPending
        /\ t.flow = a.flow /\ t.lost = a.lost /\ t.room = a.room
        /\ t.manualPause = a.manualPause /\ t.updateAllowed = a.updateAllowed
        /\ t.pacer = 0 /\ ~t.stalled /\ ~t.warning /\ ~t.interrupted
    BY <1>2, <2>1, RetireFacts
  <2> HIDE DEF t, r
  <2>4. /\ r \in AppType /\ r.ggpo = "none" /\ ~r.deferClose /\ ~r.deferPending
        /\ r.flow = a.flow /\ r.lost = a.lost /\ r.room = a.room
        /\ r.manualPause = a.manualPause /\ r.updateAllowed = a.updateAllowed
        /\ r.pacer = 0 /\ ~r.stalled /\ ~r.warning /\ ~r.interrupted /\ ~r.tunnel
    BY ZenonT(60), <2>2, <2>3 DEF AppType
  <2>5. Good(r)
    BY <2>4 DEF Good, Gated, Spent, Deferred, Placed, Degraded
  <2> QED BY <2>4, <2>5 DEF r
<1> QED BY <1>1, <1>2

(* The transport is ready before the session starts.                        *)
LEMMA PreparedGood ==
    ASSUME Good(app), app.flow = "menu"
    PROVE  Good(Prepared) /\ Prepared.flow = "loading" /\ ~Prepared.lost
<1> DEFINE a == Loading
<1>1. Good(a) /\ a.flow = "loading" /\ ~a.lost /\ a.transport = app.transport
  BY LoadingGood DEF Loading, Good, AppType
<1>2. a.transport \in AllTransports
  BY <1>1 DEF Good, AppType
<1> HIDE DEF a
<1>3. Good(ReleasePort(a)) /\ ReleasePort(a).flow = "loading" /\ ~ReleasePort(a).lost
  BY <1>1, ReleaseGood
<1>4. ASSUME NEW b, Good(b), b.flow = "loading", ~b.lost, NEW yes \in BOOLEAN
      PROVE  LET r == [b EXCEPT !.reported = yes] IN
             Good(r) /\ r.flow = "loading" /\ ~r.lost
  BY <1>4 DEF AppType, Good, Gated, Spent, Deferred, Placed, Degraded
<1>5. ASSUME NEW b, Good(b), b.flow = "loading", ~b.lost, NEW yes \in BOOLEAN
      PROVE  LET r == [b EXCEPT !.tunnel = yes] IN
             Good(r) /\ r.flow = "loading" /\ ~r.lost
  BY <1>5 DEF AppType, Good, Gated, Spent, Deferred, Placed, Degraded
<1>6. CASE app.transport \in {"udp", "p2p"}
  <2>1. Prepared = [ReleasePort(a) EXCEPT !.reported = app.transport = "udp"]
    BY <1>6 DEF Prepared, a
  <2>2. (app.transport = "udp") \in BOOLEAN
    OBVIOUS
  <2> HIDE DEF a
  <2> QED BY <1>3, <1>4, <2>1, <2>2
<1>7. CASE app.transport = "tunnel"
  <2>1. Prepared = [a EXCEPT !.tunnel = TRUE]
    BY <1>7 DEF Prepared, a
  <2> QED BY <1>1, <1>5, <2>1
<1>8. CASE app.transport = "direct"
  <2>1. Prepared = a
    BY <1>8 DEF Prepared, a
  <2> QED BY <1>1, <2>1
<1> QED BY <1>1, <1>2, <1>6, <1>7, <1>8 DEF AllTransports

(* The watchdog's fields matter to nothing else.                            *)
LEMMA WatchGood ==
    ASSUME NEW a, Good(a)
    PROVE  Good(ResetGgpoBattleWatch(a))
BY ZenonT(60) DEF ResetGgpoBattleWatch, AppType, Good, Gated, Spent, Deferred, Placed, Degraded

(* Every branch of the registration leads to a good state.                  *)
LEMMA RegisterStep ==
    ASSUME Good(app), RegisterTasks
    PROVE  Good(app')
<1>1. app.flow = "menu"
  BY DEF RegisterTasks
<1>2. CASE PlayerStarts
  BY <1>1, <1>2, PreparedGood, StartGood, WatchGood DEF PlayerStarts
<1>3. CASE PlayerCannotStart
  <2>1. CASE app' = AbortGgpoMatch(Prepared)
    BY <1>1, <2>1, PreparedGood, AbortGood
  <2>2. CASE app' = [Loading EXCEPT !.tunnel = FALSE]
    <3>1. Good(Loading) /\ ~Loading.lost
      BY <1>1, LoadingGood
    <3> DEFINE b == Loading
    <3> HIDE DEF b
    <3>2. [b EXCEPT !.tunnel = FALSE] \in AppType
      BY <3>1 DEF b, AppType, Good
    <3>3. Good([b EXCEPT !.tunnel = FALSE])
      BY <3>1, <3>2 DEF b, AppType, Good, Gated, Spent, Deferred, Placed, Degraded
    <3> QED BY <2>2, <3>3 DEF b
  <2>3. CASE app' = Loading
    BY <1>1, <2>3, LoadingGood
  <2> QED BY <1>3, <2>1, <2>2, <2>3 DEF PlayerCannotStart
<1>4. CASE SpectatorStarts
  BY <1>1, <1>4, LoadingGood, SpectateGood DEF SpectatorStarts
<1> QED BY <1>2, <1>3, <1>4 DEF RegisterTasks

----------------------------------------------------------------------------
(* The controls, a frame and its end.                                       *)
(* A pause forbids updates as it is set.                                    *)
LEMMA PausedGood ==
    ASSUME NEW a, Good(a), NEW yes \in BOOLEAN, NEW halt \in BOOLEAN
    PROVE  Good(Paused(a, yes)) /\ Good([Paused(a, yes) EXCEPT !.halt = halt])
           /\ Good([a EXCEPT !.halt = halt])
<1>1. Good(Paused(a, yes))
  BY ZenonT(60) DEF Paused, AppType, Good, Gated, Spent, Deferred, Placed, Degraded
<1>2. ASSUME NEW b, Good(b) PROVE Good([b EXCEPT !.halt = halt])
  BY <1>2 DEF AppType, Good, Gated, Spent, Deferred, Placed, Degraded
<1> QED BY <1>1, <1>2

(* A halt pauses after the frame.                                           *)
LEMMA HaltGood ==
    ASSUME NEW a, Good(a)
    PROVE  Good(HaltAfterNext(a))
BY PausedGood DEF HaltAfterNext

(* A stall belongs to a session.                                            *)
LEMMA StallGood ==
    ASSUME NEW a, Good(a)
    PROVE  /\ Good(OnFrameAccepted(a))
           /\ a.ggpo # "none" => Good(OnPredictionThreshold(a))
<1>1. Good(OnFrameAccepted(a))
  BY ZenonT(60) DEF OnFrameAccepted, AppType, Good, Gated, Spent, Deferred, Placed, Degraded
<1>2. ASSUME a.ggpo # "none" PROVE Good(OnPredictionThreshold(a))
  BY ZenonT(60), <1>2 DEF OnPredictionThreshold, AppType, Good, Gated, Spent, Deferred, Placed, Degraded
<1> QED BY <1>1, <1>2

(* A frame of BattleUpdate, whatever GGPO says to it.                       *)
LEMMA FrameStep ==
    ASSUME Good(app), BattleUpdate
    PROVE  Good(app')
<1>1. CASE app.ggpo # "none" /\ app.flow = "fight"
  <2>1. app' \in FrameOutcomes(app)
    BY <1>1 DEF BattleUpdate
  <2> QED BY <1>1, <2>1, HaltGood, StallGood, AbortGood DEF FrameOutcomes
<1>2. CASE ~(app.ggpo # "none" /\ app.flow = "fight")
  <2>1. app' = HaltAfterNext([app EXCEPT !.flow = "fight"])
    BY <1>2 DEF BattleUpdate
  <2>2. Good([app EXCEPT !.flow = "fight"])
    BY DEF AppType, Good, Gated, Spent, Deferred, Placed, Degraded
  <2> QED BY <2>1, <2>2, HaltGood
<1> QED BY <1>1, <1>2

(* The end of a battle keeps its session only behind a closed gate and a    *)
(* deferral, and a room lost meanwhile is left now.                         *)
LEMMA CloseStep ==
    ASSUME Good(app), audience \in BOOLEAN, CloseBattle
    PROVE  Good(app') /\ (app.lost /\ ~app'.lost => app'.room = "none" /\ app'.ggpo = "none"
                                                    /\ ~app'.deferPending)
<1> DEFINE closing == OnBattleClosing(app)
           ended == NotifyMatchEnded(closing)
           kept == [ended EXCEPT !.pacer = 0, !.interrupted = FALSE]
           t == RetireGgpoSession(ended)
           dropped == [t EXCEPT !.tunnel = FALSE]
           c == Closed(app)
           menu == [c EXCEPT !.flow = "menu"]
<1>1. /\ closing \in AppType /\ closing.phase = IF app.phase = "none" THEN "none" ELSE "closing"
      /\ closing.ggpo = app.ggpo /\ closing.lost = app.lost /\ closing.room = app.room
      /\ closing.manualPause = app.manualPause /\ closing.updateAllowed = app.updateAllowed
      /\ closing.fatal = app.fatal /\ closing.tunnel = app.tunnel
  BY DEF OnBattleClosing, Good, AppType
<1>2. c = IF app.ggpo = "none" THEN app ELSE IF ended.deferClose THEN kept ELSE dropped
  BY DEF Closed, Good, AppType
<1> HIDE DEF closing
<1>3. /\ ended \in AppType /\ ended.phase = closing.phase
      /\ ended.deferClose \in BOOLEAN
      /\ ended.deferClose = (~closing.lost /\ closing.room # "none" /\ audience)
      /\ ended.deferPending = ended.deferClose
      /\ ended.ggpo = app.ggpo /\ ended.lost = app.lost /\ ended.room = app.room
      /\ ended.manualPause = app.manualPause /\ ended.updateAllowed = app.updateAllowed
      /\ ended.fatal = app.fatal /\ ended.tunnel = app.tunnel
  BY ZenonT(60), <1>1 DEF NotifyMatchEnded, AppType
<1> HIDE DEF ended, c, kept, t, dropped
<1>4. ASSUME app.ggpo # "none", ended.deferClose
      PROVE  /\ c \in AppType /\ c.phase = "closing" /\ c.deferPending /\ c.lost = app.lost
             /\ c.room # "none" /\ ~c.fatal /\ (c.manualPause => ~c.updateAllowed)
             /\ c.ggpo # "none"
  <2>1. c = [ended EXCEPT !.pacer = 0, !.interrupted = FALSE]
    BY <1>2, <1>4 DEF kept
  <2>2. c \in AppType
    BY ZenonT(60), <1>3, <2>1, ZeroPace DEF AppType
  <2>3. /\ c.phase = ended.phase /\ c.deferPending = ended.deferPending
        /\ c.lost = ended.lost /\ c.room = ended.room /\ c.fatal = ended.fatal
        /\ c.manualPause = ended.manualPause /\ c.updateAllowed = ended.updateAllowed
        /\ c.ggpo = ended.ggpo
    BY <1>3, <2>1 DEF AppType
  <2> QED BY <1>1, <1>3, <1>4, <2>2, <2>3 DEF Good, Gated
<1>5. ASSUME app.ggpo # "none", ~ended.deferClose
      PROVE  /\ c \in AppType /\ c.ggpo = "none" /\ c.pacer = 0
             /\ ~c.warning /\ ~c.interrupted /\ ~c.stalled
             /\ (c.manualPause => ~c.updateAllowed) /\ c.lost = app.lost
  <2>1. c = [t EXCEPT !.tunnel = FALSE]
    BY <1>2, <1>5 DEF dropped
  <2>2. /\ t \in AppType /\ t.ggpo = "none" /\ t.pacer = 0 /\ t.lost = app.lost
        /\ ~t.warning /\ ~t.interrupted /\ ~t.stalled
        /\ (t.manualPause => ~t.updateAllowed)
    BY <1>3, <1>5, RetireFacts DEF t, Good, Gated
  <2> HIDE DEF t
  <2> QED BY <2>1, <2>2 DEF AppType
<1>6. /\ c \in AppType /\ (c.manualPause => ~c.updateAllowed) /\ Spent(c)
      /\ c.lost = app.lost /\ (c.fatal => c.ggpo = "none")
      /\ c.ggpo # "none" => c.deferPending /\ c.phase = "closing" /\ c.room # "none"
  <2>1. CASE app.ggpo = "none"
    BY <1>2, <2>1 DEF Good, Gated, Spent
  <2>2. CASE app.ggpo # "none" /\ ended.deferClose
    BY <1>1, <1>3, <1>4, <2>2 DEF Spent
  <2>3. CASE app.ggpo # "none" /\ ~ended.deferClose
    BY <1>5, <2>3 DEF Spent
  <2> QED BY <2>1, <2>2, <2>3
<1>7. /\ menu \in AppType /\ (menu.manualPause => ~menu.updateAllowed) /\ Spent(menu)
      /\ menu.lost = app.lost /\ (menu.fatal => menu.ggpo = "none") /\ menu.flow = "menu"
      /\ menu.ggpo # "none" => menu.deferPending /\ menu.phase = "closing" /\ menu.room # "none"
  BY <1>6 DEF AppType, Spent
<1>8. app' = FinalizeControlPlaneLoss(menu)
  BY DEF CloseBattle, c
<1> HIDE DEF menu
<1>9. CASE menu.lost
  BY <1>7, <1>8, <1>9, ShutdownGood DEF FinalizeControlPlaneLoss
<1>10. CASE ~menu.lost
  <2>1. app' = menu
    BY <1>8, <1>10 DEF FinalizeControlPlaneLoss
  <2>2. Good(menu)
    BY <1>7, <1>10 DEF Good, Gated, Deferred, Placed, Degraded
  <2> QED BY <1>7, <1>10, <2>1, <2>2
<1> QED BY <1>9, <1>10

----------------------------------------------------------------------------
(* Every step keeps the invariant.                                          *)
Inv ==
    /\ Good(app)
    /\ link \in {"none", "syncing", "live", "gone"}
    /\ {synced, audience, watchLate, deferLate} \subseteq BOOLEAN

(* The process starts in the menu, without a room.                          *)
LEMMA InitInv == Init => Inv
<1> SUFFICES ASSUME Init PROVE Inv
  OBVIOUS
<1>1. app \in AppType
  BY ZeroPace DEF Init, AppType, AllTransports
<1>2. /\ app.ggpo = "none" /\ ~app.manualPause /\ ~app.fatal /\ app.pacer = 0
      /\ ~app.warning /\ ~app.interrupted /\ ~app.stalled /\ ~app.lost
  BY DEF Init
<1>3. Good(app)
  BY <1>1, <1>2 DEF Good, Gated, Spent, Deferred, Placed, Degraded
<1> QED BY <1>3 DEF Init, Inv

(* Joining finds no session and no degraded fight.                          *)
LEMMA JoinGood ==
    ASSUME Good(app), StartSession
    PROVE  Good(app')
<1>1. PICK t \in Transports : app' = [app EXCEPT !.room = "up", !.transport = t]
  BY DEF StartSession
<1>2. t \in AllTransports /\ app.room = "none"
  BY TransportsAssumption DEF StartSession
<1>3. app' \in AppType
  BY <1>1, <1>2 DEF Good, AppType
<1> QED BY <1>1, <1>2, <1>3 DEF AppType, Good, Gated, Spent, Deferred, Placed, Degraded

(* Warnings keep the types.                                                 *)
LEMMA EventTypes ==
    ASSUME NEW a \in AppType
    PROVE  Interrupted(a) \in AppType /\ Resumed(a) \in AppType
<1>1. PICK i \in BOOLEAN, j \in BOOLEAN :
          /\ Interrupted(a) = [a EXCEPT !.interrupted = i, !.warning = TRUE]
          /\ Resumed(a) = [a EXCEPT !.interrupted = j, !.warning = FALSE]
  BY DEF Interrupted, Resumed, AppType
<1> QED BY ZenonT(60), <1>1 DEF AppType

(* GGPO's events around the connection move neither session nor deferral.   *)
LEMMA EventGood ==
    ASSUME Good(app), app.ggpo # "none", OnRunning \/ OnConnectionEvent \/ OnDisconnectedFromPeer
    PROVE  Good(app')
<1>1. CASE OnRunning
  <2>1. PICK p \in {"none", "waiting", "running", "closing"} :
            /\ app' = [app EXCEPT !.phase = p, !.syncRunning = TRUE]
            /\ p = app.phase \/ (p = "running" /\ app.phase = "waiting")
    BY <1>1 DEF OnRunning, Good, AppType
  <2>2. app' \in AppType
    BY <2>1 DEF Good, AppType
  <2> QED BY <2>1, <2>2 DEF AppType, Good, Gated, Spent, Deferred, Placed, Degraded
<1>2. Good(Interrupted(app)) /\ Good(Resumed(app))
  BY ZenonT(60) DEF Interrupted, Resumed, AppType, Good, Gated, Spent, Deferred, Placed, Degraded
<1>3. ASSUME NEW a, Good(a), NEW leaving \in BOOLEAN
      PROVE  Good([a EXCEPT !.leaving = leaving, !.interrupted = FALSE])
  <2>1. [a EXCEPT !.leaving = leaving, !.interrupted = FALSE] \in AppType
    BY ZenonT(60), <1>3 DEF Good, AppType
  <2> QED BY <1>3, <2>1 DEF AppType, Good, Gated, Spent, Deferred, Placed, Degraded
<1>4. CASE OnDisconnectedFromPeer
  <2>1. app' = [Resumed(app) EXCEPT !.leaving = app.flow # "menu", !.interrupted = FALSE]
    BY <1>4 DEF OnDisconnectedFromPeer
  <2>2. (app.flow # "menu") \in BOOLEAN
    OBVIOUS
  <2> QED BY <1>2, <1>3, <2>1, <2>2
<1> QED BY <1>1, <1>2, <1>4 DEF OnConnectionEvent

(* The debt is clamped when it is set and only shrinks afterwards.          *)
LEMMA PaceGood ==
    ASSUME Good(app), OnTimesync \/ PacedWait
    PROVE  Good(app')
<1>1. app.ggpo # "none"
  BY DEF OnTimesync, PacedWait
<1>2. ASSUME NEW debt \in 0 .. MaxPace
      PROVE  Good([app EXCEPT !.pacer = debt])
  BY <1>1, <1>2 DEF AppType, Good, Gated, Spent, Deferred, Placed, Degraded
<1>3. CASE OnTimesync
  <2>1. PICK ahead \in 0 .. (MaxPace + 1) : app' = OnRecommendation(app, ahead)
    BY <1>3 DEF OnTimesync
  <2>2. (IF ahead > MaxPace THEN MaxPace ELSE ahead) \in 0 .. MaxPace
    BY MaxPaceAssumption
  <2> QED BY <1>2, <2>1, <2>2 DEF OnRecommendation
<1>4. CASE PacedWait
  <2>1. PICK left \in 0 .. app.pacer : app' = [app EXCEPT !.pacer = left]
    BY <1>4 DEF PacedWait
  <2>2. app.pacer \in 0 .. MaxPace
    BY DEF Good, AppType
  <2>3. left \in 0 .. MaxPace
    BY <2>2, MaxPaceAssumption
  <2> QED BY <1>2, <2>1, <2>3
<1> QED BY <1>3, <1>4

(* TickFrame aborts a session or closes a deferred one.                     *)
LEMMA TickGood ==
    ASSUME Good(app), TickFrame
    PROVE  Good(app')
<1> DEFINE tried == [app EXCEPT !.fallbackTried = TRUE]
           a == Watchdog(app)
<1>1. Good(tried)
  BY ZenonT(60) DEF AppType, Good, Gated, Spent, Deferred, Placed, Degraded
<1>2. a = IF SyncTimedOut(app) THEN AbortGgpoMatch(tried) ELSE app
  BY DEF Watchdog
<1> HIDE DEF tried
<1>3. Good(a)
  BY <1>1, <1>2, AbortGood
<1>4. app' = DeferredClose(a)
  BY DEF TickFrame
<1> HIDE DEF a
<1>5. CASE ~(a.deferPending /\ a.ggpo # "none" /\ ~ShouldDeferGgpoClose(a))
  BY <1>3, <1>4, <1>5 DEF DeferredClose
<1>6. CASE a.deferPending /\ a.ggpo # "none" /\ ~ShouldDeferGgpoClose(a)
  <2> DEFINE t == RetireGgpoSession(a)
             r == [t EXCEPT !.tunnel = FALSE]
  <2>1. app' = CancelDeferredGgpoClose(r)
    BY <1>4, <1>6 DEF DeferredClose
  <2>2. /\ t \in AppType /\ t.ggpo = "none" /\ t.pacer = 0 /\ ~t.lost
        /\ ~t.warning /\ ~t.interrupted /\ ~t.stalled
        /\ (t.manualPause => ~t.updateAllowed)
    BY <1>3, <1>6, RetireFacts DEF Good, Gated, Degraded, AppType
  <2> HIDE DEF t
  <2>3. /\ r \in AppType /\ r.ggpo = "none" /\ r.pacer = 0 /\ ~r.lost
        /\ ~r.warning /\ ~r.interrupted /\ ~r.stalled
        /\ (r.manualPause => ~r.updateAllowed)
    BY <2>2 DEF AppType
  <2> HIDE DEF r
  <2> QED BY ZenonT(60), <2>1, <2>3
          DEF CancelDeferredGgpoClose, AppType, Good, Gated, Spent, Deferred, Placed, Degraded
<1> QED BY <1>5, <1>6

(* A lost room degrades the fight or ends it.                               *)
LEMMA LoseGood ==
    ASSUME Good(app), LoseRoom \/ StepFails
    PROVE  /\ Good(app')
           /\ app.lost => app'.lost
           /\ app'.ggpo # "none" => app' \in {app, [app EXCEPT !.lost = TRUE],
                                    [app EXCEPT !.room = "down"],
                                    [[app EXCEPT !.room = "down"] EXCEPT !.lost = TRUE]}
<1> DEFINE down == [app EXCEPT !.room = "down"]
<1>1. CASE StepFails
  <2>1. app' = HandleControlPlaneLoss(app) /\ app.room # "none"
    BY <1>1 DEF StepFails
  <2> QED BY <2>1, LossGood
<1>2. CASE LoseRoom
  <2>1. Good(down) /\ down.room # "none" /\ down.lost = app.lost
    BY DEF AppType, Good, Gated, Spent, Deferred, Placed, Degraded
  <2>2. app' = HandleControlPlaneLoss(down) \/ app' = down
    BY <1>2 DEF LoseRoom
  <2> HIDE DEF down
  <2>3. /\ Good(app') /\ (app.lost => app'.lost)
        /\ app'.ggpo # "none" => app' \in {down, [down EXCEPT !.lost = TRUE]}
    BY <2>1, <2>2, LossGood
  <2> QED BY <2>3 DEF down
<1> QED BY <1>1, <1>2

(* Every handler takes a good process to a good one.                       *)
LEMMA InvStep == Inv /\ [Next]_vars => Inv'
<1> SUFFICES ASSUME Inv, [Next]_vars PROVE Inv'
  OBVIOUS
<1> USE DEF Inv
<1>1. CASE StartSession
  BY <1>1, JoinGood DEF StartSession
<1>2. CASE LobbyUpdate
  BY <1>2 DEF LobbyUpdate
<1>3. CASE Disconnect
  BY <1>3, ShutdownGood DEF Disconnect, Good, Gated
<1>4. CASE SimulationControl
  <2>1. Good(app')
    BY <1>4, PausedGood DEF SimulationControl, PressPause, PressPlay, PressHalt, PressStep
  <2> QED BY <1>4, <2>1 DEF SimulationControl
<1>5. CASE RegisterTasks
  <2>1. watchLate' \in BOOLEAN
    BY <1>5 DEF RegisterTasks, PlayerStarts, PlayerCannotStart, SpectatorStarts
  <2> QED BY <1>5, <2>1, RegisterStep DEF RegisterTasks
<1>6. CASE OfflineBattle
  BY <1>6, LoadingGood DEF OfflineBattle
<1>7. CASE BattleSynced
  BY <1>7 DEF BattleSynced
<1>8. CASE BattleUpdate
  <2>1. UNCHANGED <<link, synced, audience, watchLate, deferLate>>
    BY <1>8 DEF BattleUpdate
  <2> QED BY <1>8, <2>1, FrameStep
<1>9. CASE Rollback
  BY <1>9, AbortGood DEF Rollback
<1>10. CASE CloseBattle
  <2>1. UNCHANGED <<link, synced, audience, watchLate>> /\ deferLate' \in BOOLEAN
    BY <1>10 DEF CloseBattle
  <2> QED BY <1>10, <2>1, CloseStep
<1>11. CASE OnRunning
  BY <1>11, EventGood DEF OnRunning
<1>12. CASE OnConnectionEvent
  BY <1>12, EventGood DEF OnConnectionEvent
<1>13. CASE OnDisconnectedFromPeer
  BY <1>13, EventGood DEF OnDisconnectedFromPeer
<1>14. CASE OnTimesync
  BY <1>14, PaceGood DEF OnTimesync
<1>15. CASE TickFrame
  BY <1>15, TickGood DEF TickFrame
<1>16. CASE PacedWait
  BY <1>16, PaceGood DEF PacedWait
<1>17. CASE WatchExpires
  BY <1>17 DEF WatchExpires
<1>18. CASE DeferExpires
  BY <1>18 DEF DeferExpires
<1>19. CASE LoseRoom
  BY <1>19, LoseGood DEF LoseRoom
<1>20. CASE StepFails
  BY <1>20, LoseGood DEF StepFails
<1>21. CASE UNCHANGED vars
  BY <1>21 DEF vars
<1> QED BY <1>1, <1>2, <1>3, <1>4, <1>5, <1>6, <1>7, <1>8, <1>9, <1>10, <1>11, <1>12,
           <1>13, <1>14, <1>15, <1>16, <1>17, <1>18, <1>19, <1>20, <1>21 DEF Next

(* Hence the invariant always holds.                                        *)
LEMMA AlwaysInv == Spec => []Inv
<1>1. Init => Inv
  BY InitInv
<1>2. Inv /\ [Next]_vars => Inv'
  BY InvStep
<1> QED BY <1>1, <1>2, PTL DEF Spec

----------------------------------------------------------------------------
(* The statics of the process keep their types, the pacing debt its bound.  *)
THEOREM LifecycleTypeCorrect == Spec => []TypeOK
<1>1. Inv => TypeOK
  BY DEF Inv, Good, TypeOK
<1> QED BY <1>1, AlwaysInv, PTL

(* A developer pause stays in force through aborts, rematches and losses.   *)
THEOREM PausesHold == Spec => []PauseHolds
<1>1. Inv => PauseHolds
  BY DEF Inv, Good, Gated, PauseHolds, MayAdvance
<1> QED BY <1>1, AlwaysInv, PTL

(* A fatal error has closed the session (AbortGgpoMatch,                    *)
(* HandleNetplayFailure), and no session starts out fatal.                  *)
THEOREM FatalIsClosed == Spec => []FatalHasNoSession
<1>1. Inv => FatalHasNoSession
  BY DEF Inv, Good, Gated, FatalHasNoSession
<1> QED BY <1>1, AlwaysInv, PTL

(* Outside a battle a session lives only behind a pending deferral.         *)
THEOREM SessionsHaveBattles == Spec => []SessionHasBattle
<1>1. Inv => SessionHasBattle
  BY DEF Inv, Good, Placed, SessionHasBattle
<1> QED BY <1>1, AlwaysInv, PTL

(* However a session ended, no debt, warning or stall of it is left.        *)
THEOREM NothingIsCarriedOver == Spec => []NothingOutlivesSession
<1>1. Inv => NothingOutlivesSession
  BY DEF Inv, Good, Spent, NothingOutlivesSession
<1> QED BY <1>1, AlwaysInv, PTL

(* A fight goes on without its room only where its traffic does not ride on *)
(* it, and never together with a deferred close.                            *)
THEOREM LossIsSound == Spec => []DegradedSound
<1>1. Inv => DegradedSound
  BY DEF Inv, Good, Degraded, DegradedSound
<1> QED BY <1>1, AlwaysInv, PTL

----------------------------------------------------------------------------
(* What one step may do to the loss flag and to the gate.                   *)
SameGate(a, b) ==
    /\ b.updateAllowed = a.updateAllowed /\ b.ggpo = a.ggpo /\ b.phase = a.phase
    /\ b.manualPause = a.manualPause /\ b.fatal = a.fatal

(* The flag is cleared only by ShutdownNetplay.                             *)
LEMMA LossStep ==
    ASSUME Inv, [Next]_vars, app.lost, ~app'.lost
    PROVE  app'.room = "none" /\ app'.ggpo = "none" /\ ~app'.deferPending
<1> USE DEF Inv
<1>1. CASE Disconnect
  BY <1>1, ShutdownGood DEF Disconnect, Good, Gated
<1>2. CASE CloseBattle
  BY <1>2, CloseStep
<1>3. CASE StartSession \/ RegisterTasks \/ OfflineBattle
  BY <1>3 DEF StartSession, RegisterTasks, OfflineBattle, Good, Degraded
<1>4. CASE SimulationControl
  <2>1. ASSUME NEW b \in AppType, NEW yes \in BOOLEAN
        PROVE  /\ Paused(b, yes).lost = b.lost
               /\ [Paused(b, yes) EXCEPT !.halt = TRUE].lost = b.lost
               /\ [b EXCEPT !.halt = TRUE].lost = b.lost
    BY <2>1 DEF Paused, AppType
  <2> QED BY <1>4, <2>1 DEF SimulationControl, PressPause, PressPlay, PressHalt, PressStep, Good
<1>5. CASE BattleUpdate
  <2>1. ASSUME NEW b \in AppType
        PROVE  /\ HaltAfterNext(b).lost = b.lost
               /\ OnFrameAccepted(b) \in AppType /\ OnFrameAccepted(b).lost = b.lost
               /\ OnPredictionThreshold(b).lost = b.lost
               /\ [b EXCEPT !.flow = "fight"] \in AppType
               /\ [b EXCEPT !.flow = "fight"].lost = b.lost
    BY ZenonT(60), <2>1 DEF HaltAfterNext, Paused, OnFrameAccepted, OnPredictionThreshold, AppType
  <2>2. AbortGgpoMatch(app) \in AppType /\ AbortGgpoMatch(app).lost = app.lost
    BY AbortGood DEF Good
  <2>3. CASE app.ggpo # "none" /\ app.flow = "fight"
    BY <1>5, <2>1, <2>2, <2>3 DEF BattleUpdate, FrameOutcomes, Good
  <2>4. CASE ~(app.ggpo # "none" /\ app.flow = "fight")
    BY ZenonT(60), <1>5, <2>1, <2>4 DEF BattleUpdate, Good
  <2> QED BY <2>3, <2>4
<1>6. CASE Rollback
  BY <1>6, AbortGood DEF Rollback
<1>7. CASE OnRunning \/ OnConnectionEvent \/ OnDisconnectedFromPeer
  <2>1. /\ Interrupted(app) \in AppType /\ Interrupted(app).lost = app.lost
        /\ Resumed(app) \in AppType /\ Resumed(app).lost = app.lost
    <3>1. Interrupted(app).lost = app.lost /\ Resumed(app).lost = app.lost
      BY DEF Interrupted, Resumed, Good, AppType
    <3>2. Interrupted(app) \in AppType /\ Resumed(app) \in AppType
      BY EventTypes DEF Good
    <3> QED BY <3>1, <3>2
  <2>2. CASE OnRunning
    BY <2>2 DEF OnRunning, Good, AppType
  <2>3. CASE OnDisconnectedFromPeer
    BY <2>1, <2>3 DEF OnDisconnectedFromPeer, AppType
  <2> QED BY <1>7, <2>1, <2>2, <2>3 DEF OnConnectionEvent
<1>8. CASE OnTimesync \/ PacedWait
  BY <1>8 DEF OnTimesync, OnRecommendation, PacedWait, Good, AppType
<1>9. CASE TickFrame
  <2> DEFINE tried == [app EXCEPT !.fallbackTried = TRUE]
             a == Watchdog(app)
  <2>1. Good(tried) /\ tried.lost = app.lost
    BY ZenonT(60) DEF AppType, Good, Gated, Spent, Deferred, Placed, Degraded
  <2>2. a = IF SyncTimedOut(app) THEN AbortGgpoMatch(tried) ELSE app
    BY DEF Watchdog
  <2> HIDE DEF tried
  <2>3. Good(a) /\ a.lost
    BY <2>1, <2>2, AbortGood
  <2>4. app' = DeferredClose(a)
    BY <1>9 DEF TickFrame
  <2> HIDE DEF a
  <2> QED BY <2>3, <2>4 DEF DeferredClose, Good, Degraded
<1>10. CASE LoseRoom \/ StepFails
  BY <1>10, LoseGood
<1>11. CASE LobbyUpdate \/ BattleSynced \/ WatchExpires \/ DeferExpires \/ UNCHANGED vars
  BY <1>11 DEF LobbyUpdate, BattleSynced, WatchExpires, DeferExpires, vars
<1> QED BY <1>1, <1>2, <1>3, <1>4, <1>5, <1>6, <1>7, <1>8, <1>9, <1>10, <1>11 DEF Next

(* With a session before and after, nothing but RUNNING, the controls, a    *)
(* halt and the ends of a battle touches what MayAdvance looks at.          *)
LEMMA GateStep ==
    ASSUME Inv, [Next]_vars, app.ggpo # "none", app'.ggpo # "none",
           ~OnRunning, ~SimulationControl, ~(BattleUpdate /\ app.halt),
           ~CloseBattle, ~RegisterTasks
    PROVE  SameGate(app, app')
<1> USE DEF Inv, SameGate
<1>1. CASE StartSession
  BY <1>1 DEF StartSession, Good, AppType
<1>2. CASE OfflineBattle
  BY <1>2 DEF OfflineBattle, Loading, Good, AppType
<1>3. CASE Disconnect
  BY <1>3, ShutdownGood DEF Disconnect, Good, Gated
<1>4. CASE BattleUpdate
  <2>1. ~app.halt /\ AbortGgpoMatch(app).ggpo = "none"
    BY <1>4, AbortGood
  <2>2. SameGate(app, OnFrameAccepted(app)) /\ SameGate(app, OnPredictionThreshold(app))
        /\ ~OnFrameAccepted(app).halt
    BY <2>1 DEF OnFrameAccepted, OnPredictionThreshold, Good, AppType
  <2>3. /\ HaltAfterNext(OnFrameAccepted(app)) = OnFrameAccepted(app)
    BY <2>2 DEF HaltAfterNext
  <2>4. ASSUME NEW b, Good(b), b.ggpo = "none"
        PROVE  HaltAfterNext(b).ggpo = "none" /\ HaltAfterNext(OnFrameAccepted(b)).ggpo = "none"
    <3>1. ASSUME NEW e, Good(e), e.ggpo = "none" PROVE HaltAfterNext(e).ggpo = "none"
      BY <3>1 DEF HaltAfterNext, Paused, Good, AppType
    <3>2. Good(OnFrameAccepted(b)) /\ OnFrameAccepted(b).ggpo = "none"
      BY <2>4, StallGood DEF OnFrameAccepted, Good, AppType
    <3> QED BY <2>4, <3>1, <3>2
  <2>5. Good(AbortGgpoMatch(app))
    BY AbortGood
  <2>6. CASE app.flow = "fight"
    <3>1. app' \in FrameOutcomes(app)
      BY <1>4, <2>6 DEF BattleUpdate
    <3> QED BY <2>1, <2>2, <2>3, <2>4, <2>5, <3>1 DEF FrameOutcomes
  <2>7. CASE app.flow # "fight"
    <3>1. app' = HaltAfterNext([app EXCEPT !.flow = "fight"])
      BY <1>4, <2>7 DEF BattleUpdate
    <3>2. app' = [app EXCEPT !.flow = "fight"]
      BY <2>1, <3>1 DEF HaltAfterNext, Good, AppType
    <3> QED BY <3>2 DEF Good, AppType
  <2> QED BY <2>6, <2>7
<1>5. CASE Rollback
  BY <1>5, AbortGood DEF Rollback
<1>6. CASE OnConnectionEvent \/ OnDisconnectedFromPeer
  <2>1. /\ SameGate(app, Interrupted(app)) /\ SameGate(app, Resumed(app))
        /\ Resumed(app) \in AppType
    BY ZenonT(60) DEF Interrupted, Resumed, Good, AppType
  <2>2. CASE OnDisconnectedFromPeer
    <3>1. app' = [Resumed(app) EXCEPT !.leaving = app.flow # "menu", !.interrupted = FALSE]
      BY <2>2 DEF OnDisconnectedFromPeer
    <3> QED BY <2>1, <3>1 DEF AppType
  <2> QED BY <1>6, <2>1, <2>2 DEF OnConnectionEvent
<1>7. CASE OnTimesync \/ PacedWait
  BY <1>7 DEF OnTimesync, OnRecommendation, PacedWait, Good, AppType
<1>8. CASE TickFrame
  <2> DEFINE tried == [app EXCEPT !.fallbackTried = TRUE]
             a == Watchdog(app)
  <2>1. Good(tried)
    BY ZenonT(60) DEF AppType, Good, Gated, Spent, Deferred, Placed, Degraded
  <2>2. a = IF SyncTimedOut(app) THEN AbortGgpoMatch(tried) ELSE app
    BY DEF Watchdog
  <2>3. app' = DeferredClose(a)
    BY <1>8 DEF TickFrame
  <2> HIDE DEF tried
  <2>4. Good(a) /\ (a = app \/ a.ggpo = "none")
    BY <2>1, <2>2, AbortGood
  <2> HIDE DEF a
  <2> DEFINE t == RetireGgpoSession(a)
             r == [t EXCEPT !.tunnel = FALSE]
  <2>5. app' = a \/ app' = CancelDeferredGgpoClose(r)
    BY <2>3 DEF DeferredClose
  <2>6. t \in AppType /\ t.ggpo = "none"
    BY <2>4, RetireFacts DEF Good
  <2> HIDE DEF t
  <2>7. r \in AppType /\ r.ggpo = "none"
    BY <2>6 DEF AppType
  <2> HIDE DEF r
  <2>8. CancelDeferredGgpoClose(r).ggpo = "none"
    BY <2>7 DEF CancelDeferredGgpoClose, AppType
  <2> QED BY <2>4, <2>5, <2>8
<1>9. CASE LoseRoom \/ StepFails
  <2>1. ASSUME NEW b, b \in {app, [app EXCEPT !.lost = TRUE], [app EXCEPT !.room = "down"],
                              [[app EXCEPT !.room = "down"] EXCEPT !.lost = TRUE]}
        PROVE  SameGate(app, b)
    <3>1. CASE b = app
      BY <3>1
    <3>2. CASE b = [app EXCEPT !.lost = TRUE]
      BY <3>2 DEF Good, AppType
    <3>3. CASE b = [app EXCEPT !.room = "down"]
      BY <3>3 DEF Good, AppType
    <3>4. CASE b = [[app EXCEPT !.room = "down"] EXCEPT !.lost = TRUE]
      BY <3>4 DEF Good, AppType
    <3> QED BY <2>1, <3>1, <3>2, <3>3, <3>4
  <2> QED BY <1>9, <2>1, LoseGood
<1>10. CASE LobbyUpdate \/ BattleSynced \/ WatchExpires \/ DeferExpires \/ UNCHANGED vars
  BY <1>10 DEF LobbyUpdate, BattleSynced, WatchExpires, DeferExpires, vars
<1> QED BY <1>1, <1>2, <1>3, <1>4, <1>5, <1>6, <1>7, <1>8, <1>9, <1>10 DEF Next

(* A lost room ends in the safe disconnected state.                         *)
THEOREM LossEndsDisconnected == Spec => LossIsFinal
<1>1. Inv /\ [Next]_vars =>
         [app.lost /\ ~app'.lost
            => app'.room = "none" /\ app'.ggpo = "none" /\ ~app'.deferPending]_vars
  BY LossStep
<1> QED BY <1>1, AlwaysInv, PTL DEF Spec, LossIsFinal

(* While a session lives, only RUNNING, the controls, a requested halt and  *)
(* the ends of a battle freeze or thaw the simulation.                      *)
THEOREM GateIsSteady == Spec => GateMovesOnlyBy
<1>1. Inv /\ [Next]_vars =>
         [app.ggpo # "none" /\ app'.ggpo # "none"
               /\ MayAdvance(app) # MayAdvance(app)'
            => \/ OnRunning \/ SimulationControl
               \/ BattleUpdate /\ app.halt
               \/ CloseBattle \/ RegisterTasks]_vars
  <2> SUFFICES ASSUME Inv, [Next]_vars, app.ggpo # "none", app'.ggpo # "none",
                      ~OnRunning, ~SimulationControl, ~(BattleUpdate /\ app.halt),
                      ~CloseBattle, ~RegisterTasks
               PROVE  MayAdvance(app) = MayAdvance(app)'
    OBVIOUS
  <2>1. SameGate(app, app')
    BY GateStep
  <2> QED BY <2>1 DEF SameGate, MayAdvance, CanAdvance
<1> QED BY <1>1, AlwaysInv, PTL DEF Spec, GateMovesOnlyBy
=============================================================================
