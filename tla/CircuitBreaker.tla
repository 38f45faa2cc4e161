--------------------------- MODULE CircuitBreaker ---------------------------
(***************************************************************************)
(* The circuit breaker of composite resource (XR) controllers (internal/   *)
(* circuit: token_bucket.go and mapfunc.go). The goroutines that deliver   *)
(* watch events ask it, per XR, whether an event may cause a reconcile.    *)
(*                                                                         *)
(* NewMapFunc calls GetState and then RecordEvent, and RecordEvent reads   *)
(* the clock under the breaker's lock but uses what it read under the      *)
(* lock of the target's state: other goroutines run in between.            *)
(*                                                                         *)
(* A moment is represented by its age, the time that has passed since, so  *)
(* that time goes on for ever in a finite state space. Ages stop at AgeCap,*)
(* beyond everything they are compared with.                               *)
(*                                                                         *)
(* The burst, the refill rate and the cooldown are flags that nobody       *)
(* validates, so the bucket is counted in units, Token of them to a token: *)
(* the burst and what is refilled in a tick or in a whole cooldown may be  *)
(* less than a token, or nothing.                                          *)
(***************************************************************************)
EXTENDS Integers, Sequences, FiniteSets, FiniteSetsExt

CONSTANTS
    Workers,            \* goroutines that run a MapFunc
    Targets,            \* XRs
    Sources,            \* watched resources
    Token,              \* units of the bucket that make a token
    Capacity,           \* Config.capacity, in units
    Rate,               \* Config.refillRatePerSecond, in units per tick
    Cooldown,           \* Config.cooldownTime
    HalfOpenInterval,   \* Config.halfOpenInterval
    ExpireAfter,        \* Config.expireAfter
    RingSize,           \* length of recentSources (16 in the code)
    MaxLag,             \* bound on the time between RecordEvent's two locks
    AgeCap,             \* bound on ages
    None

ASSUME BreakerAssumption ==
    /\ {Capacity, Rate, Cooldown, HalfOpenInterval, ExpireAfter, MaxLag, AgeCap} \subseteq Nat
    /\ {Token, RingSize} \subseteq Nat \ {0}
    /\ \A age \in {Cooldown, HalfOpenInterval, ExpireAfter} : AgeCap > age + MaxLag
    /\ Rate > 0 => Rate * AgeCap >= Capacity + 2 * Rate * MaxLag
    /\ None \notin Sources

VARIABLES
    state,    \* b.targets: the state of each target, or None
    pc,       \* where each worker is
    call      \* its local variables

vars == <<state, pc, call>>

Age == 0 .. AgeCap

\* seen, closed and causes are history: the events recorded in this state
\* object (Token for each, up to Capacity + 1), whether it was ever closed after
\* being open, and the sources recorded since it was created or an event last
\* left it closed that found it open.
State == [tokens : -(Rate * MaxLag) .. Capacity, lastRefill : Age,
          recentSources : [0 .. RingSize - 1 -> Sources \cup {None}],
          recentIdx : 0 .. RingSize - 1,
          isOpen : BOOLEAN, openedAt : Age, lastAllowed : Age,
          triggerSource : Sources \cup {None},
          seen : 0 .. Capacity + 1, closed : BOOLEAN, causes : SUBSET Sources]

\* open and lastAllowed are what GetState returned, until it is used, et the
\* event type, now the age of RecordEvent's now, and held tells whether the state
\* object that RecordEvent has a pointer to is still the one in b.targets.
Call == [target : Targets, source : Sources, open : BOOLEAN, lastAllowed : Age,
         et : {"Allowed", "Dropped", "HalfOpenAllowed", "None"}, now : 0 .. MaxLag,
         held : BOOLEAN]

ASSUME NoneAssumption == None \notin State \cup Call

TypeOK ==
    /\ state \in [Targets -> {None} \cup State]
    /\ pc \in [Workers -> {"idle", "decide", "record"}]
    /\ call \in [Workers -> {None} \cup Call]

Init ==
    /\ state = [t \in Targets |-> None]
    /\ pc = [w \in Workers |-> "idle"]
    /\ call = [w \in Workers |-> None]

Known(t) == state[t] # None
Open(t) == Known(t) /\ state[t].isOpen

-----------------------------------------------------------------------------
(* NewMapFunc for an object that isn't being deleted.                      *)

\* GetState.
GetState(w, t, s) ==
    /\ pc[w] = "idle"
    /\ call' = [call EXCEPT ![w] =
                   [target |-> t, source |-> s, open |-> Open(t),
                    lastAllowed |-> IF Open(t) THEN state[t].lastAllowed ELSE AgeCap,
                    et |-> "None", now |-> 0, held |-> FALSE]]
    /\ pc' = [pc EXCEPT ![w] = "decide"]
    /\ UNCHANGED state

\* What the MapFunc makes of the event: kept unless it is dropped.
Decision(c) ==
    CASE ~c.open                                      -> "Allowed"
      [] c.open /\ c.lastAllowed > HalfOpenInterval   -> "HalfOpenAllowed"
      [] c.open /\ c.lastAllowed <= HalfOpenInterval  -> "Dropped"

\* Targets that are garbage collected when another one is added.
Expired == {t \in Targets : Known(t) /\ state[t].lastRefill > ExpireAfter}

\* Mutant of NewState: the bucket starts empty.
NewState_Empty ==
    [tokens |-> 0, lastRefill |-> 0,
     recentSources |-> [i \in 0 .. RingSize - 1 |-> None], recentIdx |-> 0,
     isOpen |-> FALSE, openedAt |-> 0, lastAllowed |-> 0, triggerSource |-> None,
     seen |-> 0, closed |-> FALSE, causes |-> {}]

\* A new target starts with a full bucket.
NewState ==
    [tokens |-> Capacity, lastRefill |-> 0,
     recentSources |-> [i \in 0 .. RingSize - 1 |-> None], recentIdx |-> 0,
     isOpen |-> FALSE, openedAt |-> 0, lastAllowed |-> 0, triggerSource |-> None,
     seen |-> 0, closed |-> FALSE, causes |-> {}]

\* Workers that have a pointer to the state of a target in ts lose it.
Orphaned(c, ts) == IF c # None /\ c.target \in ts THEN [c EXCEPT !.held = FALSE] ELSE c

\* RecordEvent under the breaker's lock: read the clock, and get the target's
\* state or create it.
RecordLookup(w) ==
    /\ pc[w] = "decide"
    /\ pc' = [pc EXCEPT ![w] = "record"]
    /\ LET t == call[w].target
           gone == IF Known(t) THEN {} ELSE Expired
           own == [call[w] EXCEPT !.et = Decision(call[w]), !.now = 0, !.held = TRUE,
                                  !.open = FALSE, !.lastAllowed = AgeCap]
       IN  /\ state' = [u \in Targets |-> CASE u = t /\ ~Known(t) -> NewState
                                            [] u \in gone         -> None
                                            [] OTHER              -> state[u]]
           /\ call' = [v \in Workers |-> IF v = w THEN own ELSE Orphaned(call[v], gone)]

\* Mutant of Refilled: the index of the ring buffer doesn't wrap around.
Refilled_Unwrapped(s, c) ==
    [s EXCEPT !.tokens = Min({Capacity, @ + Rate * (s.lastRefill - c.now)}),
              !.lastRefill = c.now,
              !.recentSources = [@ EXCEPT ![s.recentIdx] = c.source],
              !.recentIdx = @ + 1,
              !.seen = Min({Capacity + 1, @ + Token}),
              !.causes = @ \cup {c.source}]

\* Refill, and put the source into the ring buffer.
Refilled(s, c) ==
    [s EXCEPT !.tokens = Min({Capacity, @ + Rate * (s.lastRefill - c.now)}),
              !.lastRefill = c.now,
              !.recentSources = [@ EXCEPT ![s.recentIdx] = c.source],
              !.recentIdx = (@ + 1) % RingSize,
              !.seen = Min({Capacity + 1, @ + Token}),
              !.causes = @ \cup {c.source}]

\* An open circuit lets a probe through.
Probed(s, c) == IF s.isOpen /\ c.et = "HalfOpenAllowed" THEN [s EXCEPT !.lastAllowed = c.now] ELSE s

\* Mutant of CooledDown: the cooldown counts from the last event.
CooledDown_SinceRefill(s, c) == s.lastRefill - c.now >= Cooldown

\* The circuit has been open for its cooldown time.
CooledDown(s, c) == s.openedAt - c.now >= Cooldown

\* Mutant of Closed: the ring buffer keeps its sources.
Closed_KeepsSources(s) == [s EXCEPT !.isOpen = FALSE, !.closed = TRUE]

\* The circuit closes and forgets the sources.
Closed(s) ==
    [s EXCEPT !.isOpen = FALSE,
              !.recentSources = [i \in 0 .. RingSize - 1 |-> None],
              !.recentIdx = 0,
              !.closed = TRUE]

\* The most frequent source of the ring buffer: of several, the one that the
\* loop over the buffer meets last. The old one, if the buffer is empty.
Occurrences(ring, src) == {i \in DOMAIN ring : ring[i] = src}
MostFrequent(ring, old) ==
    LET seen == {ring[i] : i \in DOMAIN ring} \ {None}
        n(src) == Cardinality(Occurrences(ring, src))
        top == {src \in seen : \A other \in seen : n(src) >= n(other)}
    IN  IF seen = {} THEN old
        ELSE CHOOSE src \in top : \A other \in top :
                 Max(Occurrences(ring, src)) >= Max(Occurrences(ring, other))

\* Take a token, or open the circuit when there is none.
Consumed(s, c) ==
    IF s.tokens >= Token
    THEN [s EXCEPT !.tokens = @ - Token]
    ELSE [s EXCEPT !.isOpen = TRUE, !.openedAt = c.now, !.lastAllowed = c.now,
                   !.triggerSource = MostFrequent(s.recentSources, @)]

\* The circuit closes, and opens again at once if the time since it opened didn't
\* refill a token: the ring buffer is empty then, and the old source stays.
Reclosed(s, c) ==
    LET new == Consumed(Closed(s), c)
    IN  IF new.isOpen THEN new ELSE [new EXCEPT !.causes = {}]

\* Everything RecordEvent does to the state.
Recorded(s, c) ==
    LET r == Probed(Refilled(s, c), c)
    IN  CASE ~r.isOpen                      -> Consumed(r, c)
          [] r.isOpen /\ CooledDown(r, c)   -> Reclosed(r, c)
          [] r.isOpen /\ ~CooledDown(r, c)  -> r

\* RecordEvent under the state's lock. A state that is no longer in b.targets
\* is changed unseen.
RecordEvent(w) ==
    /\ pc[w] = "record"
    /\ state' = IF call[w].held
                THEN [state EXCEPT ![call[w].target] = Recorded(@, call[w])]
                ELSE state
    /\ pc' = [pc EXCEPT ![w] = "idle"]
    /\ call' = [call EXCEPT ![w] = None]

-----------------------------------------------------------------------------
(* NewSelfDeleteResetMapFunc, and time.                                    *)

\* The XR itself is being deleted: ResetTarget. (NewMapFunc keeps the events of
\* objects that are being deleted without asking the breaker.)
ResetTarget(t) ==
    /\ Known(t)
    /\ state' = [state EXCEPT ![t] = None]
    /\ call' = [w \in Workers |-> Orphaned(call[w], {t})]
    /\ UNCHANGED pc

Older(age) == IF age < AgeCap THEN age + 1 ELSE age

\* A tick of the clock. No worker stays longer than MaxLag between its locks.
Tick ==
    /\ \A w \in Workers : pc[w] = "record" => call[w].now < MaxLag
    /\ state' = [t \in Targets |->
                    IF ~Known(t) THEN None
                    ELSE [state[t] EXCEPT !.lastRefill = Older(@), !.openedAt = Older(@),
                                          !.lastAllowed = Older(@)]]
    /\ call' = [w \in Workers |->
                   CASE pc[w] = "idle"   -> call[w]
                     [] pc[w] = "decide" -> [call[w] EXCEPT !.lastAllowed = Older(@)]
                     [] pc[w] = "record" -> [call[w] EXCEPT !.now = @ + 1]]
    /\ UNCHANGED pc

Event(w) == \E t \in Targets, s \in Sources : GetState(w, t, s)

Next ==
    \/ \E w \in Workers : Event(w) \/ RecordLookup(w) \/ RecordEvent(w)
    \/ \E t \in Targets : ResetTarget(t)
    \/ Tick

\* An infinite number of steps takes an infinite time, and goroutines run.
Fairness ==
    /\ []<><<Tick>>_vars
    /\ \A w \in Workers : WF_vars(RecordLookup(w) \/ RecordEvent(w))

Spec == Init /\ [][Next]_vars /\ Fairness

\* The same when events keep coming for every target.
BusySpec ==
    /\ Spec
    /\ \A t \in Targets : SF_vars(\E w \in Workers, s \in Sources : GetState(w, t, s))

-----------------------------------------------------------------------------
(* Properties.                                                             *)

\* A target's circuit opens for the first time only after more events than the
\* burst allowance were recorded for it, whatever was recorded for an earlier
\* XR of its name before a reset or before it expired (RecordEvent, ResetTarget).
\* The time between RecordEvent's locks counts against the allowance: elapsed is
\* negative when two goroutines record in the other order than they read the clock.
FirstOpenAfterBurst ==
    \A t \in Targets :
        Open(t) /\ ~state[t].closed => state[t].seen > Capacity - Rate * MaxLag

\* An open circuit is blamed on a source whose events were recorded since it was
\* last closed, never on one left over from before an event got through. (A
\* circuit that RecordEvent closes and opens again at once, for want of a token,
\* has not been closed for anyone, and stays blamed on what it was blamed on.)
TriggerIsRecent ==
    \A t \in Targets : Open(t) => state[t].triggerSource \in state[t].causes

\* An open circuit closes again, however many events keep coming meanwhile, and
\* even if workers overtake each other (Config.cooldownTime, "How long circuit
\* stays open after opening"). Only RecordEvent closes a circuit, so this takes
\* events; and it takes a bucket that is refilled and holds a token, though a
\* cooldown may refill less than one: then the circuit is open for several.
AutoCloses == \A t \in Targets : Open(t) ~> ~Open(t)
=============================================================================
