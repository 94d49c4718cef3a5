---------------------------- MODULE RateLimiter ----------------------------
(***************************************************************************)
(* The per-key sliding-window limiter of quotas.py and the limit invoke.py *)
(* hands it.  The check runs on the event loop under one lock, so it is    *)
(* one step.  Times are in ticks, TicksPerSecond of them in a second:      *)
(* time.monotonic() is finer than the whole seconds of Retry-After.        *)
(***************************************************************************)
EXTENDS Integers, Sequences, FiniteSets

CONSTANTS
  Key,              \* API key ids
  Setting,          \* values of rate_limit_per_minute in the pushed configs
  Unset,            \* the config does not set it
  DefaultLimit,     \* DEFAULT_RATE_LIMIT_PER_MINUTE
  MaxLen,           \* maxlen of a key's deque
  GCThreshold,      \* _LIMITER_GC_THRESHOLD
  WindowSeconds,    \* _WINDOW_S
  TicksPerSecond,   \* resolution of the clock
  Horizon           \* bound: the last tick of a behaviour

ASSUME LimiterAssumption ==
  /\ Key # {}
  /\ DefaultLimit \in Nat \ {0}
  /\ MaxLen \in Nat \ {0}
  /\ GCThreshold \in Nat
  /\ WindowSeconds \in Nat \ {0}
  /\ TicksPerSecond \in Nat \ {0}
  /\ Horizon \in Nat
  /\ Setting \subseteq Nat \cup {Unset}
  /\ Unset \notin Int

VARIABLES
  now,       \* time.monotonic()
  history,   \* _LIMITER_STATE: the keys that have a deque, and their stamps
  granted,   \* ghost: every grant of the key in the last Window ticks
  last,      \* the latest answer: key, setting, allowed
  promise    \* ghost: what the latest refusal of a key told its client

vars == <<now, history, granted, last, promise>>

Window == WindowSeconds * TicksPerSecond

NoAnswer == [key |-> CHOOSE k \in Key : TRUE, setting |-> Unset, allowed |-> TRUE]
NoPromise == [limit |-> 0, at |-> 0]

\* int(cfg.get("rate_limit_per_minute") or DEFAULT_RATE_LIMIT_PER_MINUTE):
\* 0 is falsy, like a missing value.
EffectiveLimit(setting) ==
  IF setting = Unset \/ setting = 0 THEN DefaultLimit ELSE setting

\* while history and history[0] < cutoff: history.popleft(): how many stamps
\* the loop drops before one of the closed window [t - Window, t].
Popped(stamps, t) ==
  CHOOSE n \in 0..Len(stamps) :
    /\ \A i \in 1..n : stamps[i] < t - Window
    /\ n < Len(stamps) => stamps[n + 1] >= t - Window

Recent(stamps, t) == SubSeq(stamps, Popped(stamps, t) + 1, Len(stamps))

\* The deque of the key, which the defaultdict creates if it is missing.
StampsOf(k) == IF k \in DOMAIN history THEN history[k] ELSE <<>>

\* Mutant: the stamp goes in on the side that is pruned, appendleft.
AppendLeft(stamps, t) == <<t>> \o stamps

\* A deque at its maxlen drops its oldest stamp to take a new one.
AppendToDeque(stamps, t) ==
  IF Len(stamps) < MaxLen THEN Append(stamps, t) ELSE Append(Tail(stamps), t)

\* Mutant: the whole seconds are not rounded up.
RetryAfterFloor(oldest) ==
  LET seconds == (oldest + Window - now) \div TicksPerSecond
  IN  IF seconds < 1 THEN 1 ELSE seconds

\* max(1, int(oldest + _WINDOW_S - now) + 1), in seconds.
RetryAfter(oldest) ==
  LET seconds == (oldest + Window - now) \div TicksPerSecond + 1
  IN  IF seconds < 1 THEN 1 ELSE seconds

\* Mutant: a key is stale as soon as its oldest stamp is.
WithoutStaleOldest(h) ==
  LET live == {k \in DOMAIN h : h[k] # <<>> /\ h[k][1] >= now - Window}
  IN  [k \in live |-> h[k]]

\* _gc_empty_keys: drop the keys whose newest stamp has left the window.
WithoutStale(h) ==
  LET live == {k \in DOMAIN h : h[k] # <<>> /\ h[k][Len(h[k])] >= now - Window}
  IN  [k \in live |-> h[k]]

WithStamps(k, stamps) ==
  [j \in DOMAIN history \cup {k} |-> IF j = k THEN stamps ELSE history[j]]

-----------------------------------------------------------------------------
Init ==
  /\ now = 0
  /\ history = [k \in {} |-> <<>>]
  /\ granted = [k \in Key |-> <<>>]
  /\ last = NoAnswer
  /\ promise = [k \in Key |-> NoPromise]

\* rate_limit_check answers (False, retry_after): nothing is stamped, but
\* what has left the window is gone.
Refuse(k, setting, recent) ==
  LET limit == EffectiveLimit(setting)
  IN  /\ history' = WithStamps(k, recent)
      /\ last' = [key |-> k, setting |-> setting, allowed |-> FALSE]
      /\ promise' = [promise EXCEPT ![k] =
           IF Len(recent) = limit
             THEN [limit |-> limit, at |-> now + RetryAfter(recent[1]) * TicksPerSecond]
             ELSE NoPromise]
      /\ UNCHANGED granted

\* It answers (True, 0): the request is stamped, and a dict with too many
\* keys is swept.
Grant(k, setting, recent) ==
  /\ LET stamped == WithStamps(k, AppendToDeque(recent, now))
     IN  history' = IF Cardinality(DOMAIN stamped) > GCThreshold
                      THEN WithoutStale(stamped) ELSE stamped
  /\ granted' = [granted EXCEPT ![k] = Append(@, now)]
  /\ last' = [key |-> k, setting |-> setting, allowed |-> TRUE]
  /\ promise' = [promise EXCEPT ![k] = NoPromise]

\* Mutant: one more than the limit passes.
CheckOffByOne(k, setting) ==
  /\ LET recent == Recent(StampsOf(k), now)
     IN  IF Len(recent) > EffectiveLimit(setting)
           THEN Refuse(k, setting, recent) ELSE Grant(k, setting, recent)
  /\ UNCHANGED now

\* One call of rate_limit_check for a request of key k on a project whose
\* latest config has this setting.  A limit that is not positive answers
\* (True, 0) at once and stamps nothing.
Check(k, setting) ==
  /\ LET recent == Recent(StampsOf(k), now)
         limit  == EffectiveLimit(setting)
     IN  IF limit <= 0
           THEN /\ last' = [key |-> k, setting |-> setting, allowed |-> TRUE]
                /\ UNCHANGED <<history, granted, promise>>
           ELSE IF Len(recent) >= limit
                  THEN Refuse(k, setting, recent)
                  ELSE Grant(k, setting, recent)
  /\ UNCHANGED now

Tick ==
  /\ now < Horizon
  /\ now' = now + 1
  /\ granted' = [k \in Key |-> Recent(granted[k], now')]
  /\ UNCHANGED <<history, last, promise>>

Next ==
  \/ \E k \in Key, setting \in Setting : Check(k, setting)
  \/ Tick

Spec == Init /\ [][Next]_vars
-----------------------------------------------------------------------------
\* A deque holds at most MaxLen stamps, none in the future, oldest first: the
\* order on which pruning from the left and reading history[0] rely.
Sorted(s) == \A i, j \in 1..Len(s) : i < j => s[i] <= s[j]

TypeOK ==
  /\ now \in 0..Horizon
  /\ DOMAIN history \subseteq Key
  /\ \A k \in DOMAIN history :
       /\ Len(history[k]) <= MaxLen
       /\ Sorted(history[k])
       /\ \A i \in 1..Len(history[k]) : history[k][i] \in 0..now
  /\ last \in [key : Key, setting : Setting \cup {Unset}, allowed : BOOLEAN]

\* "Any positive value caps requests/minute per API key": a request let
\* through under a positive setting is, with every grant of its key in the
\* closed window before it, one of at most that many, whatever the deque's
\* size, the other projects' settings and the sweeps of other keys' traffic.
WindowCapped ==
  last.allowed /\ last.setting # Unset /\ last.setting > 0
    => Len(granted[last.key]) <= last.setting

\* Retry-After is honest: a client whose key was at its limit and that waits
\* as long as it was told, with no other grant to the key meanwhile, finds
\* room; rounding to whole seconds never sends it back too early.
RetryAfterHonest ==
  \A k \in Key : promise[k] # NoPromise /\ now >= promise[k].at
    => Len(Recent(StampsOf(k), now)) < promise[k].limit

\* A key that is swept or pruned loses no stamp that still counts: what the
\* limiter remembers in the window is what it granted.
NothingForgotten ==
  \A k \in Key : Len(granted[k]) <= MaxLen
    => Recent(StampsOf(k), now) = Recent(granted[k], now)
=============================================================================
