-------------------------- MODULE AdaptiveCapacity --------------------------
(***************************************************************************)
(* How many operations an Agent runs at once (class AdaptiveCapacity in    *)
(* src/agent/scheduler.py).  Samples of memory, CPU and I/O pressure       *)
(* arrive every few seconds; the limit shrinks at once and grows only      *)
(* after three good samples and a cooldown.  Critical memory closes the    *)
(* execution lane altogether until the machine has recovered.              *)
(*                                                                         *)
(* A sample is kept as what the thresholds of the code make of it.         *)
(***************************************************************************)
EXTENDS Naturals, Sequences

CONSTANTS
    Configs,     \* effective configurations: [minimum, initial, maximum, adaptive]
    Samples,     \* what may be measured: [kind, safe, ceiling]
    Cooldown     \* the 15 seconds, in ticks

(* "unmetered": unusable, or no CPU figure; "critical": memory; "high": any *)
(* pressure; "healthy": headroom on every count.  A sample is safe when it  *)
(* counts towards recovery from critical memory; ceiling is the number of   *)
(* operations that its memory allows.                                       *)
Kinds == {"unmetered", "critical", "high", "middling", "healthy"}

ASSUME ConfigAssumption ==
    \A c \in Configs :
        /\ c.minimum \in Nat \ {0} /\ c.initial \in Nat /\ c.maximum \in Nat
        /\ c.minimum <= c.initial /\ c.initial <= c.maximum
        /\ c.adaptive \in BOOLEAN

ASSUME SampleAssumption ==
    /\ \A s \in Samples :
        /\ s.kind \in Kinds /\ s.safe \in BOOLEAN /\ s.ceiling \in Nat
        /\ s.kind \in {"unmetered", "critical"} => ~s.safe
        /\ s.kind = "healthy" => s.safe
    /\ Cooldown \in Nat \ {0}

VARIABLES
    config,
    limit,
    paused,      \* memory_paused
    healthy,     \* good samples in a row, as far as they matter (three)
    since,       \* now - changed_at, up to the cooldown
    sample,      \* last_sample
    recent,      \* history: samples since the limit moved or memory was critical
    calm         \* history: ticks since then, up to the cooldown

capacityVars == <<config, limit, paused, healthy, since, sample, recent, calm>>

Most(a, b)  == IF a >= b THEN a ELSE b
Least(a, b) == IF a <= b THEN a ELSE b

NoSample == [kind |-> "unmetered", safe |-> FALSE, ceiling |-> 0]

(* What the limit falls back to when nothing can be measured.               *)
Blind == Most(config.minimum, Least(4, config.maximum))

----------------------------------------------------------------------------
CapacityInit ==
    /\ config \in Configs
    /\ limit = config.initial
    /\ paused = FALSE
    /\ healthy = 0
    /\ since = 0
    /\ sample = NoSample
    /\ recent = <<>>
    /\ calm = 0

(* Time passes between samples.                                             *)
Tick ==
    /\ since' = Least(since + 1, Cooldown)
    /\ calm' = Least(calm + 1, Cooldown)
    /\ <<since', calm'>> # <<since, calm>>
    /\ UNCHANGED <<config, limit, paused, healthy, sample, recent>>

Forget == recent' = <<>> /\ calm' = 0

(* What is remembered of an update, for the properties.                     *)
Record(s) ==
    IF limit' # limit \/ s.kind = "critical"
    THEN Forget
    ELSE /\ recent' = Append(IF Len(recent) = 3 THEN Tail(recent) ELSE recent, s)
         /\ UNCHANGED calm

Counted(good) == IF good THEN Least(healthy + 1, 3) ELSE 0
Enough(good)  == Counted(good) = 3 /\ since = Cooldown

Emergency(s) ==
    /\ s.kind = "critical"
    /\ healthy' = 0 /\ limit' = 0 /\ paused' = TRUE /\ since' = 0

(* Out of an emergency: only by safe samples, also when the limit is fixed. *)
ReopenTimid(s) ==   \* mutant of Reopen: waits for the samples that allow growth
    /\ s.kind # "critical" /\ paused
    /\ IF Enough(s.kind = "healthy")
       THEN /\ limit' = IF config.adaptive THEN config.minimum ELSE config.initial
            /\ paused' = FALSE /\ healthy' = 0 /\ since' = 0
       ELSE healthy' = Counted(s.kind = "healthy") /\ UNCHANGED <<limit, paused, since>>

Reopen(s) ==
    /\ s.kind # "critical" /\ paused
    /\ IF Enough(s.safe)
       THEN /\ limit' = IF config.adaptive THEN config.minimum ELSE config.initial
            /\ paused' = FALSE /\ healthy' = 0 /\ since' = 0
       ELSE healthy' = Counted(s.safe) /\ UNCHANGED <<limit, paused, since>>

Fixed(s) ==
    /\ s.kind # "critical" /\ ~paused /\ ~config.adaptive
    /\ limit' = config.initial
    /\ UNCHANGED <<paused, healthy, since>>

Adapting(s) == s.kind # "critical" /\ ~paused /\ config.adaptive

Unmetered(s) ==
    /\ Adapting(s) /\ s.kind = "unmetered"
    /\ limit' = Least(limit, Blind)
    /\ healthy' = 0 /\ since' = 0
    /\ UNCHANGED paused

Shrink(s) ==
    /\ Adapting(s) /\ s.kind = "high"
    /\ limit' = Most(config.minimum, limit - Most(1, limit \div 4))
    /\ healthy' = 0 /\ since' = 0
    /\ UNCHANGED paused

GrowSteadily(s) ==   \* mutant of Grow: a middling sample does not break the row
    /\ Adapting(s) /\ s.kind \in {"middling", "healthy"}
    /\ IF Enough(TRUE)
       THEN /\ limit' = Least(Least(config.maximum, Most(config.minimum, s.ceiling)),
                              Most(config.minimum, limit + 1))
            /\ healthy' = 0 /\ since' = 0
       ELSE healthy' = Counted(TRUE) /\ UNCHANGED <<limit, since>>
    /\ UNCHANGED paused

Grow(s) ==
    /\ Adapting(s) /\ s.kind \in {"middling", "healthy"}
    /\ IF Enough(s.kind = "healthy")
       THEN /\ limit' = Least(Least(config.maximum, Most(config.minimum, s.ceiling)),
                              Most(config.minimum, limit + 1))
            /\ healthy' = 0 /\ since' = 0
       ELSE healthy' = Counted(s.kind = "healthy") /\ UNCHANGED <<limit, since>>
    /\ UNCHANGED paused

Update(s) ==
    /\ Emergency(s) \/ Reopen(s) \/ Fixed(s) \/ Unmetered(s) \/ Shrink(s) \/ Grow(s)
    /\ sample' = s
    /\ Record(s)
    /\ UNCHANGED config

(* ProjectScheduler.reconfigure.                                            *)
Reconfigure(c) ==
    /\ config' = c
    /\ limit' = IF paused THEN 0
                ELSE IF ~c.adaptive THEN c.initial
                ELSE Most(c.minimum, Least(limit, c.maximum))
    /\ healthy' = 0 /\ since' = 0
    /\ Forget
    /\ UNCHANGED <<paused, sample>>

CapacityNext ==
    \/ Tick
    \/ \E s \in Samples : Update(s)
    \/ \E c \in Configs : Reconfigure(c)

CapacitySpec == CapacityInit /\ [][CapacityNext]_capacityVars

(* The sampler keeps sampling, time passes, and the machine is out of       *)
(* trouble from some moment on.                                             *)
SafeUpdate == \E s \in Samples : s.safe /\ Update(s)

Disturbed ==
    \/ \E s \in Samples : ~s.safe /\ Update(s)
    \/ \E c \in Configs : Reconfigure(c)

CapacityFairSpec ==
    /\ CapacitySpec
    /\ WF_capacityVars(Tick) /\ WF_capacityVars(SafeUpdate)
    /\ <>[][~Disturbed]_capacityVars

----------------------------------------------------------------------------
CapacityTypeOK ==
    /\ config \in Configs
    /\ limit \in Nat
    /\ paused \in BOOLEAN
    /\ healthy \in 0..3
    /\ since \in 0..Cooldown
    /\ sample \in Samples \cup {NoSample}
    /\ recent \in Seq(Samples) /\ Len(recent) <= 3
    /\ calm \in 0..Cooldown

(* The limit is what the owner configured: nothing while memory is critical,*)
(* the fixed value or a value of the configured range otherwise, through    *)
(* every pressure and every new configuration (scheduler.py:56-113, 225-233)*)
LimitInRange ==
    limit \in IF paused THEN {0}
              ELSE IF ~config.adaptive THEN {config.initial}
              ELSE config.minimum..config.maximum

(* Capacity returns slowly.  While one configuration stands the limit goes  *)
(* up only with the third healthy sample in a row (a safe one when it ends  *)
(* an emergency), a full cooldown after it last moved or memory was last    *)
(* critical, and by one.                                                    *)
GoodEnough(s) == IF paused THEN s.safe ELSE s.kind = "healthy"

SlowReturn ==
    [][(limit' > limit /\ UNCHANGED config) =>
          /\ calm = Cooldown
          /\ Len(recent) >= 2
          /\ GoodEnough(sample')
          /\ \A i \in DOMAIN recent : i > Len(recent) - 2 => GoodEnough(recent[i])
          /\ paused \/ limit' = limit + 1]_capacityVars

(* An emergency ends once the machine stays safe, and a machine too small   *)
(* for "healthy" is not locked out for good (scheduler.py:61, 71-85).       *)
Reopens == []<>(~paused)

=============================================================================
