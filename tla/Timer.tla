------------------------------- MODULE Timer -------------------------------
(***************************************************************************)
(* pattyd's timers (timer.c) as the event loop drives them: every pass of  *)
(* patty_ax25_server_event_handle reads CLOCK_MONOTONIC before and after   *)
(* select(), computes elapsed = after - before with patty_timer_sub, and   *)
(* handle_sock ticks each running timer by elapsed before testing it with  *)
(* patty_timer_expired.  The timer here is T1 of an established socket:   *)
(* on expiry handle_sock restarts it while retries remain and otherwise    *)
(* closes the socket; frame_ack stops and restarts it.                     *)
(*                                                                         *)
(* A second is NsPerSec nanoseconds and MsPerSec milliseconds (1e9 and     *)
(* 1000 in the code, scaled down); C's / and % truncate toward zero.       *)
(* Only the nanosecond part of the clock is state: the seconds part enters *)
(* the code only through after.tv_sec - before.tv_sec.                     *)
(***************************************************************************)
EXTENDS Integers

CONSTANTS
    NsPerSec,  \* 1000000000
    MsPerSec,  \* 1000
    Period,    \* timer->ms, in milliseconds
    NRetry,    \* sock->n_retry
    MaxWait,   \* longest select() wait in nanoseconds (the 1 s timeout)
    MaxGap,    \* longest time spent in handlers between after and the next before
    MaxSec     \* bound: largest tv_sec a timer is driven to

ASSUME /\ MsPerSec \in Nat \ {0} /\ NsPerSec % MsPerSec = 0
       /\ Period \in Nat \ {0} /\ NRetry \in Nat
       /\ MaxWait \in 1..NsPerSec /\ MaxGap \in Nat /\ MaxSec \in Nat

\* C integer division and remainder: truncation toward zero
CDiv(a, b) == IF a >= 0 THEN a \div b ELSE -((-a) \div b)
CMod(a, b) == a - b * CDiv(a, b)

\* The value of a struct timespec in nanoseconds
Value(ts) == ts.sec * NsPerSec + ts.nsec

PeriodNs == Period * (NsPerSec \div MsPerSec)

\* patty_timer_sub: c = a - b
TimerSub(a, b) ==
    LET nsec == a.nsec - b.nsec
    IN [sec  |-> a.sec - b.sec - CDiv(nsec, NsPerSec),
        nsec |-> CMod(nsec, NsPerSec)]

\* patty_timer_start
TimerStart(tm) ==
    [tm EXCEPT !.t = [sec  |-> Period \div MsPerSec,
                      nsec |-> (Period % MsPerSec) * (NsPerSec \div MsPerSec)],
               !.running = TRUE]

\* patty_timer_stop
TimerStop(tm) == [tm EXCEPT !.running = FALSE]

\* patty_timer_expired
TimerExpired(tm) ==
    /\ tm.running
    /\ tm.t.sec < 0 \/ (tm.t.sec = 0 /\ tm.t.nsec <= 0)

\* patty_timer_tick
TimerTick(tm, elapsed) ==
    IF tm.running THEN [tm EXCEPT !.t = TimerSub(tm.t, elapsed)] ELSE tm

VARIABLES
    clock,    \* tv_nsec of CLOCK_MONOTONIC
    elapsed,  \* server->elapsed
    t1,       \* sock->timer_t1: [t, running]
    retries,  \* sock->retries
    open,     \* the socket has not been closed
    ran       \* the elapsed time ticked since t1 was last started, capped

vars == <<clock, elapsed, t1, retries, open, ran>>

\* ran saturates once a timer has plainly outlived its period
RanCap == PeriodNs + NsPerSec

\* sock_reset and the established socket's T1 started for a sent I frame
Init ==
    /\ clock \in 0..(NsPerSec - 1)
    /\ elapsed = [sec |-> 0, nsec |-> 0]
    /\ t1 = TimerStart([t |-> [sec |-> 0, nsec |-> 0], running |-> FALSE])
    /\ retries = NRetry
    /\ open = TRUE
    /\ ran = 0

\* One pass of event_handle for this socket: before = now; select() waits
\* w; after = now; elapsed = after - before; handle_sock ticks T1 and, if
\* it expired, restarts it while retries-- is non-zero, else closes the
\* socket; then the handlers take g more nanoseconds before the next pass.
EventHandle ==
    /\ open
    /\ \E w \in 1..MaxWait, g \in 0..MaxGap :
         LET before  == [sec |-> 0, nsec |-> clock]
             after   == [sec |-> (clock + w) \div NsPerSec,
                         nsec |-> (clock + w) % NsPerSec]
             e       == TimerSub(after, before)
             ticked  == TimerTick(t1, e)
             ranNow  == IF t1.running THEN ran + Value(e) ELSE ran
         IN /\ elapsed' = e
            /\ clock' = (clock + w + g) % NsPerSec
            /\ IF TimerExpired(ticked)
               THEN IF retries > 0
                    THEN /\ t1' = TimerStart(ticked)
                         /\ retries' = retries - 1
                         /\ ran' = 0
                         /\ UNCHANGED open
                    ELSE /\ t1' = ticked
                         /\ open' = FALSE
                         /\ ran' = IF ranNow < RanCap THEN ranNow ELSE RanCap
                         /\ UNCHANGED retries
               ELSE /\ t1' = ticked
                    /\ ran' = IF ranNow < RanCap THEN ranNow ELSE RanCap
                    /\ UNCHANGED <<retries, open>>
            /\ t1'.t.sec <= MaxSec

\* frame_ack on an RR that acknowledges new frames: T1 stopped, and
\* started again while frames remain unacknowledged; the peer's answer
\* also restores the retry count
FrameAck ==
    /\ open
    /\ \E pending \in BOOLEAN :
         /\ t1' = IF pending THEN TimerStart(TimerStop(t1)) ELSE TimerStop(t1)
         /\ ran' = 0
    /\ retries' = NRetry
    /\ UNCHANGED <<clock, elapsed, open>>

\* The socket is closed: nothing ticks its timers any more
Closed ==
    /\ ~open
    /\ UNCHANGED vars

Next == EventHandle \/ FrameAck \/ Closed

Spec == Init /\ [][Next]_vars

\* event_handle runs again and again while the daemon runs
FairSpec == Spec /\ WF_vars(EventHandle)

(***************************************************************************)
(* Properties                                                              *)
(***************************************************************************)
TypeOK ==
    /\ clock \in 0..(NsPerSec - 1)
    /\ t1.t.sec \in Int /\ t1.t.nsec \in (1 - NsPerSec)..(NsPerSec - 1)
    /\ t1.running \in BOOLEAN
    /\ retries \in 0..NRetry /\ open \in BOOLEAN /\ ran \in 0..RanCap

\* Once the peer falls silent (no more frame_ack), a running T1 eventually
\* fires: handle_sock retransmits, spending a retry, or gives up and
\* closes the socket.  T1 recovery always comes.
T1Fires ==
    <>[][~FrameAck]_vars =>
        \A r \in 0..NRetry :
            [](t1.running /\ open /\ retries = r
                 => <>(retries # r \/ ~t1.running \/ ~open))

====
