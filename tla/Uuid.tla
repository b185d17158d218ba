-------------------------------- MODULE Uuid --------------------------------
(***************************************************************************)
(* Time-based UUIDs: uuid_generate_time and get_clock of lib/uuid          *)
(* (gen_uuid.c), run by several processes that share the clock state file  *)
(* under an fcntl lock, and the uuidd daemon (misc/uuidd.c) that hands out *)
(* ranges of UUIDs over a socket, is started on demand by its clients and  *)
(* stops when idle.                                                        *)
(*                                                                         *)
(* A UUID is its clock sequence and its time stamp; the node id is the     *)
(* hardware address, the same for every process of the host.  Any process  *)
(* may die at any step; the clock may be set back.                         *)
(***************************************************************************)
EXTENDS Integers, FiniteSets

CONSTANTS
    Clients,            \* threads of programs that call uuid_generate_time
    Daemons,            \* instances of uuidd that may be started
    ProcessOf,          \* [Clients -> process]: fcntl locks belong to processes
    StateFile,          \* the threads that can open /var/lib/libuuid/clock.txt
    FirstFd,            \* the descriptor that open returns (0 if stdin is closed)
    TicksPerUsec,       \* 100ns ticks of a microsecond (10)
    MAX_ADJUSTMENT,     \* 10
    FillsUsec,          \* may calls use up the adjustments of a microsecond?
    BulkNum,            \* UUIDs that a client asks the daemon for (1000)
    Second,             \* microseconds of a second
    ClockSeqs,             \* clock sequences (0x4000)
    SeqGap,             \* how far apart the sequences of get_random_bytes are
    MaxTime, MaxUuids,  \* bounds
    MaxEvents           \* bound on daemon starts, deaths and settings of the clock

VARIABLES
    now,        \* gettimeofday
    clock_txt,  \* contents of the state file: sequence, last, adjustment
    locked,     \* the process that holds the lock of the state file
    th,         \* the threads: where they are and their thread-local statics
    uuidd,      \* the socket's daemon, the pid file's inode, its locks
    given,      \* UUIDs returned so far
    twice,      \* was one of them returned before?
    spent       \* sequences drawn, and events of the bound

uuidVars == <<now, clock_txt, locked, th, uuidd, given, twice, spent>>

Callers == Clients \cup Daemons

Nobody == "nobody"

ASSUME UuidConstants ==
    /\ Clients \cap Daemons = {} /\ Nobody \notin Callers
    /\ StateFile \subseteq Callers /\ FirstFd \in {0, 3}
    /\ FillsUsec \in BOOLEAN
    /\ {ClockSeqs, SeqGap, TicksPerUsec, MAX_ADJUSTMENT, BulkNum, Second, MaxTime} \subseteq Nat \ {0}
    /\ {MaxUuids, MaxEvents} \subseteq Nat

Process(t) == IF t \in Clients THEN ProcessOf[t] ELSE t

(* The statics of get_clock (state_fd, last, adjustment, clock_seq) and of *)
(* uuid_generate_time (num, uu, last_time) in a new thread.                *)
NewThread == [pc |-> "idle", fd |-> -2, seq |-> 0, last |-> 0, adj |-> 0,
              want |-> 0, reg |-> 0, peer |-> Nobody, num |-> 0, uu |-> <<0, 0>>,
              last_time |-> 0]

Off == [NewThread EXCEPT !.pc = "off"]

NoState == [seq |-> -1, last |-> 0, adj |-> 0]

Return(uu) ==
    /\ twice' = (twice \/ uu \in given)
    /\ given' = given \cup {uu}

Returned == Cardinality(given)

-----------------------------------------------------------------------------
(* get_clock                                                               *)

(* Opening the state file, the first time, and waiting for its lock.       *)
LockState(t) ==
    LET fd == IF th[t].fd = -2 THEN IF t \in StateFile THEN FirstFd ELSE -1
                               ELSE th[t].fd
    IN  /\ th[t].pc = "get_clock"
        /\ fd >= 0 => locked \in {Nobody, Process(t)}
        /\ locked' = IF fd >= 0 THEN Process(t) ELSE locked
        /\ th' = [th EXCEPT ![t].pc = "locked", ![t].fd = fd]
        /\ UNCHANGED <<now, clock_txt, uuidd, given, twice, spent>>

(* The statics after fscanf of the state file, which fails on an empty one. *)
ReadState(t) ==
    IF th[t].fd >= 0 /\ clock_txt # NoState
    THEN [th[t] EXCEPT !.seq = clock_txt.seq, !.last = clock_txt.last,
                       !.adj = clock_txt.adj]
    ELSE th[t]

(* A first call draws a clock sequence; draws are taken to be far apart.   *)
Fresh(s) == IF s.last # 0 THEN s
            ELSE [s EXCEPT !.seq = (spent.draws * SeqGap) % ClockSeqs,
                           !.last = now - Second]

Adjusted(s) ==
    CASE now < s.last -> [s EXCEPT !.seq = (@ + 1) % ClockSeqs, !.adj = 0, !.last = now]
      [] now = s.last -> [s EXCEPT !.adj = @ + 1]
      [] now > s.last -> [s EXCEPT !.adj = 0, !.last = now]

(* A bulk request moves the saved time past the range it takes.            *)
Reserve(s) ==
    IF s.want > 1
    THEN LET adj == s.adj + s.want - 1
         IN  [s EXCEPT !.last = @ + adj \div TicksPerUsec, !.adj = adj % TicksPerUsec]
    ELSE s

ReadClock(t) ==
    LET s == Fresh(ReadState(t))
        a == Adjusted(s)
    IN  /\ th[t].pc = "locked"
        /\ now = s.last => s.adj < MAX_ADJUSTMENT              \* try_again
        /\ (~FillsUsec /\ now = s.last) => s.adj < MAX_ADJUSTMENT - 1
        /\ th' = [th EXCEPT ![t] = Reserve([a EXCEPT !.pc = "save",
                                              !.reg = now * TicksPerUsec + a.adj])]
        /\ spent' = [spent EXCEPT !.draws = IF ReadState(t).last = 0 THEN @ + 1 ELSE @]
        /\ UNCHANGED <<now, clock_txt, locked, uuidd, given, twice>>


SaveState(t) ==
    /\ th[t].pc = "save"
    /\ IF th[t].fd > 0
       THEN /\ clock_txt' = [seq |-> th[t].seq, last |-> th[t].last, adj |-> th[t].adj]
            /\ locked' = Nobody
       ELSE UNCHANGED <<clock_txt, locked>>
    /\ th' = [th EXCEPT ![t].pc = "return", ![t].want = 0]
    /\ UNCHANGED <<now, uuidd, given, twice, spent>>

-----------------------------------------------------------------------------
(* uuid_generate_time                                                      *)

InHand(c) == th[c].num > 0 /\ now <= th[c].last_time + Second

Calling(c) == c \in Clients /\ th[c].pc = "idle" /\ Returned < MaxUuids

(* A range is used up or out of date.                                      *)
NoRange(s) == [s EXCEPT !.num = 0, !.uu = <<0, 0>>, !.last_time = 0]

(* The next UUID of the range the daemon gave.                             *)
FromRange(c) ==
    /\ Calling(c) /\ InHand(c)
    /\ LET uu == [th[c].uu EXCEPT ![2] = @ + 1]
       IN  /\ th' = [th EXCEPT ![c] = IF @.num > 1
                                       THEN [@ EXCEPT !.uu = uu, !.num = @ - 1]
                                       ELSE NoRange(@)]
           /\ Return(uu)
    /\ UNCHANGED <<now, clock_txt, locked, uuidd, spent>>

(* uuid__generate_time(out, 0)                                             *)
Locally(s) == [NoRange(s) EXCEPT !.pc = "get_clock", !.peer = Nobody]

Listening == uuidd.socket # Nobody

(* connect succeeds and the request is written.                            *)
Ask(c) ==
    /\ th' = [th EXCEPT ![c] = [NoRange(@) EXCEPT !.pc = "asking", !.peer = uuidd.socket]]
    /\ uuidd' = [uuidd EXCEPT !.queue[uuidd.socket] = @ \cup {c}]

Local(c) == th' = [th EXCEPT ![c] = Locally(@)] /\ UNCHANGED uuidd

Starting(d) == th[d].pc = "off" /\ spent.events < MaxEvents

Started(s, d) == [s EXCEPT ![d].pc = "lock", ![d].num = uuidd.pidfile]

(* get_uuid_via_daemon: connect, or start the daemon, or do without it.    *)
Connect(c) ==
    /\ Calling(c) /\ ~InHand(c)
    /\ \/ Listening /\ Ask(c) /\ UNCHANGED spent
       \/ ~Listening /\ Local(c) /\ UNCHANGED spent      \* uuidd cannot be run
       \/ \E d \in Daemons :
            /\ ~Listening /\ Starting(d)
            /\ th' = [Started(th, d) EXCEPT
                          ![c] = [NoRange(@) EXCEPT !.pc = "starting", !.peer = d]]
            /\ spent' = [spent EXCEPT !.events = @ + 1]
            /\ UNCHANGED uuidd
    /\ UNCHANGED <<now, clock_txt, locked, given, twice>>

(* waitpid for the process that was started, and connect again.            *)
ConnectAgain(c) ==
    /\ th[c].pc = "starting" /\ th[th[c].peer].pc \notin {"lock", "pid"}
    /\ IF Listening THEN Ask(c) ELSE Local(c)
    /\ UNCHANGED <<now, clock_txt, locked, given, twice, spent>>

(* The daemon died before it answered.                                     *)
ReadFails(c) ==
    /\ th[c].pc = "asking"
    /\ c \notin uuidd.queue[th[c].peer] /\ th[th[c].peer].peer # c
    /\ Local(c)
    /\ UNCHANGED <<now, clock_txt, locked, given, twice, spent>>

(* uuid__generate_time returns to uuid_generate_time.                      *)
LocalReturn(c) ==
    /\ c \in Clients /\ th[c].pc = "return"
    /\ th' = [th EXCEPT ![c].pc = "idle", ![c].reg = 0]
    /\ Return(<<th[c].seq, th[c].reg>>)
    /\ UNCHANGED <<now, clock_txt, locked, uuidd, spent>>

-----------------------------------------------------------------------------
(* server_loop of uuidd                                                    *)

(* uuidd started from the boot scripts.                                    *)
StartUuidd(d) ==
    /\ Starting(d)
    /\ th' = Started(th, d)
    /\ spent' = [spent EXCEPT !.events = @ + 1]
    /\ UNCHANGED <<now, clock_txt, locked, uuidd, given, twice>>

(* The lock is on the inode that was opened, even if it is unlinked now.   *)
LockPidfile(d) ==
    /\ th[d].pc = "lock"
    /\ ~ \E e \in Daemons : th[e].pc = "pid" /\ th[e].num = th[d].num
    /\ th' = [th EXCEPT ![d].pc = "pid"]
    /\ UNCHANGED <<now, clock_txt, locked, uuidd, given, twice, spent>>

(* alarm(30) while it waits for the lock: terminate_intr.                  *)
LockTimeout(d) ==
    /\ th[d].pc = "lock"
    /\ th' = [th EXCEPT ![d] = Off]
    /\ uuidd' = [uuidd EXCEPT !.pidfile = @ + 1]
    /\ UNCHANGED <<now, clock_txt, locked, given, twice, spent>>

(* With a daemon that answers it exits, else it takes the socket's name.   *)
BindSocket(d) ==
    /\ th[d].pc = "pid"
    /\ IF Listening
       THEN th' = [th EXCEPT ![d] = Off] /\ UNCHANGED uuidd
       ELSE /\ th' = [th EXCEPT ![d].pc = "idle", ![d].num = 0]
            /\ uuidd' = [uuidd EXCEPT !.socket = d]
    /\ UNCHANGED <<now, clock_txt, locked, given, twice, spent>>

(* UUIDD_OP_BULK_TIME_UUID: accept, and uuid__generate_time(uu, &num).     *)
Accept(d) ==
    /\ d \in Daemons /\ th[d].pc = "idle"
    /\ \E c \in uuidd.queue[d] :
        /\ th' = [th EXCEPT ![d].pc = "get_clock", ![d].want = BulkNum, ![d].peer = c]
        /\ uuidd' = [uuidd EXCEPT !.queue[d] = @ \ {c}]
    /\ UNCHANGED <<now, clock_txt, locked, given, twice, spent>>

(* The reply, and what uuid_generate_time makes of it.                     *)
Reply(d) ==
    /\ d \in Daemons /\ th[d].pc = "return"
    /\ LET c  == th[d].peer
           uu == <<th[d].seq, th[d].reg>>
           served == [th EXCEPT ![d].pc = "idle", ![d].peer = Nobody, ![d].reg = 0]
       IN  IF c = Nobody
           THEN th' = served /\ UNCHANGED <<given, twice>>
           ELSE /\ th' = [served EXCEPT ![c].pc = "idle", ![c].peer = Nobody,
                              ![c].uu = uu, ![c].num = BulkNum - 1, ![c].last_time = now]
                /\ Return(uu)
    /\ UNCHANGED <<now, clock_txt, locked, uuidd, spent>>

Unlocked(t) == IF locked = Process(t) THEN Nobody ELSE locked

(* terminate_intr: SIGTERM, or the alarm of an idle daemon.  The names are *)
(* unlinked even if another daemon has taken them meanwhile.               *)
terminate_intr(d) ==
    /\ d \in Daemons /\ th[d].pc \notin {"off", "lock", "pid"}
    /\ th' = [th EXCEPT ![d] = Off]
    /\ uuidd' = [socket |-> Nobody, pidfile |-> uuidd.pidfile + 1,
                 queue |-> [uuidd.queue EXCEPT ![d] = {}]]
    /\ locked' = Unlocked(d)
    /\ UNCHANGED <<now, clock_txt, given, twice, spent>>

-----------------------------------------------------------------------------
(* The environment                                                         *)

(* A process is killed, with all its threads; its statics and its locks go. *)
Killed(t) ==
    /\ spent.events < MaxEvents /\ th[t].pc # "off"
    /\ LET gone == {u \in Callers : Process(u) = Process(t)}
       IN  /\ th' = [u \in Callers |->
                        CASE u \in gone \cap Clients -> NewThread
                          [] u \in gone \cap Daemons -> Off
                          [] u \notin gone /\ u \in Daemons /\ th[u].peer \in gone ->
                                [th[u] EXCEPT !.peer = Nobody]
                          [] OTHER -> th[u]]
           /\ uuidd' = [uuidd EXCEPT
                            !.socket = IF @ \in gone THEN Nobody ELSE @,
                            !.queue = [d \in Daemons |-> IF d \in gone THEN {} ELSE @[d] \ gone]]
    /\ locked' = Unlocked(t)
    /\ spent' = [spent EXCEPT !.events = @ + 1]
    /\ UNCHANGED <<now, clock_txt, given, twice>>

Tick ==
    /\ now < MaxTime
    /\ now' = now + 1
    /\ UNCHANGED <<clock_txt, locked, th, uuidd, given, twice, spent>>

(* settimeofday to an earlier time.                                        *)
SetBack ==
    /\ spent.events < MaxEvents
    /\ \E n \in Second + 1 .. now - 1 : now' = n
    /\ spent' = [spent EXCEPT !.events = @ + 1]
    /\ UNCHANGED <<clock_txt, locked, th, uuidd, given, twice>>

-----------------------------------------------------------------------------
UuidInit ==
    /\ now = Second + 1
    /\ clock_txt = NoState
    /\ locked = Nobody
    /\ th = [t \in Callers |-> IF t \in Clients THEN NewThread ELSE Off]
    /\ uuidd = [socket |-> Nobody, pidfile |-> 0, queue |-> [d \in Daemons |-> {}]]
    /\ given = {} /\ twice = FALSE
    /\ spent = [draws |-> 0, events |-> 0]

UuidNext ==
    \/ \E t \in Callers : LockState(t) \/ ReadClock(t) \/ SaveState(t) \/ Killed(t)
    \/ \E c \in Clients : \/ FromRange(c) \/ Connect(c) \/ ConnectAgain(c)
                          \/ ReadFails(c) \/ LocalReturn(c)
    \/ \E d \in Daemons : \/ StartUuidd(d) \/ LockPidfile(d) \/ LockTimeout(d)
                          \/ BindSocket(d) \/ Accept(d) \/ Reply(d) \/ terminate_intr(d)
    \/ Tick \/ SetBack

UuidSpec == UuidInit /\ [][UuidNext]_uuidVars

-----------------------------------------------------------------------------

=============================================================================
