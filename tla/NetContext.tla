----------------------------- MODULE NetContext -----------------------------
(***************************************************************************)
(* The I/O context of the Linux build (src/zerobus/network_linux.cpp):     *)
(* worker threads that wait on one epoll instance and call peers back.     *)
(*                                                                         *)
(* A request (receive, ready_to_send, accept, set_timeout) stores who is   *)
(* to be called and arms the descriptor; an event disarms it again         *)
(* (EPOLLONESHOT), and the worker that fetched it makes the callbacks with *)
(* the mutex released.  One worker at a time waits no longer than until    *)
(* the nearest timeout.  Connections are numbers of slots that are used    *)
(* again, from a free list threaded through their _ident fields.           *)
(*                                                                         *)
(* The mutex _mx is a variable because one event takes several critical    *)
(* sections.  API calls are one critical section each, made by threads of  *)
(* the program or inside callbacks: both are steps that need the mutex.    *)
(* What needs no mutex (the kernel, the other sides, time) is not taken    *)
(* inside a critical section: each section reads or changes the kernel's   *)
(* state at one point, so such a step can as well come before or after it, *)
(* unless the section waits for it: accept4() at a listening socket, and   *)
(* read() of the process's own input, block (create_server, dup_fd).       *)
(*                                                                         *)
(* Abstracted: bytes (an amount, or that there is room), addresses, errors *)
(* other than "would block" and "closed", shutdown by an empty send(), and *)
(* the rounding of epoll_wait()'s timeout to milliseconds.                 *)
(***************************************************************************)
EXTENDS Integers, Sequences, FiniteSets

CONSTANTS
    Worker,     \* threads in run_worker()
    Peer,       \* connections, each with its object, in their whole life
    Server,     \* those that are listening sockets
    Pipe,       \* those that are pipes, as the process's own input and output are
    Null,       \* no thread, no peer
    Program,    \* bound: what a program uses, and how much of it
    MaxTime     \* bound: the clock

ASSUME WorkersFinite == IsFiniteSet(Worker) /\ Null \notin Worker
ASSUME PeersFinite == IsFiniteSet(Peer) /\ Null \notin Peer
ASSUME PeerKinds == Server \subseteq Peer /\ Pipe \subseteq Peer
                    /\ Server \cap Pipe = {}
ASSUME TimeNat == MaxTime \in Nat

\* The connections and the functions of the API, the bounds of requests and of
\* events of the other sides, and, beyond these, the connections that are sent
\* data without end and ask for more.
ASSUME ProgramsUse ==
    Program \subseteq [peers : SUBSET Peer, calls : SUBSET STRING, requests : Nat,
                      events : Nat, steady : SUBSET (Peer \ Server)]

VARIABLES
    slots,    \* _sockets: the SocketInfo records
    size,     \* _sockets.size()
    free,     \* _first_free_socket_ident
    tmset,    \* _tmset: pairs of a time and a connection
    role,     \* _cur_timer_thread
    actions,  \* _actions: here connections to destroy
    mx,       \* holder of _mx
    work,     \* the workers: where they are, and their local variables
    stop,     \* workers asked to stop
    wakes,    \* eventfds that are readable
    interest, \* external: what epoll reports of a descriptor; {} is disarmed
    level,    \* external: descriptors registered without EPOLLONESHOT
    wire,     \* external: what a descriptor is ready for
    life,     \* the peer objects of the program
    handle,   \* the connection a peer got
    now,      \* the clock
    calls,    \* requests made so far
    traffic,  \* events of the other sides so far
    program   \* the program

slotVars == <<slots, size, free>>
workVars == <<role, actions, mx, work, stop, wakes>>
osVars == <<interest, level, wire>>
userVars == <<life, handle>>
countVars == <<now, calls, traffic, program>>
vars == <<slotVars, tmset, workVars, osVars, userVars, countVars>>

Slot == 0 .. Cardinality(Peer) - 1
Infinite == MaxTime + 1   \* time_point::max()
NoIdent == -1

\* A SocketInfo as constructed.
Blank == [ident |-> NoIdent, fd |-> Null, flags |-> {}, cur |-> {},
          recv |-> Null, send |-> Null, acc |-> Null, tmo |-> Null,
          at |-> 0, calls |-> 0]

IdleWork == [pc |-> "new", id |-> NoIdent, ev |-> {}, due |-> Infinite,
             peer |-> Null, kind |-> "none", next |-> "none", mine |-> <<>>]

Silent == [data |-> 0, room |-> FALSE, closed |-> FALSE]

Init ==
    /\ slots = [h \in Slot |-> Blank] /\ size = 0 /\ free = 0
    /\ tmset = {} /\ role = Null /\ actions = <<>> /\ mx = Null
    /\ work = [t \in Worker |-> IdleWork] /\ stop = {} /\ wakes = {}
    /\ interest = [p \in Peer |-> {}] /\ level = {}
    /\ wire = [p \in Peer |-> Silent]
    /\ life = [p \in Peer |-> "unborn"] /\ handle = [p \in Peer |-> 0]
    /\ now = 0 /\ calls = 0 /\ traffic = 0 /\ program \in Program

-----------------------------------------------------------------------------
(* Slots.                                                                  *)

\* socket_by_ident()
InUse(h) == h \in 0 .. size - 1 /\ slots[h].ident = h

\* alloc_socket_lk(): the first free slot, or one more.
Alloc(p) ==
    /\ slots' = [slots EXCEPT ![free].ident = free, ![free].fd = p]
    /\ size' = IF free >= size THEN free + 1 ELSE size
    /\ free' = IF free >= size THEN free + 1 ELSE slots[free].ident
    /\ handle' = [handle EXCEPT ![p] = free]

FreeSlot_Unlinked(h) ==
    /\ slots' = [slots EXCEPT ![h] = [Blank EXCEPT !.ident = free]]
    /\ UNCHANGED <<size, free>>
\* free_socket_lk(): constructed anew, and first in the free list.
FreeSlot(h) ==
    /\ slots' = [slots EXCEPT ![h] = [Blank EXCEPT !.ident = free]]
    /\ free' = h
    /\ UNCHANGED size

\* EPoll::add() with no events: errors and hang-ups are reported all the same,
\* again and again.
Register(p) ==
    /\ interest' = [interest EXCEPT ![p] = {"HUP"}]
    /\ level' = level \cup {p}

\* apply_flags_lk(): arm the descriptor when _cur_flags says that it is not.
Arm(h, s) ==
    /\ slots' = [slots EXCEPT ![h] = [s EXCEPT !.cur = s.flags]]
    /\ IF s.flags # s.cur
       THEN /\ interest' = [interest EXCEPT ![s.fd] = s.flags \cup {"HUP"}]
            /\ level' = level \ {s.fd}
       ELSE UNCHANGED <<interest, level>>

\* What the kernel has to report.  The end of a pipe's data is a hang-up
\* without EPOLLIN.
Level(p) == (IF wire[p].data > 0 \/ (wire[p].closed /\ p \notin Pipe)
             THEN {"IN"} ELSE {})
            \cup (IF wire[p].room THEN {"OUT"} ELSE {})
            \cup (IF wire[p].closed /\ p \in Pipe THEN {"HUP"} ELSE {})
Ready(p) == Level(p) \cap interest[p]

\* get_epoll_timeout_lk()
Nearest == IF tmset = {} THEN Infinite
           ELSE CHOOSE x \in {e[1] : e \in tmset} : \A e \in tmset : x <= e[1]

-----------------------------------------------------------------------------
(* The worker's loop.  To be under the mutex is to have a pc of Holding.   *)

Goto(t, pc) == work' = [work EXCEPT ![t].pc = pc]
Done(t) == work' = [work EXCEPT ![t] = [IdleWork EXCEPT !.pc = "actions"]]

\* run_worker() begins with the mutex.
Begin(t) ==
    /\ work[t].pc = "new" /\ mx = Null
    /\ mx' = t /\ Goto(t, "top")
    /\ UNCHANGED <<slotVars, tmset, role, actions, stop, wakes, osVars, userVars, countVars>>

\* The head of the loop: whoever finds the role free waits for the timers.
Top(t) ==
    /\ work[t].pc = "top" /\ mx = t
    /\ mx' = Null
    /\ IF t \in stop
       THEN Goto(t, "end") /\ UNCHANGED role
       ELSE IF role = Null
       THEN /\ role' = t
            /\ work' = [work EXCEPT ![t].pc = "wait", ![t].due = Nearest]
       ELSE /\ work' = [work EXCEPT ![t].pc = "wait", ![t].due = Infinite]
            /\ UNCHANGED role
    /\ UNCHANGED <<slotVars, tmset, actions, stop, wakes, osVars, userVars, countVars>>

\* epoll_wait() returns an event, which disarms a one-shot registration.
FetchEvent(t, p) ==
    /\ work[t].pc = "wait" /\ mx = Null /\ Ready(p) # {}
    /\ work' = [work EXCEPT ![t] = [IdleWork EXCEPT !.pc = "woken", !.id = handle[p],
                                                   !.ev = Ready(p)]]
    /\ interest' = IF p \in level THEN interest ELSE [interest EXCEPT ![p] = {}]
    /\ UNCHANGED <<slotVars, tmset, role, actions, mx, stop, wakes, level, wire,
                   userVars, countVars>>

\* ... or that some worker's eventfd is readable; all of them are in the one
\* epoll instance, under the same ident.
FetchWake(t) ==
    /\ work[t].pc = "wait" /\ mx = Null /\ wakes # {}
    /\ work' = [work EXCEPT ![t] = [IdleWork EXCEPT !.pc = "woken", !.ev = {"WAKE"}]]
    /\ UNCHANGED <<slotVars, tmset, role, actions, mx, stop, wakes, osVars,
                   userVars, countVars>>

\* ... or that the time is up and there is no event.
WaitEnds(t) ==
    /\ work[t].pc = "wait" /\ mx = Null /\ work[t].due <= now
    /\ wakes = {} /\ \A p \in Peer : Ready(p) = {}
    /\ work' = [work EXCEPT ![t] = [IdleWork EXCEPT !.pc = "woken"]]
    /\ UNCHANGED <<slotVars, tmset, role, actions, mx, stop, wakes, osVars,
                   userVars, countVars>>

\* The mutex again.  The role is given up, the worker's own eventfd is read.
Relock(t) ==
    /\ work[t].pc = "woken" /\ mx = Null
    /\ mx' = t
    /\ role' = IF role = t THEN Null ELSE role
    /\ IF "WAKE" \in work[t].ev THEN Done(t)
       ELSE Goto(t, IF work[t].ev = {} THEN "timers" ELSE "event")
    /\ wakes' = IF "WAKE" \in work[t].ev THEN wakes \ {t} ELSE wakes
    /\ UNCHANGED <<slotVars, tmset, actions, stop, osVars, userVars, countVars>>

\* invoke_cb(): the call is counted, then made without the mutex.
Called(t, h, p, kind, next) ==
    /\ mx' = Null
    /\ work' = [work EXCEPT ![t].pc = "cb", ![t].id = h, ![t].peer = p,
                            ![t].kind = kind, ![t].next = next]

CallbackReturns_Uncounted(t) ==
    /\ work[t].pc = "cb" /\ mx = Null
    /\ mx' = t
    /\ slots' = [slots EXCEPT ![work[t].id].calls = 0]
    /\ work' = [work EXCEPT ![t].pc = work[t].next, ![t].peer = Null, ![t].kind = "none"]
    /\ UNCHANGED <<size, free, tmset, role, actions, stop, wakes, osVars, userVars, countVars>>
\* The rest of invoke_cb(), with the mutex again.
CallbackReturns(t) ==
    /\ work[t].pc = "cb" /\ mx = Null
    /\ mx' = t
    /\ slots' = [slots EXCEPT ![work[t].id].calls = @ - 1]
    /\ work' = [work EXCEPT ![t].pc = work[t].next, ![t].peer = Null, ![t].kind = "none"]
    /\ UNCHANGED <<size, free, tmset, role, actions, stop, wakes, osVars, userVars, countVars>>

\* The loop over the timeouts that have passed.
Timers(t) ==
    /\ work[t].pc = "timers" /\ mx = t
    /\ IF Nearest > now
       THEN Done(t) /\ UNCHANGED <<slots, tmset, mx>>
       ELSE \E e \in {x \in tmset : x[1] = Nearest /\ \A y \in tmset :
                                        y[1] = x[1] => x[2] <= y[2]} :
            /\ tmset' = tmset \ {e}
            /\ IF InUse(e[2]) /\ slots[e[2]].tmo # Null
               THEN /\ slots' = [slots EXCEPT ![e[2]].tmo = Null, ![e[2]].calls = @ + 1]
                    /\ Called(t, e[2], slots[e[2]].tmo, "timeout", "timers")
               ELSE UNCHANGED <<slots, work, mx>>
    /\ UNCHANGED <<size, free, role, actions, stop, wakes, osVars, userVars, countVars>>

-----------------------------------------------------------------------------
(* process_event_lk()                                                      *)

Event_StaleFlags(t) ==
    /\ work[t].pc = "event" /\ mx = t
    /\ IF InUse(work[t].id) THEN Goto(t, IF "IN" \in work[t].ev THEN "accept" ELSE "out")
       ELSE Done(t)
    /\ UNCHANGED <<slotVars, tmset, role, actions, mx, stop, wakes, osVars,
                   userVars, countVars>>
\* The slot is looked up now: it may be another connection's than that of the
\* event.  Its descriptor is disarmed, as far as the context knows.
Event(t) ==
    /\ work[t].pc = "event" /\ mx = t
    /\ IF InUse(work[t].id)
       THEN /\ slots' = [slots EXCEPT ![work[t].id].cur = {}]
            /\ Goto(t, IF "IN" \in work[t].ev THEN "accept" ELSE "out")
       ELSE Done(t) /\ UNCHANGED slots
    /\ UNCHANGED <<size, free, tmset, role, actions, mx, stop, wakes, osVars,
                   userVars, countVars>>

\* EPOLLIN at a listening socket: the new connection n gets a slot and the
\* server is called.
Accept(t) == LET h == work[t].id IN
    /\ work[t].pc = "accept" /\ mx = t
    /\ slots[h].acc # Null /\ wire[slots[h].fd].data > 0
    /\ \E n \in {p \in program.peers \ (Server \cup Pipe) : life[p] = "unborn"} :
        /\ LET s == [slots EXCEPT ![h].flags = @ \ {"IN"}, ![h].acc = Null,
                                  ![h].calls = @ + 1]
           IN slots' = [s EXCEPT ![free].ident = free, ![free].fd = n]
        /\ size' = IF free >= size THEN free + 1 ELSE size
        /\ free' = IF free >= size THEN free + 1 ELSE slots[free].ident
        /\ handle' = [handle EXCEPT ![n] = free]
        /\ life' = [life EXCEPT ![n] = "live"]
        /\ Register(n)
        /\ wire' = [wire EXCEPT ![slots[h].fd].data = @ - 1, ![n].room = TRUE]
        /\ Called(t, h, slots[h].acc, "accept", "recv")
    /\ UNCHANGED <<tmset, role, actions, stop, wakes, countVars>>

\* accept4() fails, as it does when no descriptor is left: reported, and the
\* request is gone.  Where nobody has connected (the event was that of the slot's
\* last owner), accept4() does not fail: it waits, with the mutex.
AcceptFails(t) == LET h == work[t].id IN
    /\ work[t].pc = "accept" /\ mx = t
    /\ slots[h].acc # Null /\ wire[slots[h].fd].data > 0
    /\ slots' = [slots EXCEPT ![h].flags = @ \ {"IN"}, ![h].acc = Null]
    /\ Goto(t, "recv")
    /\ UNCHANGED <<size, free, tmset, role, actions, mx, stop, wakes, osVars,
                   userVars, countVars>>

\* EPOLLIN at a connection: recv() and receive_complete().  No data means
\* closed, and so does any error, "would block" included.  At a pipe it is
\* read(), which waits.
Receive(t) == LET h == work[t].id IN
    /\ work[t].pc \in {"accept", "recv"} /\ mx = t
    /\ work[t].pc = "accept" => slots[h].acc = Null
    /\ slots[h].recv # Null /\ slots[h].fd \in Pipe =>
         wire[slots[h].fd].data > 0 \/ wire[slots[h].fd].closed
    /\ IF slots[h].recv # Null
       THEN /\ slots' = [slots EXCEPT ![h].flags = @ \ {"IN"}, ![h].recv = Null,
                                      ![h].calls = @ + 1]
            /\ Called(t, h, slots[h].recv,
                      IF wire[slots[h].fd].data > 0 THEN "data" ELSE "closed", "out")
            /\ wire' = [wire EXCEPT ![slots[h].fd].data = 0]
       ELSE Goto(t, "out") /\ UNCHANGED <<slots, mx, wire>>
    /\ UNCHANGED <<size, free, tmset, role, actions, stop, wakes, interest, level,
                   userVars, countVars>>

\* EPOLLOUT: clear_to_send().
ClearToSend(t) == LET h == work[t].id IN
    /\ work[t].pc = "out" /\ mx = t
    /\ IF "OUT" \in work[t].ev
       THEN IF slots[h].send # Null
            THEN /\ slots' = [slots EXCEPT ![h].flags = @ \ {"OUT"}, ![h].send = Null,
                                           ![h].calls = @ + 1]
                 /\ Called(t, h, slots[h].send, "send", "apply")
            ELSE /\ slots' = [slots EXCEPT ![h].flags = @ \ {"OUT"}]
                 /\ Goto(t, "apply") /\ UNCHANGED mx
       ELSE Goto(t, "apply") /\ UNCHANGED <<slots, mx>>
    /\ UNCHANGED <<size, free, tmset, role, actions, stop, wakes, osVars, userVars, countVars>>

\* What was requested meanwhile, or not served, is armed again.
ApplyFlags(t) ==
    /\ work[t].pc = "apply" /\ mx = t
    /\ Arm(work[t].id, slots[work[t].id])
    /\ Done(t)
    /\ UNCHANGED <<size, free, tmset, role, actions, mx, stop, wakes, wire,
                   userVars, countVars>>

-----------------------------------------------------------------------------
(* Destruction and the queue of actions.                                   *)

Quiet_Always(h) == TRUE
\* destroy(): the condition it waits for.
Quiet(h) == slots[h].calls = 0

\* destroy() up to its wait.
DestroyCall(p) ==
    /\ life[p] = "live" /\ mx = Null /\ "destroy" \in program.calls
    /\ life' = [life EXCEPT ![p] = "leaving"]
    /\ UNCHANGED <<slotVars, tmset, workVars, osVars, handle, countVars>>

Destroy_TimerLeft(p) == LET h == handle[p] IN
    /\ mx = Null /\ Quiet(h)
    /\ FreeSlot(h)
    /\ interest' = [interest EXCEPT ![p] = {}] /\ level' = level \ {p}
    /\ life' = [life EXCEPT ![p] = "gone"]
    /\ UNCHANGED tmset
\* The rest of destroy().
Destroy(p) == LET h == handle[p] IN
    /\ mx = Null /\ Quiet(h)
    /\ FreeSlot(h)
    /\ interest' = [interest EXCEPT ![p] = {}] /\ level' = level \ {p}
    /\ tmset' = tmset \ {<<slots[h].at, h>>}
    /\ life' = [life EXCEPT ![p] = "gone"]

DestroyReturns(p) ==
    /\ life[p] = "leaving"
    /\ Destroy(p)
    /\ UNCHANGED <<workVars, wire, handle, countVars>>

\* enqueue() of a destruction, as callbacks have to do.
Enqueue(p) ==
    /\ life[p] = "live" /\ mx = Null /\ "enqueue" \in program.calls
    /\ life' = [life EXCEPT ![p] = "queued"]
    /\ actions' = Append(actions, p)
    /\ wakes' = IF role # Null THEN wakes \cup {role} ELSE wakes
    /\ UNCHANGED <<slotVars, tmset, role, mx, work, stop, osVars, handle, countVars>>

TakeActions_ByRole(t) ==
    /\ work[t].pc = "actions" /\ mx = t
    /\ IF actions = <<>> \/ role # Null
       THEN Goto(t, "top") /\ UNCHANGED <<actions, mx>>
       ELSE /\ work' = [work EXCEPT ![t].pc = "acts", ![t].mine = actions]
            /\ actions' = <<>>
            /\ mx' = Null
    /\ UNCHANGED <<slotVars, tmset, role, stop, wakes, osVars, userVars, countVars>>
\* The worker takes the whole queue, or goes round again.
TakeActions(t) ==
    /\ work[t].pc = "actions" /\ mx = t
    /\ IF actions = <<>>
       THEN Goto(t, "top") /\ UNCHANGED <<actions, mx>>
       ELSE /\ work' = [work EXCEPT ![t].pc = "acts", ![t].mine = actions]
            /\ actions' = <<>>
            /\ mx' = Null
    /\ UNCHANGED <<slotVars, tmset, role, stop, wakes, osVars, userVars, countVars>>

\* One action; a worker asked to stop forgets the others.
RunAction(t) ==
    /\ work[t].pc = "acts" /\ work[t].mine # <<>>
    /\ Destroy(Head(work[t].mine))
    /\ work' = [work EXCEPT
                  ![t].mine = IF t \in stop THEN <<>> ELSE Tail(@),
                  ![t].pc = IF t \in stop THEN "end" ELSE "acts"]
    /\ UNCHANGED <<role, actions, mx, stop, wakes, wire, handle, countVars>>

ActionsDone(t) ==
    /\ work[t].pc = "acts" /\ work[t].mine = <<>> /\ mx = Null
    /\ mx' = t /\ Goto(t, "actions")
    /\ UNCHANGED <<slotVars, tmset, role, actions, stop, wakes, osVars, userVars, countVars>>

\* The stop_callback of a worker's token.
RequestStop(t) ==
    /\ work[t].pc \notin {"new", "end"} /\ t \notin stop /\ mx = Null
    /\ "stop" \in program.calls
    /\ stop' = stop \cup {t} /\ wakes' = wakes \cup {t}
    /\ UNCHANGED <<slotVars, tmset, role, actions, mx, work, osVars, userVars, countVars>>

-----------------------------------------------------------------------------
(* The API, for a peer that exists: called by threads of the program until *)
(* the peer is to be destroyed, and by its callbacks until the last one    *)
(* has returned.                                                           *)

Endless(p, name) == p \in program.steady /\ name = "receive"
MayCall(p, name) ==
    /\ mx = Null /\ name \in program.calls /\ (calls < program.requests \/ Endless(p, name))
    /\ \/ life[p] = "live"
       \/ life[p] \in {"queued", "leaving"} /\ \E t \in Worker : work[t].peer = p
CountCall(p, name) ==
    /\ calls' = (IF Endless(p, name) THEN calls ELSE calls + 1)
    /\ UNCHANGED <<now, traffic, program>>

\* A slot and a registration.
Created(p) ==
    /\ mx = Null /\ p \in program.peers /\ life[p] = "unborn"
    /\ life' = [life EXCEPT ![p] = "live"]
    /\ Alloc(p) /\ Register(p)
    /\ UNCHANGED <<tmset, workVars, wire, countVars>>
\* connect() to an address; when it throws, nothing has changed.
Connect(p) == p \notin Server \cup Pipe /\ Created(p)
\* create_server()
CreateServer(p) == p \in Server /\ Created(p)
\* connect() to the process's own input or output.
ConnectSpecial(p) == p \in Pipe /\ Created(p)

\* reconnect() to an address that can be reached: flags are reset, callbacks
\* are not.
Reconnect(p) == LET h == handle[p] IN
    /\ MayCall(p, "reconnect") /\ p \notin Server \cup Pipe
    /\ slots' = [slots EXCEPT ![h].flags = {}, ![h].cur = {}]
    /\ Register(p)
    /\ wire' = [wire EXCEPT ![p] = Silent]
    /\ CountCall(p, "reconnect")
    /\ UNCHANGED <<size, free, tmset, workVars, userVars>>

\* receive(), once the last one was answered.
RequestReceive(p) == LET h == handle[p] IN
    /\ MayCall(p, "receive") /\ p \notin Server /\ slots[h].recv = Null
    /\ Arm(h, [slots[h] EXCEPT !.flags = @ \cup {"IN"}, !.recv = p])
    /\ CountCall(p, "receive")
    /\ UNCHANGED <<size, free, tmset, workVars, wire, userVars>>

\* ready_to_send(), any number of times.
RequestSend(p) == LET h == handle[p] IN
    /\ MayCall(p, "ready_to_send") /\ p \notin Server
    /\ Arm(h, [slots[h] EXCEPT !.flags = @ \cup {"OUT"}, !.send = p])
    /\ CountCall(p, "ready_to_send")
    /\ UNCHANGED <<size, free, tmset, workVars, wire, userVars>>

\* accept()
RequestAccept(p) == LET h == handle[p] IN
    /\ MayCall(p, "accept") /\ p \in Server /\ slots[h].acc = Null
    /\ Arm(h, [slots[h] EXCEPT !.flags = @ \cup {"IN"}, !.acc = p])
    /\ CountCall(p, "accept")
    /\ UNCHANGED <<size, free, tmset, workVars, wire, userVars>>

\* send() of enough to fill the kernel's buffer.
Send(p) ==
    /\ MayCall(p, "send") /\ wire[p].room
    /\ wire' = [wire EXCEPT ![p].room = FALSE]
    /\ CountCall(p, "send")
    /\ UNCHANGED <<slotVars, tmset, workVars, interest, level, userVars>>

Earlier_Later(tp) == Nearest < tp
\* set_timeout(): does the waiting worker have to be told?
Earlier(tp) == Nearest > tp

\* set_timeout()
SetTimeout(p, tp) == LET h == handle[p] IN
    /\ MayCall(p, "set_timeout")
    /\ tmset' = (tmset \ {<<slots[h].at, h>>}) \cup {<<tp, h>>}
    /\ slots' = [slots EXCEPT ![h].tmo = p, ![h].at = tp]
    /\ wakes' = IF Earlier(tp) /\ role # Null THEN wakes \cup {role} ELSE wakes
    /\ CountCall(p, "set_timeout")
    /\ UNCHANGED <<size, free, role, actions, mx, work, stop, osVars, userVars>>

\* clear_timeout(): the callback stays.
ClearTimeout(p) == LET h == handle[p] IN
    /\ MayCall(p, "clear_timeout") /\ <<slots[h].at, h>> \in tmset
    /\ tmset' = tmset \ {<<slots[h].at, h>>}
    /\ CountCall(p, "clear_timeout")
    /\ UNCHANGED <<slotVars, workVars, osVars, userVars>>

-----------------------------------------------------------------------------
(* The other sides, and time.                                              *)

\* A worker waits for p with the mutex.
Blocks(p) ==
    /\ p \in Server \cup Pipe
    /\ \E t \in Worker : /\ mx = t /\ work[t].pc \in {"accept", "recv"}
                         /\ slots[work[t].id].fd = p
Remote(p) ==
    /\ life[p] \in {"live", "queued", "leaving"} /\ (mx = Null \/ Blocks(p))
    /\ UNCHANGED <<slotVars, tmset, workVars, interest, level, userVars, now, calls, program>>
CountEvent == traffic < program.events /\ traffic' = traffic + 1

DataArrives(p) ==
    /\ Remote(p) /\ ~wire[p].closed
    /\ IF p \in program.steady THEN wire[p].data = 0 /\ UNCHANGED traffic ELSE CountEvent
    /\ wire' = [wire EXCEPT ![p].data = @ + 1]
RoomAppears(p) ==
    /\ Remote(p) /\ CountEvent /\ p \notin Server /\ ~wire[p].room
    /\ wire' = [wire EXCEPT ![p].room = TRUE]
OtherCloses(p) ==
    /\ Remote(p) /\ CountEvent /\ p \notin Server /\ ~wire[p].closed
    /\ wire' = [wire EXCEPT ![p].closed = TRUE]
Tick ==
    /\ now < MaxTime /\ mx = Null /\ "set_timeout" \in program.calls
    /\ now' = now + 1
    /\ UNCHANGED <<slotVars, tmset, workVars, osVars, userVars, calls, traffic, program>>

Locking(t) == Begin(t) \/ Relock(t) \/ CallbackReturns(t) \/ ActionsDone(t)
Holding(t) == Top(t) \/ Timers(t) \/ Event(t) \/ Accept(t) \/ AcceptFails(t)
              \/ Receive(t) \/ ClearToSend(t) \/ ApplyFlags(t) \/ TakeActions(t)
Waiting(t) == (\E p \in Peer : FetchEvent(t, p)) \/ FetchWake(t) \/ WaitEnds(t)

Call(p) ==
    \/ Connect(p) \/ CreateServer(p) \/ ConnectSpecial(p) \/ Reconnect(p)
    \/ RequestReceive(p) \/ RequestSend(p) \/ RequestAccept(p) \/ Send(p) \/ ClearTimeout(p)
    \/ \E tp \in 1 .. MaxTime : SetTimeout(p, tp)
    \/ DestroyCall(p) \/ DestroyReturns(p) \/ Enqueue(p)
OtherSide(p) == DataArrives(p) \/ RoomAppears(p) \/ OtherCloses(p)

\* run_worker()
Work(t) == Locking(t) \/ Holding(t) \/ Waiting(t) \/ RunAction(t)

Next ==
    \/ \E t \in Worker : Work(t) \/ RequestStop(t)
    \/ \E p \in Peer : Call(p) \/ OtherSide(p)
    \/ Tick

\* A worker goes on: it is granted the mutex in the end, its callbacks return,
\* and epoll_wait() ends in time.  What is ready is reported in turn, so that a
\* connection does not wait for another.
Fairness ==
    /\ \A t \in Worker : SF_vars(Work(t))
    /\ \A p \in Peer : SF_vars(\E t \in Worker : FetchEvent(t, p))
    /\ WF_vars(Tick)

Spec == Init /\ [][Next]_vars /\ Fairness

-----------------------------------------------------------------------------

Event_ == {"IN", "OUT", "HUP"}
PeerOrNull == Peer \cup {Null}

\* The variables hold what their declarations in network_linux.h say; the
\* count of callbacks of a slot is that of the workers which are in one.
TypeOK ==
    /\ slots \in [Slot -> [ident : -1 .. Cardinality(Peer), fd : PeerOrNull,
                           flags : SUBSET Event_, cur : SUBSET Event_,
                           recv : PeerOrNull, send : PeerOrNull, acc : PeerOrNull,
                           tmo : PeerOrNull, at : 0 .. MaxTime, calls : Nat]]
    /\ size \in 0 .. Cardinality(Peer) /\ free \in 0 .. size
    /\ tmset \subseteq (1 .. MaxTime) \X Slot
    /\ role \in Worker \cup {Null} /\ mx \in Worker \cup {Null}
    /\ actions \in Seq(Peer) /\ stop \subseteq Worker /\ wakes \subseteq Worker
    /\ \A h \in Slot : slots[h].calls =
           Cardinality({t \in Worker : work[t].pc = "cb" /\ work[t].id = h})
    /\ interest \in [Peer -> SUBSET Event_] /\ level \subseteq Peer
    /\ life \in [Peer -> {"unborn", "live", "queued", "leaving", "gone"}]
    /\ handle \in [Peer -> Slot]
    /\ now \in 0 .. MaxTime /\ program \in Program
    /\ calls \in 0 .. program.requests /\ traffic \in 0 .. program.events

Exists(p) == life[p] \in {"live", "queued", "leaving"}

Unused == {h \in 0 .. size - 1 : ~InUse(h)}

\* The numbers on the free list are those of s; it ends in the next new one.
FreeListIs(s) ==
    /\ s \in Seq(Unused) /\ \A h \in Unused : \E i \in DOMAIN s : s[i] = h
    /\ \A i, j \in DOMAIN s : s[i] = s[j] => i = j
    /\ free = IF s = <<>> THEN size ELSE s[1]
    /\ \A i \in DOMAIN s : slots[s[i]].ident = IF i = Len(s) THEN size ELSE s[i + 1]

\* No two connections share a number, and the numbers that are not in use are
\* all on the free list, once each (alloc_socket_lk, free_socket_lk): a list
\* broken by any order of connect, accept and destroy would hand out a
\* connection that somebody else still uses.
FreeListSound ==
    /\ \E s \in [1 .. Cardinality(Unused) -> Unused] : FreeListIs(s)
    /\ \A p \in Peer : Exists(p) => InUse(handle[p]) /\ slots[handle[p]].fd = p
    /\ Cardinality({p \in Peer : Exists(p)}) + Cardinality(Unused) = size

\* A timeout in the set belongs to the connection that set it last, at the
\* time it asked for: none is left of a connection destroyed, to go off for
\* the next one with its number (set_timeout, clear_timeout, destroy).
TimersOwned ==
    \A e \in tmset : /\ InUse(e[2]) /\ slots[e[2]].at = e[1]
                     /\ slots[e[2]].tmo # Null /\ slots[e[2]].tmo = slots[e[2]].fd

\* No callback of a peer runs, or starts, once destroy() has returned, though
\* workers hold events of it that they fetched before (destroy, line 306, and
\* process_event_lk).
GoneIsSilent ==
    \A t \in Worker : work[t].pc = "cb" => Exists(work[t].peer)

\* Data for a peer that waits for them, or the end of them, are delivered: no
\* request is lost between the flags, their cached copy and what epoll has
\* armed.  (The end of a pipe is not: it is no EPOLLIN.)
Wanted(p) == /\ Exists(p) /\ slots[handle[p]].recv = p
             /\ "IN" \in slots[handle[p]].flags /\ "IN" \in Level(p)
WantedIsServed == \A p \in Peer : Wanted(p) ~> (~Wanted(p) \/ stop # {})

\* A timeout that has passed is served, also when it is set while the worker
\* with the role waits for a later one, or for none: once no events come any
\* more.  The loop over the timeouts runs only when a wait ends without an
\* event (network_linux.cpp:128), so that while events go on it need not run.
NoEvents == \A p \in Peer : Ready(p) = {}
Due(h) == \E e \in tmset : e[2] = h /\ e[1] <= now
Served(h) == Due(h) ~> (~Due(h) \/ stop # {})
TimersServed == <>[]NoEvents => \A h \in Slot : Served(h)

\* The same of a program with steady traffic.
TimersServedAlways == \A h \in Slot : Served(h)

\* A worker gives the mutex back, whatever event it fetched.
MutexReturned == \A t \in Worker : mx = t ~> mx # t

\* What a callback enqueues is run (network.h:205 promises that), whoever has
\* the role of waiting at that time, and although the worker it is enqueued to
\* may be in a callback itself.
EnqueuedInside(p) == life[p] = "queued" /\ \E t \in Worker : work[t].peer = p
ActionsRun == \A p \in Peer : EnqueuedInside(p) ~> (life[p] = "gone" \/ stop # {})
=============================================================================
