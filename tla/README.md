# Formal models of iotivity-lite

This directory holds TLA+ models of the core of iotivity-lite, an OCF stack in C: the
modules, the TLC configurations that check them on small instances, and proofs checked
by TLAPS. Paths are relative to the repository's root; the lines each definition models
are listed in `PROJECT.json` under `map`.

1. [The system and its parts](#1-the-system-and-its-parts)
2. [What can go wrong](#2-what-can-go-wrong)
3. [The modules](#3-the-modules)
4. [Runs](#4-runs)
5. [Where the code and its documentation disagree](#5-where-the-code-and-its-documentation-disagree)
6. [Proofs](#6-proofs)
7. [Abstractions and limits](#7-abstractions-and-limits)
8. [Plan](#8-plan)
9. [Running the checks](#9-running-the-checks)

## 1. The system and its parts

The stack is a set of protothreads ("processes", `util/oc_process.c`) that one thread, the
main loop, runs by taking events from a single queue. Around that thread are the receiving
threads of the port. Nearly everything the stack does happens in the handler of an event
or in a delayed callback, and most of that code may call the application, which may call
back into the stack. Two kinds of difficulty follow: a small amount of real concurrency
where the receiving threads meet the main loop, and a large amount of re-entrancy on the
main thread.

| Part | State it keeps | Operations | Interacts with |
|---|---|---|---|
| Event queue (`util/oc_process.c`) | ring `g_events`, `g_fevent`, `g_nevents`, the size of the array | post (the array doubles when full, or refuses), deliver the oldest, drop by process and filter | every process posts; `oc_tls.c` drops the events of a closed peer |
| Processes (`util/oc_process.c`) | process list, `needspoll`, `state`, `g_poll_requested` | start, exit, poll, run | started and stopped by `oc_ri.c`; polled from other threads |
| Main loop (`api/oc_main.c`, `port/common/oc_poll_loop.c`, applications) | the time of the next event, an eventfd or a condition variable | poll until idle, sleep, wake | woken by `_oc_signal_event_loop` |
| Network events (`api/oc_network_events.c`, `api/oc_message_buffer.c`) | list `g_network_events` under a mutex | receive (other threads), take over (main loop), pass on | adapters, event queue, TLS, CoAP engine |
| Event timers (`util/oc_etimer.c`) | `g_timerlist`, `g_next_expiration` | set, stop, restart, expire | posts TIMER events to the owner |
| Delayed callbacks (`api/oc_event_callback.c`) | `g_timed_callbacks`, `g_observe_callbacks`, the callback that is running and what was asked about it | add, remove, remove by filter, reset, walk over the expired ones | every component with a timeout |
| Client requests (`api/client/oc_client_cb.c`, `api/oc_client_api.c`) | `g_client_cbs`, two delayed callbacks for each | request, observe, stop, multicast, answer, time out, free | transactions, engine, delayed callbacks, the application's handlers |
| Transactions (`messaging/coap/transactions.c`) | `transactions_list` with counter and timer | new, send, retransmit, give up, clear, free by endpoint | engine, client requests, observers, TLS |
| CoAP engine (`messaging/coap/engine.c`) | history of request IDs, the static packets of the message at hand | handle a request, a response, an acknowledgement, a reset | everything above |
| (D)TLS (`security/oc_tls.c`) | peers with send and receive queues, timers | handshake, read, write, close, free a peer | closes what is open with a peer |
| Observations, separate responses (`messaging/coap/observe.c`, `separate.c`) | observers, separate stores, counters | register, notify, remove | transactions, delayed callbacks, resources |
| Block-wise transfer (`api/oc_blockwise.c`) | request and response buffers with offsets and reference counts | allocate, fill, dispatch, free | engine, client requests |
| Provisioning status (`security/oc_pstat.c`, `oc_doxm.c`) | device state, owner, a reset in steps | transitions, reset | storage, TLS, every secured resource |
| Access control, credentials, OSCORE | lists of entries | check, add, remove, encrypt | engine, TLS, storage |
| Cloud and provisioning clients (`api/cloud`, `api/plgd`) | a context with status flags, endpoints, retry counters | register, login, refresh, deregister, provision | client requests, delayed callbacks, storage |
| TCP sessions (`port/linux/tcpadapter.c`) | session lists, waiting sessions | connect, retry, close | network thread and main loop |

What makes each part correct, in a sentence:

- *Event queue*: it is a first-in first-out queue; dropping removes exactly what the filter
  selects; an event is refused only when a queue of fixed size is full.
- *Main loop and hand-over*: a message that reached the process reaches the engine, once and
  in order, and the loop does not sleep while it waits; no timer is slept over.
- *Delayed callbacks*: what was removed does not run, what was not removed runs, no freed block
  is touched, and the walk over the callbacks ends.
- *Client requests and transactions*: a handler is called at most once for a request, never
  after its memory was freed, and a request ends; one that nothing was heard of is still
  being retransmitted.
- *Observations*: whoever observes may read and is told of every change, the counters agree
  with the list, nothing refers to a deleted resource, and a client that is gone is removed.
- *Block-wise transfer*: a payload arrives in order and whole or not at all, answers are not
  mixed, and no buffer stays behind or points to a freed callback.
- *Provisioning status*: nothing of an earlier owner survives a reset, wherever the program was
  killed; a device that operates has an owner; a reset that was asked for is carried out.
- *Cloud client*: a registered device always has the next step scheduled until it is signed in,
  keeps the tokens it needs across a crash, and a deregistration ends.

## 2. What can go wrong

`PROJECT.json` lists the hazards at their lines. In groups:

- **The ring at its limits** (`util/oc_process.c:415-468`). Doubling a ring that wraps around,
  removing in the middle of it, and scanning it while it shrinks are index arithmetic that
  short tests do not reach. `OcEventQueue`.
- **Threads against the main loop** (`util/oc_process.c:272-282, 499-500`). The two flags of a
  poll are set in one order and cleared in the other; the loop decides to sleep on a value that
  was read before the last event was handled. `OcMainLoop`.
- **Callbacks that change the list they are called from** (`api/oc_event_callback.c:118-229`).
  `OcEventCallback`.
- **Many ends of one request** (`messaging/coap/transactions.c:171-200`,
  `api/client/oc_client_cb.c:199-326`). Answer, retransmission, timeout, lifetime and the end of
  the session race, and the handler they call may issue the next request. `OcClient`.
- **Observers that go away** (`messaging/coap/observe.c`, `api/oc_ri.c:590-610, 960-990`): by
  cancellation, RST, time-out, session, deletion of the resource and change of the device's state,
  each of them in the middle of a notification of others. `OcObserve`.
- **Blocks that come twice, late or not at all** (`messaging/coap/engine.c:311-456, 878-1066`).
  `OcBlockwise`.
- **A reset in steps** (`security/oc_pstat.c:273-372`): four saves, a delay, sessions closed by a
  queued event, and the program killed between any two. `OcPstat`.
- **Retries, restarts and sessions that close in the middle of an operation**
  (`api/cloud/oc_cloud_manager.c`, `oc_cloud.c`): a handler called while its session is closed may
  schedule what the caller has just removed. `OcCloud`.

Five of the listed hazards have a note in the place of a property, because no property of the
models would catch them or the code has them and no document promises otherwise: the upload that
finds the buffer of another one of its key, the copy of the request of the last block, a message
passed on to a queue that is full, the loop of the applications that sleeps without asking, and the
polling callback of a deleted resource. Three are covered in part: a handler that issues a
confirmable request while a session is closed, a delayed reset that was not saved and that a crash
forgets, and the observers behind one whose transaction is refused are not. Section 5 describes
them.

## 3. The modules

### EventFifo and OcEventQueue

`EventFifo` is the abstract specification: one queue, `Post`, `Refuse`, `Take` and an
indivisible `Drop`. `OcEventQueue` is the ring of `oc_process.c`:

| Variable | Code |
|---|---|
| `events`, `numevents` | `g_events` and the length of the array, `OC_PROCESS_NUMEVENTS` |
| `fevent`, `nevents` | `g_fevent`, `g_nevents` |
| `drop` | the parameters, the index and the result of a running `oc_process_drop` |
| `taken`, `ret` | the event `do_event` took, the result of the last post |

`Post`, `PostGrow` and `PostFull` are the three ways through `oc_process_post`; `DoEvent` is
the part of `do_event` that takes the event. `oc_process_drop` calls a filter for every
event, so it is a sequence of `DropStart`, `DropKeep`, `DropRemove` and `DropEnd`; the
refinement mapping shows the abstract queue one indivisible `Drop`, at its start: while the scan
runs, the abstract queue is what the drop will leave (`Kept`), and its result what the drop
will return.

### OcList

`Without(list, S)` is what a linked list of `util/oc_list.c` is once `oc_list_remove` was called
for each of its items that are in `S`. It is a recursive function over the positions of the list,
so that `OcListProofs` can reason about it. The models of the lists the code removes from
(callbacks, transactions, observers) use it, and so do the filters of the event queue.

### OcMainLoop

The receiving threads, the main thread and the clock. A receiver goes through
`oc_network_receive_event` in four steps (add to the list under the mutex, set `needspoll`, set
`g_poll_requested`, signal); the main thread through `oc_main_poll_v1`, `oc_process_run`,
`do_poll`, the two poll handlers, `do_event` and the loop around it. Steps are as fine as the
state they share: a list under a mutex is one step, each atomic flag is one.

`Loops` chooses among the loops of the repository: `"eventfd"` is `port/common/oc_poll_loop.c`
with `port/common/posix/oc_loop_event.c` (a semaphore eventfd: every read takes one); `"condvar"`
is the loop of `apps/cloud_proxy.c:1936-1959`, which asks `oc_main_needs_poll` with the mutex
held; `"condvar_unchecked"` is the loop of `apps/simpleserver.c:286-306`, which does not.

Handling an event may set or stop a timer (`Deliver`), which is what makes the sleeping time
stale. Timers carry real expiry times here, and the clock is part of the model.

### OcEventCallback

`g_timed_callbacks` and `g_observe_callbacks` are sequences of memory blocks, `cell` says what
is in a block, `pending` which of them have an armed timer. `current`, `deleteFlag` and
`onDelete` are the three `g_currently_processed_event_*` variables. The operations of the
application are enabled between events and while a callback runs; `Invoke`, `ReturnContinue`,
`ReturnDone` and `LoopEnd` are the walk of `event_callbacks_poll_timers`. The history variables
`cancelled` and `ran` record what was asked and what ran. Expiry is in two
steps, as in the code: the timer leaves its list and a TIMER event is posted
(`TimerExpires`), and the event is delivered (`TimerEvent`).

### OcClient

Requests, client callbacks, transactions and the closing of a DTLS session, with a network that
may answer any request at any time, repeatedly or never.

| Variable | Code |
|---|---|
| `req`, `mid` | the client callback's fields: kind, QoS, endpoint, timeout; its message ID |
| `cbs` | `g_client_cbs`: the requests in the list, whose order is that of their IDs |
| `transactions` | `transactions_list`; `armed` is `!oc_etimer_expired(&t->retrans_timer)` |
| `lifetime`, `timeout` | the delayed callbacks `oc_client_cb_remove_async` and `oc_client_cb_remove_with_notify_timeout_async` |
| `timerEvent` | a TIMER event for `g_coap_engine` is in the queue |
| `peers` | the endpoints in `g_tls_peers` |
| `pc` | the walk that is going on, with the local variables `t`, `next` and `removed` |

Actions that call a handler have a parameter `new`: no request, or the one the handler issues.
The walks over the lists (`coap_check_transactions`, `coap_free_transactions_by_endpoint`,
`oc_ri_free_client_cbs_by_endpoint_v1`) are sequences of actions, one for each element, because a
handler runs between two elements; the close of a session may be nested in a retransmission
(`CheckTimeoutSecured`), and `ResumedAt` is the test with which `coap_check_transactions`
finds out. `Counted` keeps the width of `retrans_counter`: a secured transaction that is given up
without a session stays in the list (`CheckTimeoutNoPeer`), and its counter wraps.

### OcObserve

`observers` is the list of `observe.c`, in order; `num_observers` the counter each resource keeps
of them; `delayed` the delayed notifications and the polling of periodic resources;
`transactions` and what is in flight the confirmable notifications, by message ID. Requests
(`Register`, `Deregister`), changes by the application (`Change`, `ChangeDelayed`,
`DeleteResource`), timers (`NotifyDelayed`, `Poll`, `Timeout`), what clients answer
(`Acknowledge`, `Reject`) or stop answering (`Vanish`) and provisioning (`EnterRFPRO`,
`ProvisionAcl`, `EnterRFNOP`, `Reset`) interleave freely. `Iterate` is
`coap_iterate_observers`: a notification whose transaction is refused ends the walk. `Poll` and `CreateResource` keep clear of the one behaviour that is undefined in C: the polling
callback of a deleted resource stays behind and runs on freed memory (section 5). The observe counter keeps its width (`MaxValue`), and a new observer may start at any value, since
the global counter is advanced by resources outside the model.

### OcBlockwise

A client and a server, each with its request and response buffers, and a network that loses,
delays, reorders and repeats. A block is its number and the request or the call of the handler
that it belongs to, so a payload made of blocks of two origins shows. Any request may be issued at
any time, also one with the key (endpoint, method, resource, query) of another that is under way: the
server finds its buffers by the key and mixes the blocks of the two. `shared` records the keys this
has happened to. `Block1`, `Block2` and
`Regular` are the server's ways through `coap_receive_method_payload`; `ReceiveContinue`,
`ReceiveAnswer`, `ReceiveAck` and `ReceiveReset` the client's through
`coap_receive_request_with_code`; `Invoke` calls the resource's handler, which answers with a
payload or an error. `RequestBufferExpires`, `ResponseBufferExpires`, `GiveUp` and
`ExchangeEnds` are the timers. Two facts about message IDs matter and are kept: an
acknowledgement and a RST are matched by message ID alone, and the client callback keeps the ID
of the first block of an upload.

### OcPstat

The security resources `doxm`, `pstat`, `cred` and `acl2` in memory (`svr`) and as last saved
(`stored`), the sessions, and the program, which may be killed (`Crash`) after any save, shut
down in order (`Shutdown`) and started (`StartOwned`, `StartUnowned`). A reset is a sequence of
steps, one per save of `oc_pstat_handle_state`; the delayed reset is a timer. Every UUID and
credential carries the number of the onboarding during which it was written, so what an earlier
owner left behind can be seen. Requests check the access rights as `oc_sec_check_acl` does for the
owner's resources in each state (`MayWrite`). `valid_transition` accepts every transition out of
RESET, as `security/oc_pstat.c:141-159` does: the cases that the code names there only break out of
the switch. So a client may leave RESET for RFPRO, RFNOP or SRESET, if `pstat_check_state` is
satisfied, while a delayed reset is still pending.

A delayed reset is asked for in three ways: a request to pstat, which saves the state RESET
(`PostPstatReset`); the onboarding connection closed too early; and `oc_reset_device_v1` without
`force`, by the application or the maintenance resource, in any state (`ResetDeviceDelayed`), which
saves nothing. A program that ends with an unsaved one forgets it and loads the state of before,
which need not fit what was written in RESET meanwhile; `lost` records that, and
`OperationalIsOwned` excepts it until the state is changed.

### OcCloud

The context of one device's cloud client. Closing a TLS session calls the handlers of the
requests under way before it returns, in the middle of whatever operation has closed it, and such
a handler may clear the context or close another session. The operations are therefore written as
functions from a state of the client to a state, named after the C functions, and an action
applies one of them to `ctx`. `Close` is where the nesting happens. An operation that a handler
calls has the closing of a session as a parameter, and `Closing` puts three levels into one
another: on OC_CONNECTION_CLOSED only the handlers of a deregistration close a session, that of the
endpoint, and to close it once more takes one of them that has signed out in between and another one,
so three levels are enough for up to four deregistrations under way at once.
`Close` tells the first request of the session again and again, as the loop of
`api/client/oc_client_cb.c:314-325` does, which starts over at the head of the list: a request that
a handler sends to the same server meanwhile is told too. Only the handler of the sign-in of a deregistration sends one, hence the number of turns. TLC has confirmed on the instance of `cloud`, with an assertion in each place, that no
request of the session is left after the turns and that a fourth level is never reached. The manager hears the events of its session
(`hears`) from its start to the first line of `oc_cloud_manager_stop_v1`, so the session that
stopping closes does not restart it. Delayed callbacks are a list in the order they were set:
those with delay 0 run in that order, the others once they have expired. `stored` is what the
last dump has saved, and `Crash` starts again from it. Tokens are told apart by what the code
asks of them: permanent or expiring, and short enough for the query of a deregistration or not.

### MC modules and configurations

Each `MC` module extends the module of its name and adds the sets of requests, clients and calls
of its instance. Definitions that a comment calls a mutation, a mutant or wrong
are faulty variants of the definition that follows them; replacing
the one by the other must break the property `PROJECT.json` names, which shows that the
property depends on that line of the code.

## 4. Runs

Sizes are distinct states of TLC on two workers.

| Run | Instance | States | Shows |
|---|---|---|---|
| `event_queue` | 2 processes, 1 datum, array of 3, doubling to 6 and then full | 235 744 | `QueueInv` (types, live slots, scan of a drop), `RingIsFifo`, refinement `ImplementsFifo` |
| `main_loop` | 2 receivers with 1 message, 2 timers, clock to 3; the loop on an eventfd and the one that asks first | 153 724 | `TypeOK`, `NoLostWakeup`, `NoOversleep`, `MessagesConserved`, `MessagesAreHandled`, `TimersFire` |
| `delayed_callbacks` | 3 blocks, 1 function, 2 contexts, 1 resource | 16 111 | `BlocksAreSound`, `ExpiredIsAnnounced`, `OncePerCheck`, `CancelledNeverRuns`, `EventuallyRuns` |
| `client_requests` | 2 requests of 10 kinds to a plain and a DTLS peer, timeouts shorter and longer than the exchange, 2 message IDs, handlers that ask again | 342 107 | `TypeOK`, `HandlerAtMostOnce`, `NoDanglingTimer`, `ShortTimeoutIsNotified`, `WalkIsSafe`, `StillTrying`, `ExchangesEnd` |
| `client_timeout` | requests with a timeout, to the same peers | - | violation of `TimeoutIsNotified` |
| `observations` | 2 clients, 2 resources (one polled, one deleted and created again), 2 observers, 1 transaction | 294 432 | `ObserversAreSound` (types, counters, one observation each), `AccessIsRevoked`, `EveryObserverIsNotified`, `GoneClientIsRemoved` |
| `observations_periodic` | 2 clients of a polled resource | - | violation of `PeriodicIsPolled` |
| `blockwise` | 2 requests out of 3 kinds, of which two have one key and may overlap, up to 2 blocks up and 2 down, 5 message IDs, 1 repeated message | 1 448 818 | `PayloadsAreAssembled`, `UndisturbedIsExact`, `BuffersAreSound`, `NothingIsKept` |
| `ownership` | 2 clients, killed and restarted at any time, 3 onboardings told apart | 403 339 | `TypeOK`, `OldOwnerIsForgotten`, `OperationalIsOwned`, `DocIsExclusive`, `EntersRFOTMUnowned`, `ResetCompletes` |
| `ownership_restart` | the same | - | violation of `ResetSurvivesRestart` |
| `cloud` | 2 servers, 2 attempts, 2 calls, 2 faults | 363 682 | `TypeOK`, `SignsInAgain`, `KeepsTrying`, `SavedOrPending`, `DeregistrationEnds` |
| `cloud_stop` | the same | - | violation of `StoppedIsStopped` |

**Why the bounds are enough to be interesting.** A ring of three slots is the smallest in which
events wrap around with at least one on either side of the end and one between; doubling it
leaves room for a second wrap. Three blocks of memory are the smallest number with a callback
before and one after the one that is running, and with all three in use `Add` meets an empty
pool. Two receivers are enough for one of them to be overtaken at each of its steps by the
other and by the main thread, and the proofs cover any number. Two transmissions
(`MaxRetransmit = 2`) give a first send, a retransmission and a give-up; `CounterSize = 4` lets
the counter of a stranded transaction wrap. Two requests give the walk over the list a
transaction it has remembered and one it looks at; two message IDs let an observation be made and
ended, or two requests be under way. One transaction for two observers makes the pool refuse the second
notification, and a counter that wraps after 3 reaches its start value. Two requests with one key
meet each other's buffers, one after the other or at the same time; two blocks have one that is
first and one that is last, and the proofs cover any number; and one repeated message is enough to find every buffer in its place or already gone. Three numbers
for the onboardings tell the present, the previous and an earlier one apart. Two faults
exhaust the attempts with one server, so that the next one is selected and the manager restarts;
two calls put an application's operation into the middle of another one's consequences. `cloud`
was also run once with three calls (5.4 million states) and with three faults (1.1 million), for its
invariants.

**Deadlock.** The runs of `OcMainLoop`, `OcClient`, `OcBlockwise` and `OcCloud` have
`CHECK_DEADLOCK FALSE`: when all messages are handled and the clock has reached its bound, all
requests have ended, or the calls and faults of the bounds are used up, these systems really
rest. The others check for deadlock.

**Fairness.**
- `OcMainLoop.FairSpec`: weak fairness of the main thread, and of a receiver once it has added a
  message: threads are scheduled. Receivers need not receive, and time need not pass, so
  `MessagesAreHandled` does not lean on timers. `TimedSpec` adds that time passes, for `TimersFire`.
- `OcEventCallback.FairSpec`: callbacks return and the loop goes on (weak fairness of the walk and
  of the delivery of the event), and an armed timer is seen to expire in the end. That last one is
  strong fairness, because the etimer process runs only between events: `oc_process_run` polls it
  before every event (`api/oc_main.c:293-295`), and a timer that is due stays due.
- `OcClient.FairSpec`: the same for the walks, the delayed callbacks and the retransmission
  timers; and a TIMER event is handled though sessions open and close again and again (strong
  fairness of `CheckStart`), because the event queue is a FIFO and the event is in it. Nothing is assumed of the network: `ExchangesEnd` holds if no answer ever
  comes.
- `OcObserve.FairSpec`: the timers of the transactions and of the polling expire.
- `OcBlockwise.FairSpec`: the timers of buffers, callbacks and transactions expire; nothing is
  assumed of the network, so `NothingIsKept` holds if every message is lost.
- `OcPstat.FairSpec`: the main thread goes on with a reset, timers expire, queued events are
  handled, and the device is switched on again. `ResetCompletes` speaks of behaviours in which the
  program does not end.
- `OcCloud.FairSpec`: due callbacks run; handshakes are completed, and a request of a
  deregistration is answered or times out (`oc_do_request` arms a timeout for each).

**What the properties say.** Every property has a comment in its module. The ones that take the
longest to violate: `NoLostWakeup` relates the list of one thread, the two flags, the eventfd
and the state of the main thread; `NoOversleep` says that a value read before the last event
is still good when it is slept on; `ExpiredIsAnnounced` says that no mix of expiries, removals and
re-arming inside callbacks leaves an expired callback without an event on its way; `WalkIsSafe`
says that the length test of `coap_check_transactions` notices every transaction that was freed
under it; `StillTrying` says that a request that is waiting and of which nothing was heard is
still in the list of transactions; `OldOwnerIsForgotten` takes an onboarding, a reset, a kill
between two of its saves and a start to violate; `KeepsTrying` says that of the many ways through
retries, restarts and nested handlers none drops the ball; `UndisturbedIsExact` says that
neither reordering, nor requests of other keys that overlap, nor earlier ones of the same key can
mix the answers of two calls; `OperationalIsOwned` has to hold for a device that left RESET with
a reset still pending.

## 5. Where the code and its documentation disagree

Four runs expect a violation; each shows what the code does against a sentence of the
repository.

1. **Stopping the cloud manager** (`cloud_stop`, `api/cloud/oc_cloud.c:516-517`). The manager's
   delayed callbacks are removed before the session is closed; closing it calls the handler of a
   request under way, which schedules a retry, and the stopped manager goes on.
   `include/oc_cloud.h:319-320`: "Stop cloud registration process, remove related pending delayed
   callbacks and clean-up data."
2. **A reset that waits for its delay** (`ownership_restart`, `security/oc_pstat.c:744-775`). The
   state RESET is saved, the delayed callback is not: a program that ends within the delay comes
   back in RESET, owned, and nothing brings it out; and when the application or the maintenance
   resource asked for the reset, it is not saved either, and the device comes back as it was. `include/oc_api.h:778-781`: "The device will
   be placed in the 'Ready For Ownership Transfer Mode'".
3. **A periodic resource with two observers** (`observations_periodic`, `api/oc_ri.c:970`). When one
   client cancels, the polling ends for the other. `include/oc_api.h:1198-1199`: "The resource will
   periodically notify observing clients of is property values."
4. **A timeout longer than the exchange** (`client_timeout`, `api/oc_client_api.c:158-166`). The
   client callback is freed when the lifetime of the exchange is over, together with the delayed
   notification of the timeout, and the handler is never called. `include/oc_api.h:2057-2058`: "If a
   response is not received before @p timeout_seconds expires then the response handler is invoked
   with OC_REQUEST_TIMEOUT code". For the shorter ones `client_requests` checks that it is
   (`ShortTimeoutIsNotified`).

Others were met while modelling, and the models have these behaviours, but no run is kept for them:

- *A filter that matches the running delayed callback and a later one*
  (`api/oc_event_callback.c:146`): the flag that the running one is to be deleted is reset by the
  next match. The comment at lines 154-156 says "we set up the flag to remove it, and when it's
  over, we've removed it".
- *A loop that sleeps without asking* (`apps/simpleserver.c:291-302`, `"condvar_unchecked"` in
  `OcMainLoop`): the signal of a message that arrives between `oc_main_poll_v1` and the wait is
  lost, and the message waits for the next timer or message.
- *Stopping a multicast* (`api/client/oc_client_cb.c:539-543`): the function that should free the
  callback passes over multicasts (line 293), against `include/oc_api.h:2363`.
- *A copy of the request of the last block* (`messaging/coap/engine.c:406-414`): "UDP transfer can
  duplicate messages and we want to avoid terminate BWT, so we drop the message", which works
  while the response buffer exists. After the last block it is freed, the copy is answered with a
  RST, and a client that has not got the block yet hands its application success without a payload.
- *All servers should be used once* when a registration is retried
  (`api/cloud/oc_cloud_context_internal.h:65-66`). The cloud answers 5.03 until the attempts are
  used up; the next server is selected and a reconnect scheduled. `oc_cloud_manager_restart` finds
  the session connected, closes it and leaves the rest to the session event
  (`api/cloud/oc_cloud.c:447-452`), which restarts the manager of a registered device only
  (line 364). Nothing is scheduled any more, and the second server is never tried; `OcCloud`
  reaches this in 13 states.
- *oc_cloud_deregister* signs in when the token is too long, says `include/oc_cloud.h`; it
  passes `sync = true` to `oc_cloud_do_deregister`, which then does not.

Behaviours that no document speaks about, and for which no property is stated; unless it says
otherwise, the models have them:

- *Delayed callbacks*: a callback that resets itself twice while it runs is pending twice
  afterwards (`api/oc_server_api.c:263`), because the first removal only flags the running one.
- *Client requests*: a handler that issues a request while a session is being closed hides a
  removal from the length test of `coap_check_transactions`, which is why `client_requests`
  has handlers that issue no confirmable request; one that asks the same peer again on every OC_CONNECTION_CLOSED keeps
  the walk of `api/client/oc_client_cb.c:322` going for as long as it asks; `oc_stop_observe` for a
  LOW_QOS observation whose answer is lost leaves the callback without a delayed callback
  (`api/oc_client_api.c:643`); and the end of the retransmissions of a later block of an upload is
  not told, since the callback keeps the message ID of the first.
- *Observations*: deleting a periodic resource leaves its polling callback behind
  (`api/oc_ri.c:548`; `OcObserve` does not run it); a RST is matched with the last message ID only
  (`messaging/coap/observe.c:446`); a registration for which no observer is left in the pool is
  still answered as one (`api/oc_ri.c:934`); a change that falls outside normal operation is not
  notified later (`observe.c:1139`).
- *Block-wise transfer*: requests of one client with the same key that overlap, or follow one that
  was given up, share the buffers of the server, which mixes their blocks
  (`messaging/coap/engine.c:324, 558`).
- *Provisioning*: a request of the onboarding connection that was queued before a reset is handled
  after it and before the sessions are closed (`security/oc_tls.c:494`), and leaves RFOTM half
  owned; an unsaved delayed reset that a crash forgets may leave a device provisioned or in normal
  operation without an owner of acl2 (`ResetDeviceDelayed`, `PostAclRowner`, `Crash`, `StartOwned`;
  `api/oc_mnt.c:75`); a key pair that cannot be generated stops the reset in the middle (`oc_pstat.c:319`).
- *Cloud*: `start_manager` empties the endpoint, so that a session connected meanwhile is not
  noted and a ping that finds none schedules nothing further (`api/cloud/oc_cloud.c:339`);
  `KeepsTrying` therefore speaks of devices that are not signed in. It also leaves `cloud_ep_state`
  as it was: when the session closes while the endpoint is empty the manager does not hear of it,
  and once the endpoint is set again it takes the session for connected. A restart then closes a
  session that is not there and schedules nothing (`oc_cloud.c:447-452`). `KeepsTrying` excepts
  these states (`TakenForConnected`): the attempt to prove it without the exception showed that it
  fails, in a behaviour of 74 states with seven faults and four calls, beyond the bounds of the run.
- *Shutdown*: a receiving thread past the test of `oc_process_is_running` may add its message after
  the processes were stopped (`api/oc_network_events.c:152`; not in `OcMainLoop`).

## 6. Proofs

TLAPS checks the eight proof modules completely; nothing is assumed beyond the named assumptions
on the constants and, in `WalksAreSafe` and `WakeupNeverLost`, the hypothesis they state. Every
bound (requests, blocks, messages, retransmissions, sizes) is a constant, so the results hold
for all of its values. Before it was proved, each inductive invariant was checked by TLC on the
instance of the component's run.

### OcListProofs

What the other modules need of lists. `SetInduction` is induction over the numbers up to `N` for a
*set* of numbers: the library's induction theorems have an operator as parameter, which
cannot be instantiated here, but a set of numbers without a least counterexample is everything
(`LeastOf`, from the well-foundedness of `<`). `WalkExists` uses it to show that a function defined
by steps from 0 to `N` exists, which is what is needed of a recursive function before its
equation may be used. From these, what `Without` returns: the items that are left, in their order
(`WithoutSelects`), which they are (`WithoutItems`), that distinct ones stay so
(`WithoutDistinct`), how many of a kind there are (`WithoutLeaves`), and how it distributes
over `Append`, `\o` and the head of a list.

### OcEventProofs

The event ring and the delayed callbacks; what both modules would call `Spec`, `vars` and so on
has names with `Queue` in `OcEventQueue`, so that one module extends both.

*The ring.* Assumption `QueueAssumption`: the array has at least one slot. The inductive invariant,
which `event_queue` checks too, is `QueueInv == QueueTypeOK /\ LiveSlotsHoldEvents /\
DropScanIsComplete`. The type invariant alone is not inductive: that the event taken by
`do_event` is an event needs the live slots to hold events, and that a removal keeps this needs
the scan's index to be inside the queue. `ModWrap` and `IndexForm` reduce the arithmetic modulo
the size to a case distinction at the end of the array, `DistinctSlots` says that two live
positions have two slots, and `ClosedGapShifts` is the lemma about the three-part shift of
`oc_process_drop`.

- `QueueInvariant`: `QueueSpec => []QueueInv`; `QueueTypeCorrect`, `QueueLiveSlots` and
  `QueueDropComplete` state its parts.
- `QueueIsFifo`: every step changes the waiting events, read off the ring in order, as a queue
  does, for every size and any number of doublings.
- `QueueImplementsFifo`: `QueueSpec => ImplementsFifo`, the refinement of `EventFifo`. The steps of
  `QueueIsFifo` become steps of the abstract queue; the loop of a drop is its `Drop` at the
  start and stuttering afterwards. That a removal stutters is `RemoveKeepsKept` (cutting out a
  selected event does not change what the filter leaves), that the end does is `EndKeepsAll`,
  where `DropScanIsComplete` is used: an event the scan had overlooked would reappear in the
  abstract queue. That a queue of fixed size refuses exactly when it is full needs one more
  invariant, `FixedSize`.

*Delayed callbacks.* Assumption `CallbackAssumption`: the null pointer is no block and no callback,
"periodic" is no trigger, and there is room for one TIMER event. The number of blocks is not
bounded.

The invariant `IInv` says of the lists that they are disjoint, without repetitions and hold exactly
the allocated blocks (`ListsInv`); of the callback that runs that it is listed and not armed
(`CurrentInv`); that the walk over the first list has left nothing expired behind when the
second is walked (`WalkedInv`); that a callback that has run in this check is armed again or
gone (`RanInv`); and that a removal spares only the callback that runs, and flags it
(`CancelledInv`).

- `BlocksStaySound`: `Spec => []BlocksAreSound`, whatever a callback adds, removes or resets while
  the list it was taken from is being walked.
- `NoExpiryIsLost`: `Spec => []ExpiredIsAnnounced`. The end of a check is where it needs `WalkedInv`.
- `InvokedOncePerCheck`: `Spec => OncePerCheck`, from `RanInv`: the walk starts over after every
  callback and picks expired ones only.
- `RemovedIsNotInvoked`: `Spec => CancelledNeverRuns`, from `CancelledInv`.

### OcMainLoopProofs

Assumption `LoopAssumption`: bounds are natural numbers, those of the clock and the intervals
positive, the timers finitely many, and the loops among the three.

- `WakeupNeverLost`: for a loop that sleeps on an eventfd or asks before it sleeps
  (`CheckedLoop`), `Spec => []NoLostWakeup`, for any set of receivers and any number of messages.
  The invariant follows a chain: a message in the list has its process marked, or a
  receiver is about to mark it, or the main thread is about to take the list
  (`MessageIsMarked`); a mark is accompanied by the request to poll, or by a receiver about to
  make it, or by a `do_poll` that has not passed the process yet (`MarkIsRequested`); and a request
  does not meet a sleeping main thread unless a signal is there or on its way
  (`RequestIsSignalled`). The order of the stores in `oc_process_poll`, and of the clears in
  `do_poll`, is what makes each link inductive.
- `NeverSleepsPastTimer`: `Spec => []NoOversleep`, for any set of timers and intervals and all
  three loops. The invariant: `g_next_expiration` is never later than a timer, and the value
  `oc_main_poll_v1` holds is not either, unless it is about to be read again (`ReadAgain`), which
  it is because setting a timer requests a poll. `MinIsLeast` and `UpdatedTimeIsInTime` are the
  lemmas about `etimer_update_time`.
- `MainLoopTypeCorrect`: `Spec => []TypeOK`, for all loops; with the types, that
  `g_next_expiration` is a time exactly as long as a timer is set.
- `HandOverConserves`: `Spec => []MessagesConserved`: what the engine has handled, what waits in
  the queue for the engine, what waits there for the network process and what is in the list are,
  one behind the other, the messages that came: none is lost, repeated or overtaken on its way
  through the list that the threads share and two deliveries of the queue. The property is inductive with the types;
  the steps are equations between concatenations of filtered lists (`WithoutConcat`,
  `WithoutHead`).

### OcClientProofs

Assumption `ClientAssumption`: what the kinds of requests may look like (multicasts are not
confirmable, only unicasts have a timeout), natural bounds, and a counter that can hold the number
of retransmissions.

- `HandlerIsCalledAtMostOnce`: `Spec => []HandlerAtMostOnce`, for any peers, any requests, any
  retransmission limit, and handlers that issue requests at any point of a walk.
- `NoTimerDangles`: `Spec => []NoDanglingTimer`.

The invariant `ClientInv` adds two facts to the two properties: a callback in the list has not been
told yet (`ListedIsWaiting`), and a handler is not called before its request exists
(`NotCalledBefore`), which carries the first over to a new request. Every way to end a request is
an instance of one lemma, `EndAndIssue`: who is told was in the list, and leaves it, with its
delayed callbacks, unless it may be told again. For these two nothing is needed about the
transactions, so they do not depend on the retransmission being right; the places where the code
looks a callback up by message ID (`WaitingFor`), by endpoint (`OfEndpoint`, `FirstInList`) or by its
delayed callback matter only in that they find callbacks in the list.

- `TimeoutNeverSilent`: `Spec => []ShortTimeoutIsNotified`: a request whose timeout is shorter than
  the exchange never ends without its handler being called, whatever timeouts others have.
  `TimeoutIsSet` is the fact behind it: the delayed callback of the timeout stays as long as the
  client callback does. For longer timeouts this fails, see section 5.
- `ClientTypeCorrect`: `Spec => []TypeOK`, which includes that no two transactions have one message
  ID, and `NeverGivenUpSilently`: `Spec => []StillTrying`. The
  invariant `TransInv` adds that message IDs are fresh: those in the list of transactions differ, and
  none is above the last one used (`MidsAreFresh`). Without this, clearing the transaction of one
  request by its message ID could clear another one's.
- `WalksAreSafe`: `Spec => []WalkIsSafe` if no handler issues a confirmable request while there are
  DTLS sessions (`QuietHandlers`), for any number of transactions and peers. The interesting part
  of `WalkInv` is `Resumable`: while a session is closed in the middle of
  `coap_check_transactions`, either the list is already so short that the length test will notice,
  or the successor that was remembered is still there, or among the transactions that the close has
  yet to come to there is one whose removal the test will notice. The hypothesis is needed: a request
  that a handler issues in between makes the list longer and hides a removal from the test
  (section 5).

### OcObserveProofs

Assumptions `SetsAssumption` (finitely many clients and resources, and which of them are periodic,
deletable, readable, guarded) and `NumbersAssumption` (natural bounds).

- `ObserversStaySound`: `Spec => []ObserversAreSound`: counters against the list, no reference to a
  freed resource, one observation for each client and resource, pools within their bounds. The
  counting is `WithoutLeaves`: removing a set of observers from the list lowers the counter of a
  resource by as many as were its own.
- `NobodyReadsWhatIsDenied`: `Spec => []AccessIsRevoked`.
- `NoObserverIsPassedBy`: `Spec => []EveryObserverIsNotified`. This is a statement about
  `coap_iterate_observers` for a list of any length: by induction along the walk (`SetInduction`)
  every observer of the resource was sent the new value, unless a transaction was refused, which the
  property names.

The invariant is the three properties and the types of the transactions and of what is in flight
(`InFlight`).

### OcBlockwiseProofs

Assumptions `KindAssumption` (a request has a key and numbers of blocks), `BoundsAssumption`, and
`NoneAssumption` (the null pointer is no message ID, no block and no buffer).

- `BuffersStaySound`: `Spec => []BuffersAreSound`.
- `PayloadsStayAssembled`: `Spec => []PayloadsAreAssembled`, whatever is lost, delayed, reordered or
  repeated.

Neither is inductive without the network: the invariant says of every message that may still
arrive that it is one that its sender could have sent for its request (`MsgOK`): a block of an
upload says truly whether more follow; a block of an answer has the number and the key it claims and,
if no other request has the key, says truly whether more follow. From that it follows buffer
by buffer that what is stored is in place and not yet complete (`RequestBuffers`, `ResponseBuffers`,
`AnswerBuffers`), and that what is handed over is in order and, if no other request has the key,
whole (`Payloads`, `Results`). These sets only grow as the system goes on (`Grows` and the lemmas
named `...Stay`), so that a step has to be looked at only for what it adds.

- `UndisturbedStaysExact`: `Spec => []UndisturbedIsExact`: any requests may overlap, in any number
  and with any order of arrival, and it is shown for those whose key never had two under way at once.

For this one a second invariant, `UndisturbedInv`, is shown beside the first: as long as nothing was
received twice and no timer expired, `CalmInv` holds. It speaks of the requests with a key of
their own (`Lone`); a step for a key that is shared leaves what is said of the others as it was
(`Aside`), although it may free buffers of the client by their message ID. Each such request has at most one message with
a token under way (`OneMessage`), and this message tells where the buffers of both sides are
(`Placed`): block `n` of an upload finds exactly the `n` blocks before it in the server's buffer,
a request of block `n` of the answer finds the server's buffer at `n` and the client with the `n`
blocks before it, all of one call of the handler with the payload of this request, and so on. What has
no message is over: a key without a live request has no buffer on the server
(`UnusedIsIdle`), which is why the next request of the key starts afresh. Empty ACKs and RSTs are
matched by message ID alone, and the mixing of a shared key may produce them at any time. A third
invariant, `OwnedInv`, therefore says of all requests that a message ID belongs to one of them: no two
buffers have the same, and that of a message under way is in no other request's buffer. From it, no
ACK or RST has the ID of a buffer that is in use (`AcksOK`). `Turn` reduces every
receipt to its request, its key and what is sent.

### OcPstatProofs

Assumption `ClientAssumption`: finitely many clients. The number of onboardings, crashes and
starts is not bounded.

- `TypeCorrect`, `NoTraceOfOldOwner` (`OldOwnerIsForgotten`), `OperationalHasOwner`
  (`OperationalIsOwned`) and `OneOnboardingConnection` (`DocIsExclusive`) as invariants, and the
  action property `RFOTMIsUnowned` (`EntersRFOTMUnowned`).

The argument is what is in storage, since a crash makes that the memory of the next start.
`ResetInv` follows a reset save by save: the resources it has passed are wiped in memory and in
storage. `SavedInv` says that outside a reset storage agrees with memory, but for the state of
pstat while the device is in RESET; leaving RESET for another state saves it, whichever it is.
`LoadableInv` says that what a start would load of an owned device is of one onboarding and, if it
puts the device in operation, owned, unless a reset was `lost`; `MemoryInv` the same of the memory,
which the transitions out of RESET preserve because `pstat_check_state` looks at every resource
that the property names. `DocInv` is the exclusive connection, until the queued close is handled.

### OcCloudProofs

Assumptions `ServersAssumption` and `BoundsAssumption`: at least one server and one attempt, and
natural bounds. Servers, attempts, calls, faults and crashes are not bounded otherwise.

- `CloudTypeCorrect` (`TypeOK`), `CloudSignsInAgain` (`SignsInAgain`), `CloudKeepsTrying`
  (`KeepsTrying`), `CloudSavedOrPending` (`SavedOrPending`).
- `CloudDeregistrationGoesOn`: a deregistration under way has a request outstanding or its next step
  pending: what of `DeregistrationEnds` needs no fairness.

The difficulty is that handlers run in the middle of an operation, when the invariant does not hold:
the request that is told is out of the list before its handler has run, and the session is about to
end. `Good(c, m, st, owed, X)` is the invariant for such a moment: `owed` are
the kinds of requests whose handlers will yet be called, `X` the sessions about to be closed, `m`
what must not change (`Frame`) and `st` what is stored. A device keeps trying (`Tries`) or
deregistering (`Deregisters`) thanks to a callback, a request in the list, or one that is owed.
`Closes(close)` says of a way to close sessions that it keeps contexts good for all `owed` and
`X`, and each operation and each handler is shown to do the same if it is given such a `close`.
`TakenGood` takes a request out of the list and owes its handler, `TellFirstGood` pays for it by
calling the handler, and `CloseGood` follows the loop turn by turn (`ToldGood`) to the session event;
`LevelCloses` concludes that a level closes if the level below does, and
`AllClose` that `Closing` does. One lemma for each action then shows that `IInv` is inductive, which
is `Good` with nothing owed.

`SignsInAgain` needs more than it says: a registered device always has its refresh token
(`Signs`), in memory and in storage. With the access token alone the induction fails, since a
sign-in may replace it by one that expires.

### Only model-checked

- Liveness under fairness (`MessagesAreHandled`, `TimersFire`, `EventuallyRuns`, `ExchangesEnd`,
  `GoneClientIsRemoved`, `NothingIsKept`, `ResetCompletes`, `DeregistrationEnds`) is out of the
  prover's reach.
- That three levels of `Closing`, and the number of turns of `Close`, are enough in `OcCloud`.

Every safety property of the passing runs is stated by a theorem.

## 7. Abstractions and limits

- *Messages, contexts, functions, resources* are model values. Payloads, URIs and encodings are
  left out. A request is told apart by kind, confirmation, timeout and endpoint.
- *One instance of each*: one device, one client and one server in `OcBlockwise`, one cloud context;
  the components are checked one by one. Where one uses another, it uses what the other promises: delayed
  callbacks run or are removed, a client handler is called at most once, a closed session tells
  its requests.
- *Memory*: a freed block is one that is no longer in a list; using one would show in
  `BlocksAreSound` or `WalkIsSafe`. The pools of the client and of the transactions are
  unbounded in `OcClient`; that of the callbacks is bounded in `OcEventCallback`.
- *Event queue seen from above*: `OcMainLoop` uses the queue of the dynamic build, which never
  refuses; `OcEventCallback` counts TIMER events up to a bound, above which one more makes no
  difference, since each makes the process look at all callbacks.
- *Clock*: `OcMainLoop` has a clock that stops at its bound, in the others an armed timer may
  expire at any time. In `OcClient` that makes the lifetime of an exchange independent of the
  retransmissions, which allows more orders than the intervals of the code do; the order of the
  timeout and the lifetime is kept. The wrap-around of the tick counter is left out.
- *Network*: message IDs are not reused within the bounds, and those a peer chooses for its own
  messages differ from those in use; the engine clears a transaction by message ID alone.
- *Left out of OcClient*: discovery, pings, TCP, block-wise transfer, requests that cannot be
  built, the removal of observers when a transaction is given up (server side), more than one
  observation of a URI.
- *Left out of OcObserve*: interfaces, collections, payloads, separate responses, block-wise
  notifications. *Of OcBlockwise*: multicast, observations, separate responses, TCP, changes of the
  block size, refused memory, 4.13; all blocks have one size, so an offset is a number of blocks,
  and only the sign of the unsigned difference at `engine.c:406` is kept. *Of OcPstat*: isop and cm,
  which follow from the state, and resources that are only wiped along. *Of OcCloud*: redirection, the
  last error, the publication of resources, schedules and keep-alive of the application's own, its
  direct calls of `oc_cloud_register` and the like, the factory reset.
- *Not modelled*: the parts marked so in `PROJECT.json`, each with the reason: byte formats and
  cryptography, input and output of the operating system, the other ports, applications,
  bindings, OSCORE; and the parts of the plan below.

## 8. Plan

Observations, block-wise transfer, the provisioning status and the cloud client followed the
core in that order. What is left, in the order of what it would add:

1. **TCP sessions and session events** (`port/linux/tcpadapter.c`, `api/oc_session_events.c`):
   session lists shared by the network thread and the main loop, asynchronous connects and their
   retries.
2. **Message buffers** and a queue that refuses events: reference counts across the event queue,
   the life cycle of processes, shutdown against receiving threads.
3. **Separate responses**, and block-wise notifications, which compose `OcObserve` and `OcBlockwise`.
4. **Device provisioning client** (`api/plgd/device-provisioning-client`), in the manner of
   `OcCloud`.

Theorem to add: `WalkIsSafe` for handlers that issue confirmable requests to plain peers only.

## 9. Running the checks

In this directory, with the TLA+ tools and the community modules on the path:

    tlc -workers 2 -config MCOcMainLoop.cfg MCOcMainLoop
    tlapm OcMainLoopProofs.tla

Every configuration file is named after its module; `PROJECT.json` lists the runs. Each finishes
within four minutes on two cores.
