# MPTCP in ns-3 with a learned scheduler: the verification project

The repository holds an implementation of Multipath TCP (MPTCP) for the ns-3 simulator
(`src/src/internet/model/mptcp-*`), experiment scripts (`src/scratch/run`) and a Python
program that learns which packet scheduler to use (`src/machineLearning`). The rest of its
3175 files is ns-3 itself and its build system. This project models the MPTCP
implementation in TLA+, checks it with TLC on small instances, and proves with TLAPS what
matters most for every value of the constants.

All paths below start in `src/`, the root of the repository; `model/` abbreviates
`src/src/internet/model/`.

## 1. Inventory

An MPTCP connection looks to its application like one TCP connection. The bytes of its
stream have a *data sequence number* (DSN). They travel over several *subflows*, each of
them a TCP connection with a *subflow sequence number* (SSN) of its own. A *mapping* says
which DSNs a range of SSNs carries; it travels in the DSS option, with the DATA_ACK, the
acknowledgement at the level of the stream, and the DATA_FIN.

| Component | State | Operations | Hard behaviour |
|---|---|---|---|
| Meta socket, data path (`model/mptcp-meta-socket.cc`) | send and receive buffer in DSN, `m_nextTxSequence`, `m_highTxMark`, the scheduled event `m_sendPendingDataEvent` | `Send`, `Recv`, `SendPendingData`, `ReceivedAck`, `NewAck`, `OnSubflowRecv`, `AddToReceiveBuffer` | segments and DATA_ACKs of several subflows arrive in any order; no retransmission at this level |
| Meta socket, closing (same file) | `m_state`, `m_closeOnEmpty`, `m_shutdownSend`, `m_finSeq`, three timers | `Close`, `ShutdownSend`, `SendDataFin`, `PeerClose`, `DoPeerClose`, `TimeWait`, `LastAckTimeout`, `OnTimeWaitTimeOut` | both ends close at once; a DATA_FIN is lost, overtakes data or comes again |
| Subflow (`model/mptcp-subflow.cc` on `model/tcp-socket-base.cc`) | send and receive buffer in SSN, `m_nextTxSequence`, `m_highTxMark`, `m_recover`, `m_congState`, `m_TxMappings`, `m_RxMappings`, `m_dssFlags` | `AddLooseMapping`, `SendPacket`, `ReTxTimeout`, `Retransmit`, fast retransmit and recovery, `NewAck`, `UpdateTxBuffer`, `ReceivedData` | timeouts racing acknowledgements; mappings discarded while a retransmission still needs them; a subflow gives up with bytes that no other subflow will carry |
| Mappings (`model/mptcp-mapping.cc`) | an ordered container of mappings | add, look up by SSN, discard by range | inclusive and exclusive ends of a range |
| Buffers (`model/tcp-tx-buffer.cc`, `model/tcp-rx-buffer.cc`) | the bytes and their limits | add, trim, extract, discard | what is out of range or over capacity is dropped |
| Links (`src/src/network/utils/queue.cc`, `src/src/point-to-point/model`) | a queue and an error model | enqueue, drop, deliver | loss, delay |
| Schedulers (`model/mptcp-scheduler-*.cc`) | the last subflow used | `GetAvailableSubflow`, `GetAvailableControlSubflow` | what one does when no subflow has room |
| Congestion control (`model/mptcp-lia.cc`, `model/tcp-congestion-ops.cc`) | per subflow `m_cWnd`, `m_ssThresh`; LIA's alpha over all | `IncreaseWindow`, `GetSsThresh` | conversions from floating point to `uint32_t` |
| Handshake and subflow management (meta socket, subflow, `model/tcp-l4-protocol.cc`) | `m_subflows`, `m_activeSubflows`, `m_receivedDSS`, `m_synCount`, keys and tokens | SYN exchange, MP_CAPABLE, MP_JOIN, `ConnectNewSubflow`, `NewSubflowJoinRequest`, `AddSubflow`, `BecomeFullyEstablished`, `OnSubflowClosed` | a join overtakes what allows it; SYNs, their answers and timers race |
| Path identifiers (`model/mptcp-id-manager-impl.cc`) | a table of addresses | add, remove, look up | nothing reads it |
| Learning loop (`SendPendingData` of node 0, `model/rl-*.cc`, `src/machineLearning/rl_server.py`, `src/RL-MPTCP_debug_RL.sh`) | the record in flight, the current scheduler, the episode | send a state record, wait for the choice, apply it | three programs in lockstep, two of them over a stream without record boundaries; state that outlives an episode |
| Learning core (`src/machineLearning/RL_core.py`) | the replay memory, a ring of transitions; two neural networks | `store_transition`, `learn`, `choose_action` | a batch drawn before the ring is full; variables of the server's loop that outlive records and episodes end up in a transition |
| DSS and other options (`model/tcp-option-mptcp.cc`) | none | encode, decode | field widths |
| Applications, scripts, plots | | call `Send` and `Close` | callers of the above |

How they interact. ns-3 runs one event at a time, so a handler is never interrupted; what
interleaves are events: arrivals, timers, scheduled calls and the application. The
application calls `Send`, which stores the bytes and schedules `SendPendingData`. That asks
the scheduler for a subflow and a size, adds a mapping to the subflow (`SendMapping`) and moves
`m_nextTxSequence`. The subflow transmits when its windows let it, and retransmits on its
own. At the receiver the subflow's buffer takes the segment first; only then does the
callback `OnSubflowRecv` copy it through its mapping to the meta receive buffer, and the
application reads from there. DATA_ACKs come back in the DSS option of whatever the subflow
acknowledges. A subflow whose congestion window has grown has the meta socket schedule
`SendPendingData` again.

What makes each component correct: the application reads exactly the stream that was
written (meta socket); nothing is freed before it is received, nothing that may be sent again
loses its mapping, and each byte goes to one subflow (meta socket, subflow, mappings);
what a subflow acknowledges is not dropped by the meta buffer (windows and buffers); mapped
data arrive in the end unless a subflow gives up (timers, links); a DATA_FIN marks the end of the stream and the
end of file is reported after all data (closing); a DATA_FIN arrives in the end, with the same reservation (timers); what
the server learns from is what the simulation did (learning loop and core); the lists of subflows
agree with their states, both ends agree on what is established, a join is not refused and a
handshake ends (management). For the part planned: a window never shrinks by an increment (LIA).

`PROJECT.json` lists every component with its status, and under `hazards` each place
where this code is hard to test.

## 2. Plan

1. `ByteStream`: what a connection promises. Abstract. **Done.**
2. `MetaTransfer`: the data path with any number of subflows, implementing `ByteStream`.
   Runs `transfer*`. **Done.**
3. `MetaTransferProofs`, `MetaTransferSafety`: its invariants and the refinement, for every
   instance. **Done.**
4. `MetaClose`: both ends of a connection from ESTABLISHED to CLOSED, implementing the abstract
   `DuplexStream`. Runs `close*`. **Done.**
5. `MetaCloseProofs`, `MetaCloseStream`: its invariants and the refinement, for streams and links of
   every size. **Done.**
6. `LearningLoop`: simulation, server, script and the replay memory, implementing the abstract
   `AgentLoop`. Run `learning`. **Done.**
7. `LearningProofs`: its invariants and the refinement, for any number of episodes, records and
   rows. **Done.**
8. `SubflowManager`: the handshakes of the master and the joins, `FullyEstablished`, the lists
   of subflows, implementing the abstract `ConnectionSetup`. Runs `subflows*`. **Done.** The
   closing of a subflow is left out: `OnSubflowClosed` stops the simulation, so nothing happens after it.
9. `SubflowProofs`, `SubflowRetries`, `SubflowSetup`: its invariants and the refinement, for any
   number of joins and faults. **Done.**
10. `Schedulers`: each scheduler as an operator from the subflows' state to its choice, checked
    against what `MetaTransfer` lets any scheduler do, with LIA's increment as integer
    arithmetic. *Next.*
11. `MetaClose` with several subflows, whose data arrive in any order at the meta level. *Then.*

## 3. The modules

### ByteStream
The abstract specification: `written` bytes were handed to `Send`, `delivered` were returned
by `Recv`, and the receiver only ever reads the next bytes in order. No subflows, no packets.

### MetaTransfer
One direction of an established connection. Bytes are named by their position in the stream, so a
payload is a sequence of positions and "the right byte" is a statement about the model.

| Variables | In the code |
|---|---|
| `written`, `txHead`, `nextTx` | tail and head of the meta `m_txBuffer`, `m_nextTxSequence` |
| `sendEvent`, `sfLoop` | `m_sendPendingDataEvent`; the loops of `SendPendingData` while they run |
| `stream`, `ssnHead`, `ssnNext`, `ssnHigh` | the subflow's `m_txBuffer`, `m_nextTxSequence`, `m_highTxMark` |
| `cong`, `recover`, `txMap` | `m_congState`, `m_recover`, `m_TxMappings` |
| `retrCount`, `endPoint` | `m_dataRetrCount`, the retransmissions left; whether the subflow still has its end point |
| `dataNet`, `ackNet` | the links, one bounded drop-tail queue per subflow and direction |
| `sfNext`, `sfOoo`, `rxNext`, `rxBuf`, `delivered` | the receive buffers of subflow and meta socket; what `Recv` returned |

| Actions | In the code |
|---|---|
| `AppSend`, `AppRead` | `Send`, `Recv` |
| `DispatchOn`, `DispatchEnd` | one round of, and the end of, the meta `SendPendingData` |
| `Transmit`, `TransmitEnd` | one packet of, and the end of, the subflow's `SendPendingData` |
| `ReTxTimeout` | the retransmission timeout, `Retransmit` and `DoRetransmit`, which gives up when no retransmission is left |
| `StaleAck`, `LimitedTransmit`, `FastRetransmit`, `InflateWindow`, `PartialAck`, `NewAck` | the branches of the subflow's `ReceivedAck`, each with the meta `ReceivedAck` that precedes it |
| `ReceiveDuplicate`, `ReceiveData` | `ReceivedData` of the subflow, `OnSubflowRecv`, `AddToReceiveBuffer` and the acknowledgement |
| `LoseData`, `LoseAck` | a link loses a packet; leaving packets in the set delays and reorders them |

The two loops of `SendPendingData` are split into one action per round, because the size and
the subflow of each round are the scheduler's choice; the guard `NoLoop` of all other
actions keeps the event atomic, as in the simulator. What the abstraction leaves out, and why
it may:

- Congestion windows are arbitrary whenever they are read, never below one segment, and any
  new acknowledgement may or may not enlarge them. So the counting of duplicates is
  abstract too: any duplicate may be the third.
- The scheduler may pick any subflow it is allowed to pick; the exchange with the learner before
  `SendPendingData` (1070-1073) has no other effect on this module.
- The advertised window is constant, as `AdvertisedWindowSize` returns `MaxBufferSize`
  (`mptcp-subflow.cc:1422`), so `m_rWnd` is too.
- Each segment carries its mapping; the receiver's container of mappings only brings it back
  to where it is used. `DiscardMappingsInSSNRange` is exact where the acknowledged range
  starts at a mapping.
- Segments answer with a DATA_ACK, since `ReceivedAck` of a processed packet sets the flag
  (1510-1520) that sending resets (335). A segment that is out of range is answered by one with or
  without it: the second such answer in a row has none. This lets all subflows be acknowledged while
  `txHead` stays behind for good, and is a second way to the stall of finding 1.
- After `m_dataRetries` retransmissions without a new acknowledgement `DoRetransmit` deallocates the
  end point (`tcp-socket-base.cc:3050-3060`): `endPoint` is FALSE and the subflow sends and hears
  nothing from then on. Its `NotifyErrorClose` reaches no callback that removes it, so it stays active, the scheduler
  may go on mapping bytes to it, and no other subflow carries them. Packets that still reach a host without
  that end point would be answered by a reset, whose handling ends the simulation; this only cuts
  behaviours short and is left out.
- The other count, of `MpTcpSubflow::ReTxTimeout`, is left out: the comparison at line 980
  never holds. Delayed acknowledgements are left out as well.
- Sequence numbers are unbounded: the width of 32 bits is not reached by `StreamLen`.

### DuplexStream
The abstract specification of a connection that is being closed: two streams, one each way. A host
writes until it ends its stream (`Write`, `End`); its peer gets a prefix of what was written
and is told of the end with or after the last byte (`Deliver`), and may end its own stream in
the same step, as a close callback does. `MetaClose` maps to it by `Stream`: a stream is ended
when the meta socket has left ESTABLISHED and CLOSE_WAIT, received is what has come in
order, and the end was told when `NotifyNormalClose` was called.

### MetaClose
Both ends of a connection with one subflow, the master. Segments are one byte, so SSN and DSN
agree. A host is one record (`meta[h]`, the socket with what matters of its subflow) and the
set of packets it has in flight (`net[h]`). The functions of the code are operators from a
socket with its link to the next one (`SendDataFin`, `CheckAndAppendDataFin`, `DoClose`,
`Close`, `PeerClose`, `DoPeerClose`, `ReceivedAck`, `TimeWait`, `CloseAndNotify`), composed
as the code calls them; the actions are the events: the application's `AppSend`, `AppClose`,
`AppShutdownSend`; `SendPendingData`; `Retransmit` of the subflow, and `GiveUp` when it has no
retransmission left (`ReTxTimeout` is either of them); the timers
`DataFinTimeout`, `LastAckTimeout`, `TimeWaitTimeout`; `Receive` (`DoForwardUp`: the options, the
data, the DATA_FIN); and `Lose`.

- The application may call `Close` inside its close callback (`closes`), and reads
  at once. `SendPendingData` sends any number of bytes, for windows of any size.
- Whether a data packet carries the DATA_FIN is decided at each transmission anew
  (`CheckAndAppendDataFin`), also at retransmissions.
- The timer of the DATA_FIN schedules itself again also after the acknowledgement; the
  DATA_FIN that goes with a DATA_ACK (`SendDataFin(TRUE)`, from CLOSE_WAIT) has no timer.
- `stop` records where the simulation would halt: the fatal error of `Close` with unread data
  (2105), the assertion of `DoPeerClose` (1803), the reset by a subflow closed with data in its buffer. It also
  records "subflow dropped", when the only subflow has given up: the code goes on, but all that this
  host sends or receives from then on is lost, so the model ends there.
- `retrCount` is reset to `DataRetries` by a new acknowledgement. It may also come to one more, for the
  retransmission of a partial acknowledgement, which the code counts differently in and out of
  recovery, a difference this module does not keep (`RetriesAfter`).
- Left out: closing before ESTABLISHED, `ShutdownRecv`, several subflows, and the FIN of the
  subflow itself. After `CloseAllSubflows` a subflow still carries what it has to
  retransmit and options; this is external to the module.

### ConnectionSetup
The abstract specification of a connection that comes up: each subflow is asked for, answered, accepted
and completed, in this order and once; the connection is established at each end with its
master; the server learns that it is fully established before the client does, and only a
client that knows asks for a further subflow. A handshake that waits may be given up, which ends
everything. No packets, timers or lists. `SubflowManager` maps to it by `Setup`, where `Stage` reads how
far a handshake is from the states of its two ends.

### SubflowManager
How a connection and its subflows come up. The client opens the master (`Connect`), sends data, and
joins further subflows once the connection is fully established; the server only
acknowledges, as the sinks of the experiments do. A path (`net`) is a queue in either direction that
may lose its first packet.

| Variables | In the code |
|---|---|
| `metaState`, `fully` | `m_state` and `m_receivedDSS` of the meta socket at each end |
| `subflows`, `active` | `m_subflows`, `m_activeSubflows` |
| `state`, `synCount` | `m_state` and `m_synCount` of each subflow |
| `unsent`, `written`, `sent`, `acked`, `rcvd` | how far the client's data have come |
| `stopped` | the fatal error of `OnSubflowClosed` |

| Actions | In the code |
|---|---|
| `Connect`, `ConnectNewSubflow` | the functions of that name, down to the first SYN |
| `SynTimeout` | the timer of a SYN or SYN+ACK; after the last attempt the subflow is closed |
| `ServerListen`, `ServerSynAgain` | `ProcessListen`, `NewSubflowJoinRequest`; a SYN in SYN_RCVD |
| `ServerEstablish`, `ServerReceive` | `ProcessSynRcvd`; data and its acknowledgement |
| `ClientEstablish` | `ProcessSynSent`, the change of state in the meta socket, the data it sends at once |
| `ClientSynAckAgain`, `ClientAck`, `ClientAckJoin` | a late SYN+ACK; a DATA_ACK; the first one, with the join that the application's callback makes |
| `Write`, `SendPendingData`, `DataTimeout`, `Lose` | the application, the meta socket's event, the data's timer, the link |

- A subflow has at most one segment outstanding, and its timer runs out only when nothing is under
  way on its path; windows, mappings, spurious retransmissions and the limit of data retransmissions are
  the matter of `MetaTransfer`.
- `AddSubflow` puts a subflow that is already established on the active list as well (`JoinsMeta`, 855-858).
  None is: every caller adds it before its handshake is done, and it becomes active when that ends.
- The option of a packet of the handshake (MP_CAPABLE or MP_JOIN) follows from its path, and keys,
  tokens and HMACs match: both ends are this code.
- The scheduler may pick any subflows it is allowed to pick, among the first `Len(active)` of
  `m_subflows` (`Available`), as `GetActiveSubflow` has it; see finding 6.
- The applications join from the callback or after it. The programs of the repository open one join;
  the model opens any number.

### AgentLoop
The abstract specification of the learning loop, with agent and environment taking turns: the environment
reports, the agent observes and decides, the environment applies the decision. Each report but the first of an
episode is remembered as a step from the report before, with the scheduler that was in use and what was gained
since it was chosen. No connection, no processes, no server whose variables outlive an episode.
`LearningLoop` maps to it by `Loop`: `Turn` is read from where the one message is; `Seen`, `Counted` and `Gain` are
what the server has of the running episode, and nothing between two of them; `ToUse` is the answer
under way or, when there is none, the scheduler in use.

### LearningLoop
The simulation (`sim`), its connection to the server (`conn`, `up`, `down`), the server (`server`)
with its `DeepQNetwork` (`learner`), and the script (`episodeNum`). Before every `SendPendingData`
node 0 sends a record (`SendStates`) and blocks until the answer comes (`ApplyActions`). The server
takes what one `recv` returns for one record (`ReceiveRecord`), stores the transition that
the record completes, learns when it is time, and answers with a scheduler (`Choose`) or, within
`SwitchInterval` of its last choice, with 999 (`KeepChoice`), and notes both. When the simulation
has ended (`EndSimulation`, `ReceiveEnd`) an episode is over and the server listens again; the
script sleeps and starts the next simulation (`StartSimulation`).

- The networks are left out: their choice is any scheduler. Of `learn` there is from how many rows
  it draws its batch; of a transition, which records it joins, its action and its reward. Of a
  record there is its number, the time and what is acknowledged.
- TCP may combine records, as `recv` returns all that has arrived; it does not split them, which
  `rl_socket.py:23-25` assumes too.
- The sleep of the script is long enough, as its comment says: the server then listens or
  is gone, and in the second case the simulation ends before its main (`Slept`). What happens when it is
  too short is not modelled.
- `RcvActions` cannot find the connection closed: the server ends only after the simulation.

## 4. The runs

| Run | Instance | Checks | Shows |
|---|---|---|---|
| `transfer` | 2 symmetric subflows, 4 bytes in segments of 2; window and receive buffer of one segment, eager reader | `TypeOK`, `FreedWasReceived`, `UnackedIsMapped`, `MappingCoversPacket`, `MappedOnce`, `NoByteLost`, `WindowOvershoot`, `SegmentTakenWhole`, `StreamSpec` | the bookkeeping of buffers and mappings holds, the data in flight exceeds the window by less than a segment, nothing is lost for good, and the connection implements `ByteStream` |
| `transfer_live` | 2 subflows, 2 bytes, a buffer for both, slow reader, 2 retransmissions, fairness | `MappedIsDelivered` | what was mapped is delivered, or a subflow that gave up holds a byte before it; nothing else holds it up |
| `transfer_stall` | 1 subflow, fairness | `WrittenIsDelivered` fails | finding 1 |
| `transfer_lazy` | slow reader, full buffer | `NoByteLost` fails | finding 2 |
| `transfer_trim` | window equal to the buffer, segments of 3 | `UnackedIsMapped` fails | finding 3 |
| `close` | a writes 2 bytes, b none; each link holds 1 packet | `TypeOK`, `FinIsEnd`, `EofAfterAllData`, `FinWait2Acked`, `FinNotForgotten`, `StreamSpec` | a DATA_FIN stands after the last byte and is not forgotten; neither end takes the other for finished too early; the connection implements `DuplexStream` |
| `close_live` | 1 byte, 1 retransmission, fairness | `FinArrives` | the DATA_FIN of `Close` arrives, or the subflow gives up |
| `close_ack` | 1 byte; a's link holds 2 packets | `TimeWaitIsAcked` fails | finding 4 |
| `close_hole` | 2 bytes; a's link holds 2 packets | `PeerClosesOnce` fails | finding 5 |
| `subflows` | the master and 2 joins, 2 segments, 2 faults, 2 attempts per SYN, fairness | `TypeOK`, `ActiveOnce`, `PeerAgrees`, `JoinNeverRefused`, `GaveUpForReason`, `SetupSpec`, `HandshakeEnds` | lists and states agree, so do both ends; no join comes too early, the connection implements `ConnectionSetup`, and each handshake succeeds or ends the simulation for a reason |
| `subflows_index` | 1 segment, 1 fault | `GetActiveSubflowEstablished` fails | finding 6 |
| `learning` | 2 schedulers, 2 episodes of up to 4 records, a choice kept for 1, a memory of 3 rows, fairness | `TypeOK`, `RecordsIntact`, `SchedulerRecorded`, `TransitionsTrue`, `LearnsFromStored`, `EpisodesAgree`, `NobodyStranded`, `LoopSpec`, `Finishes` | each record arrives alone and in its episode, the server notes and remembers what the simulation used and what it earned, it learns from nothing else, the programs implement `AgentLoop`, and nobody waits for ever |

**Bounds.** `StreamLen` and `MaxWrite` bound the writer, `DataCap`, `AckCap` and `LinkCap`
the links, `Limit` the writers of `MetaClose`. Four bytes in segments of two on two subflows
give mappings longer than a byte, mappings cut short by the end of the buffer, a hole in the meta
stream that each subflow may fill, retransmission inside the other subflow's progress and a
buffer that fills. Two segments of each subflow may be in flight, which reorders within a
subflow. `transfer` is at the edge of `RoomForOvershoot` (section 6: 2 + 2 <= 2 + 2),
`transfer_trim` one byte past it (4 + 3 > 4 + 2). In `MetaClose` two bytes from one host give a
hole, a DATA_FIN that overtakes data and a deferred `Close` with data written after it; the other
host closes and acknowledges but writes nothing. With one packet on a
link a later packet overtakes another when that is lost and sent again; with two packets on a's link
(too many states for the regular run) the invariants hold as well.
`DataRetries` is 1, and 2 in `transfer_live` (`m_dataRetries` is 6 by default): enough for a count that is used in
part and reset by a new acknowledgement, and for one that is used up, at one subflow or at both.
In `subflows`, `MaxFaults` bounds what goes wrong altogether, lost packets and timers that run out
too early. With two faults and two attempts per SYN (`m_synRetries` is 6) a SYN is given up, a SYN+ACK
races its own repetition, and one join overtakes the other. Two joins are the least for which
`m_subflows` and `m_activeSubflows` disagree in their order; two segments let one subflow wait for an
acknowledgement while the other gets data.
`learning` needs two episodes for what outlives one, and four records so that a choice, an answer that
keeps it and the next choice follow each other. Its memory of three rows (2000 in the program) wraps
round in the second episode, and it learns at every step from the second on (the program: each fifth
after 200), so that a batch is drawn both from a memory that is filling and from a full one.
Deadlock is not checked (`CHECK_DEADLOCK FALSE`) since all
models stop: a finite stream is read, both ends are closed, or the last episode is over.

**Fairness.** ns-3 runs every scheduled event, so in `MetaTransfer` loops end, scheduled calls
run, a subflow with room transmits, a running timer expires, and the reader reads (all weak fairness).
Nothing is assumed of the writer or of the links, which may lose and delay anything for ever: a
subflow then gives up, and `MappedIsDelivered` says so. With a reader that leaves bytes unread it holds only for a buffer
that takes the whole stream, as in the run; otherwise finding 2 applies.
`MetaClose` assumes that the subflow's timer expires (weak), that the timer of the DATA_FIN expires with room on
the link again and again (strong), and that a DATA_FIN on its own, which is repeated without limit, is not
lost for ever; plus that no link stays full. Of data packets, with or without DATA_FIN, it assumes nothing.
`SubflowManager` assumes, for each path, that a packet which is not lost arrives and that a timer
which is not cancelled runs out (weak); the number of losses is bounded.
`LearningLoop` assumes that each of the three processes takes a step when it can (weak), nothing else.

**Mutants.** Each property of a passing run comes with a mutated operation, defined beside the
original (`SendDataFinOnce`, `ReceivedAckEarly`, ...), under which TLC finds that property violated.

## 5. Findings

1. *A reopened window wakes nobody* (`mptcp-meta-socket.cc:1009`). `NewAck` says "Try to send
   more data" above code that is commented out. Data in the send buffer may stay there for ever. (They
   may also when no DATA_ACK comes at all, since an answer to a segment out of range may carry none.)
2. *The advertised window ignores unread data* (`mptcp-subflow.cc:1422`), against the comment above it
   (1393-1396). The meta buffer drops bytes that a subflow acknowledges.
3. *A window equal to the buffer ends in a fatal error* (`mptcp-subflow.cc:321`, 353;
   `mptcp-mapping.cc:280`). The overshoot is trimmed and the mapping of what is missing erased.
4. *CLOSING takes any DATA_ACK for that of its DATA_FIN* (`mptcp-meta-socket.cc:1664`).
5. *A segment that fills a hole meets the assertion of `DoPeerClose`* (`mptcp-meta-socket.cc:652`).
6. *`GetActiveSubflow` may return a subflow that is not active* (`mptcp-meta-socket.cc:508`), against
   its comment in the header (`mptcp-meta-socket.h:222`): the index is bounded by the active subflows but
   applied to all of them. An established subflow is then out of the schedulers' reach.

`PROJECT.json` has each of them in full.

## 6. Proofs

Every theorem has the form `Spec => []Property`, or is a refinement, and holds for all values of the constants
that meet the module's named assumption (`SizesAssumption`, `CloseAssumption`, `SubflowAssumption`,
`LearningAssumption`), with the further hypotheses listed below for `MetaTransfer` alone.

### MetaTransfer
`MetaTransferProofs` and `MetaTransferSafety` prove, for every set of subflows and all sizes
that satisfy `SizesAssumption`:

| Theorem | Property | Hypothesis |
|---|---|---|
| `Invariance` | `IInv /\ Placement` | `RoomForOvershoot` |
| `TypeCorrect` | `TypeOK` | `RoomForOvershoot` |
| `OvershootBounded` | `WindowOvershoot` | `RoomForOvershoot` |
| `AlwaysMapped` | `UnackedIsMapped` | `RoomForOvershoot` |
| `PacketsCovered` | `MappingCoversPacket` | `RoomForOvershoot` |
| `FreedSafely` | `FreedWasReceived` | `RoomForOvershoot` |
| `ExactlyOneMapping` | `MappedOnce` | `RoomForOvershoot` |
| `NeverTrimmed` | `SegmentTakenWhole` | `RoomForOvershoot` |
| `NothingLost` | `NoByteLost` | `FitsBuffer` |
| `ImplementsByteStream` | `StreamSpec` | `RoomForOvershoot` |

**The hypotheses.** `RoomForOvershoot == AdvWnd + SegSize <= RcvBuf + 2 \/ StreamLen <= RcvBuf`: a
segment that overshoots the window still fits the buffer, or the buffer holds the whole stream.
It cannot be dropped: run `transfer_trim` shows what happens without it. The experiments of
the repository meet it: with `RcvBufSize` 2^30 (`src/scratch/run/mptcp-helper-system.cc:35`) the
window field of 16 bits and its scale of 14 advertise 2^30 - 16384, which leaves room for a segment of 1400.
The default of ns-3, 131072 (`model/tcp-socket.cc:56-58`), with a scale of 2 is advertised exactly and
does not. `FitsBuffer` adds, for `NothingLost`, that the reader is eager; run `transfer_lazy` shows why.

**The argument.** None of the properties is inductive. That a retransmission finds its mapping,
say, depends on acknowledgements falling between two mappings, this on the receiver
never taking a part of a mapping, this on no segment ever being trimmed, and this on where a
mapping started in the meta window when it was made. The inductive invariant has two parts.
`IInv` (in `MetaTransferProofs`) relates the sender, the links and the receiver: every mapping
and every segment describes the bytes it should (`MapsRight`, `SegmentsRight`), mappings do
not overlap and cover what is unacknowledged, the ends of transmissions, acknowledgements and
receptions are at boundaries of mappings (`Boundaries`, `AcksRight`), a
receiver has a mapping whole or not at all (`SubflowReceiver`), and the
meta buffer holds what it should. `Placement` (in `MetaTransferSafety`) relates the subflows to
the meta window: the DSNs of a subflow increase (`Increasing`), each mapping was
started within the window (`StartsInWindow`), every byte is mapped at one place
(`MappedOnce`), and what a subflow has outstanding is new to the meta level too
(`OutstandingIsNew`). There is one lemma per action for `IInv` (`AppSendKeeps`,
`DispatchOnKeeps`, `NewAckKeeps`, `ReceiveDataKeeps`, ...), and one per conjunct for
`Placement`, most of whose actions are a frame (`OnlyThree`: only three actions change what it
speaks about). `IInv` itself needs `Placement` in one place, where `ReceiveDataKeeps` uses that
nothing is trimmed (`NothingTrimmed`).

### MetaClose
`MetaCloseProofs` and `MetaCloseStream`, for streams and links of every size:

| Theorem | Property |
|---|---|
| `Invariance` | `IInv` |
| `TypeCorrect` | `TypeOK` |
| `FinMarksEnd` | `FinIsEnd` |
| `EofIsLast` | `EofAfterAllData` |
| `FinWait2Knows` | `FinWait2Acked` |
| `FinStaysDue` | `FinNotForgotten` |
| `ImplementsDuplexStream` | `StreamSpec` |

`IInv` says of each host and its peer that they are `Safe`. This has a part for the host by
itself (`Good`: `Counts`, its numbers are in order; `Retries`, the timer of a DATA_FIN runs only when everything
is sent and `Close` was called; `Heard`, it has been told of the peer's end only if it has all data and
the DATA_FIN; `Honest`, what its packets say it sent and received is true) and two for the
pair, in each direction (`Fins`: a DATA_FIN in flight stands after the last byte, or one further once the peer is
finished, and there is none before `Close`; `Flow`: the peer has only what was sent, and the
host knows of no more than the peer has). `FinWait2Acked` shows why both are needed: that a DATA_ACK covers the
DATA_FIN follows from `Honest` of the peer, which follows from what it received, which follows from `Fins` of the host.

The proof follows the calls of the code. `Safe` is stated for a socket with its link, and there is a
lemma for each function (`SendDataFinKeeps`, `DoCloseKeeps`, `PeerCloseKeeps`, `ReceivedAckKeeps`,
`ProcessKeeps`, ...) that assumes it before the call and proves it after, and cites the lemmas of the
functions called. Changes of state, flags and timers alone are `Quiet` and need one lemma for all.
`StepKeeps` lifts this from one side to both hosts. The retry count only limits when a
subflow may retransmit: its range, the rest of `TypeOK`, is an invariant by itself (`RetriesTyped`).
The loop of `SendPendingData` is a recursive function in the model; that its value exists follows by the principle of the least number (`Least`).

`FinStaysDue` and the refinement rest on what an operation may do to its socket: `Works` relates the sockets
before and after (nothing taken back, a deferred `Close` only with data unsent, and who enters FIN_WAIT_1 has the
timer of its DATA_FIN running). An operation that sends no data is `Calm`, and `Still` if it receives none either.
Both relations are transitive, so there is again one lemma per function. `FinNotForgotten` becomes inductive
with `Kept`: a `Close` that was deferred still has data to send (`Deferred`); and in FIN_WAIT_1 without a timer
the DATA_FIN `Rides` on the last byte: the peer does not have that byte, and each copy in flight carries
the DATA_FIN. Together with `IInv` this is `FinInv`. For `ImplementsDuplexStream`, `AppSendWrites` maps `Send`,
`GoesOn` shows that each other step goes `Onward` at one host, and `OnwardDelivers` that to go onward is
`End`, `Deliver` or a stutter; that what is delivered was written, and that an end comes after all
of it, is `Safe` again.

### SubflowManager
`SubflowProofs`, `SubflowRetries` and `SubflowSetup`, for any set of joins and any number of attempts, segments and faults:

| Theorem | Property |
|---|---|
| `TypeCorrect` | `TypeOK` |
| `EndsAgree` | `PeerAgrees` |
| `JoinsAccepted` | `JoinNeverRefused` |
| `ActiveSubflowsOnce` | `ActiveOnce` |
| `GivenUpForReason` | `GaveUpForReason` |
| `ImplementsConnectionSetup` | `SetupSpec` |

`PeerAgrees` is inductive only together with what is under way: an ACK comes from a client that is
established (`ToServer`), an answer from a server that has forked (`ToClient`), and a DSS from the server proves that
it has had one itself. `FullyInOrder` is the chain behind `JoinNeverRefused`: the master is
established before the server receives a DSS, this before the client does, and this before any join.
`ActiveOnce` is inductive by itself (`ActiveStep`), given that a subflow is established by one action at each end.
`GaveUpForReason` needs a count (`Attempts`): on each path the SYNs the client has sent exceed the faults by at most
one, and not at all once nothing is under way; and a path without faults is `OnCourse`, in one of
five stages with the one packet of that stage under way. A server can thus run out of attempts only after a fault.

`ImplementsConnectionSetup` rests on `SetupInv`, which adds to the invariants that a server which has a packet to
read or has answered deals with a client that asked (`Asked`), and that the meta socket is established exactly
when its master is (`MasterDecides`). `StepKind` shows that every step is of a `Kind`: quiet, or it opens a
subflow, forks one in the listening server, brings up the client's or the server's end, learns, or
ends the simulation. A kind says what becomes of the variables that the mapping reads, and one lemma for each shows that it is an action of
`ConnectionSetup` or a stutter (`OpensAsks`, `ListensAnswers`, `ClientUpAccepts`, ...). Some actions are two things
at once: the data that bring up the server's end also tell it that the client is fully established, and the
DATA_ACK that tells the client is followed by a join.

### LearningLoop
`LearningProofs`, for any number of schedulers, episodes and records, any size of the memory and any
times of learning. The guard `Slept` of `StartSimulation` is part of the specification, so all of them rest
on the script's sleep being long enough; `EpisodesAgree` does so most directly, since a simulation that found
nobody listening would be counted by the script alone:

| Theorem | Property |
|---|---|
| `Invariance` | `IInv` |
| `TypeCorrect` | `TypeOK` |
| `NoRecordCombined` | `RecordsIntact` |
| `SchedulerNoted` | `SchedulerRecorded` |
| `MemoryTrue` | `TransitionsTrue` |
| `NeverLearnsZeros` | `LearnsFromStored` |
| `EpisodesNumberedAlike` | `EpisodesAgree` |
| `NobodyLeftWaiting` | `NobodyStranded` |
| `ImplementsAgentLoop` | `LoopSpec` |

`Lockstep` says whose turn it is: the simulation's, with nothing under way (`SimTurn`); the server's,
with one record to receive or to answer (`RecordSent`, `RecordReceived`); or the simulation's, with one answer
to receive (`AnswerSent`). It fixes the lengths of all the logs relative to each other, from which `RecordsIntact` follows.
Between simulations `Idle` says that the server begins afresh. `Logs` and `Used` relate the variables
of the server's loop to its logs and those to the simulation; `Rewards` says since which choice the reward
has been summed; `Filled` which rows of the memory were written. `TransitionsTrue` then is inductive: a new row does not
overwrite one that still counts, because two positions less than a round apart differ
(`RingDistinct`), and the rows that stay are unchanged (`TransitionsFrame`).

`NobodyStranded` counts messages, which `Lockstep` gives, and says that a server that listens has an episode to
come; for this the server's own count of episodes must be below the last while it runs (`Expecting`).
For `ImplementsAgentLoop` the lemma `Turns` reads `Turn` off `Lockstep`, and `NotedIsUsed` says that the
variable `action` of the server, which an answer of 999 leaves from an earlier pass, is the scheduler in use. There
is a lemma per action (`SendReports`, `ReceiveObserves`, `AnswerDecides`, `ApplyApplies`, ...); the reward and
the row that `ReceiveRecord` stores are those of `Remember` by `Rewards` and `Logs`.

### Only model-checked
`MappedIsDelivered`, `FinArrives`, `HandshakeEnds` and `Finishes` are liveness properties under fairness,
which is out of reach for TLAPS here, as is `ENABLED`.
All other properties of the passing runs are proved.

## 7. Not modelled

- *Schedulers and LIA.* `MetaTransfer` and `SubflowManager` allow any choice and any window, so
  what they show holds for each scheduler; which subflow one prefers, and LIA's conversions, are planned.
- *The closing of a subflow* by its FIN. It ends in the fatal error of `OnSubflowClosed` in every case.
- *Keys, tokens, HMACs* and the refusal of a join that fails them; resets.
- *Path identifiers.* A table that every MP_JOIN writes and nothing reads: no
  property of the program depends on it.
- *Closing with several subflows*, `ShutdownRecv`, and closing before ESTABLISHED.
- *The networks of the learning core* are numerical.
- *The encoding of options, the IP stack, the simulator, scripts and plots* are the surroundings of
  the modelled code; what the modules use of them is said where they use it. Nearly all of the
  repository's lines are of this kind: the ns-3 simulator as it was when MPTCP was added, and its
  generated Python bindings.

## 8. Running it

    tlc -workers 2 -config transfer.cfg MCTransfer
    tlc -workers 2 -config close.cfg MCClose
    tlc -workers 2 -config subflows.cfg SubflowManager
    tlc -workers 2 -config learning.cfg LearningLoop
    for m in MetaTransferProofs MetaTransferSafety MetaCloseProofs MetaCloseStream \
             SubflowProofs SubflowRetries SubflowSetup LearningProofs
    do tlapm $m.tla; done

Each passing run takes less than two minutes with two workers; each module of proofs takes some minutes.
