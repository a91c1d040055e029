------------------------------ MODULE N6Capture ------------------------------
(***************************************************************************)
(* gateway/n6_interceptor.py and the bundle file of gateway/telemetry.py.  *)
(* Packets on N6 wait in a kernel queue for a verdict; the interceptor     *)
(* takes one at a time, appends a record of it to bundles.jsonl and        *)
(* accepts it, whatever became of the record.  The kernel queue, the       *)
(* capture beside it and the disk are external.  Sizes, addresses and      *)
(* times of a packet, and the run's config.json, are left out.             *)
(***************************************************************************)
EXTENDS Integers, Sequences, SequencesExt

CONSTANTS
  QueueCap,   \* length of the kernel queue
  RunDirSet,  \* whether LUNABRIDGE_RUN_DIR is set, a set of BOOLEANs
  Seconds,    \* wall-clock seconds of later starts, counted from the first's
  MaxStarts,  \* bound: starts of the interceptor
  MaxFaults   \* bound: failed writes

ASSUME CaptureAssumption ==
  /\ QueueCap \in Nat /\ RunDirSet \subseteq BOOLEAN /\ Seconds \subseteq Int
  /\ MaxStarts \in Nat /\ MaxFaults \in Nat

VARIABLES
  sameDir,   \* LUNABRIDGE_RUN_DIR: every start writes the same directory
  pcap,      \* every packet that reached N6, as tcpdump sees them
  kernel,    \* places in pcap of the packets waiting for a verdict
  held,      \* place of the packet in _packet_callback, 0 for none
  stage,     \* "down", "run", "record", "verdict", "cleanup"
  starts,    \* processes started
  seconds,   \* wall-clock second each process was started in
  nextId,    \* bundle_seq of this process
  files,     \* of each run directory there is, what was appended to bundles.jsonl
  accepted,  \* places of the packets let through
  dropped,   \* places of the packets the kernel dropped
  faults     \* writes that failed

capture ==
  <<sameDir, pcap, kernel, held, stage, starts, seconds, nextId, files, accepted, dropped, faults>>

-----------------------------------------------------------------------------
(* A packet is the first two bytes of its header and the flow it is of.    *)
Packet(version, tos, flow) ==
  [head |-> IF version = 6 THEN <<96 + tos \div 16, (tos % 16) * 16>> ELSE <<69, tos>>,
   flow |-> flow]
VersionOf(p) == p.head[1] \div 16

extract_dscp(p) ==
  IF VersionOf(p) = 6 THEN ((p.head[1] % 16) * 16 + p.head[2] \div 16) \div 4
  ELSE (p.head[2] \div 4) % 64

classify_packet(dscp) ==
  CASE dscp \in {46, 56, 48, 40} -> "emergency"
    [] dscp \in {34, 36, 38} -> "media"
    [] dscp \in {26, 28, 30, 16} -> "telemetry"
    [] OTHER -> "science_bulk"

(* derive_flow_id() reads every header as IPv4: of IPv6 it makes a name    *)
(* that is not the flow's.                                                 *)
Misread == 0
derive_flow_id(p) == IF VersionOf(p) = 4 THEN p.flow ELSE Misread

RecordOf(id, p) ==
  [id |-> id, flow |-> derive_flow_id(p), cls |-> classify_packet(extract_dscp(p))]

-----------------------------------------------------------------------------
(* bundles.jsonl: each append is a chunk of text, whole or torn, with its  *)
(* newline or without.  `of' is the packet it records, by process `run'.   *)
Chunk(rec, whole, ended) ==
  [rec |-> rec, whole |-> whole, ended |-> ended, of |-> held, run |-> starts]
LineStart(file, k) == k = 1 \/ file[k - 1].ended
Readable(file, k) ==
  LineStart(file, k) /\ file[k].whole /\ (file[k].ended \/ k = Len(file))

(* read_bundles(): the records, line by line; a line that is not one JSON  *)
(* object raises, and nothing is read.                                     *)
ReadFails(file) == \E k \in DOMAIN file : ~Readable(file, k)
read_bundles(file) == [k \in DOMAIN file |-> file[k].rec]

(* traffic_gen/pcap_to_trace.py: the records of the IPv4 packets in order. *)
Converted(recs, p) ==
  IF VersionOf(p) = 4 THEN Append(recs, RecordOf(Len(recs) + 1, p)) ELSE recs
Convert ==
  LET conv[n \in 0..Len(pcap)] == IF n = 0 THEN <<>> ELSE Converted(conv[n - 1], pcap[n])
  IN  conv[Len(pcap)]

-----------------------------------------------------------------------------
CaptureInit ==
  /\ sameDir \in RunDirSet
  /\ pcap = <<>> /\ kernel = <<>> /\ held = 0
  /\ stage = "down" /\ starts = 0 /\ seconds = <<>> /\ nextId = 1 /\ files = <<>>
  /\ accepted = {} /\ dropped = {} /\ faults = 0

(* A packet reaches N6: queued for the interceptor, or dropped when none   *)
(* is bound or the queue is full.                                          *)
Bound == stage # "down"
Undecided == (IF held = 0 THEN <<>> ELSE <<held>>) \o kernel
Arrive(p) ==
  /\ pcap' = Append(pcap, p)
  /\ IF Bound /\ Len(Undecided) < QueueCap
       THEN kernel' = Append(kernel, Len(pcap')) /\ UNCHANGED dropped
       ELSE dropped' = dropped \cup {Len(pcap')} /\ UNCHANGED kernel
  /\ UNCHANGED <<sameDir, held, stage, starts, seconds, nextId, files, accepted, faults>>

(* A mutant of run_dir: the time in the name ends with the minutes.        *)
run_dir_Minute(second) == IF sameDir THEN <<"given">> ELSE <<"run", second \div 60>>

(* The run directory: the operator's, or one named after the second of the *)
(* start.                                                                  *)
run_dir(second) == IF sameDir THEN <<"given">> ELSE <<"run", second>>
Dir == run_dir(seconds[starts])

(* __main__ and start(): the run directory is made, or reused if there is  *)
(* one of its name, the count begins at 1, the queue is bound.  The wall   *)
(* clock may have been set, forward or back.                               *)
StartCapture == \E second \in (IF starts = 0 THEN {0} ELSE Seconds) :
  /\ stage = "down" /\ starts < MaxStarts
  /\ stage' = "run" /\ starts' = starts + 1 /\ nextId' = 1
  /\ seconds' = Append(seconds, second)
  /\ files' = [d \in DOMAIN files \cup {run_dir(second)} |->
                IF d \in DOMAIN files THEN files[d] ELSE <<>>]
  /\ UNCHANGED <<sameDir, pcap, kernel, held, accepted, dropped, faults>>

(* run() hands the oldest packet to _packet_callback, which reads it.      *)
Take ==
  /\ stage = "run" /\ kernel # <<>>
  /\ held' = Head(kernel) /\ kernel' = Tail(kernel) /\ stage' = "record"
  /\ UNCHANGED <<sameDir, pcap, starts, seconds, nextId, files, accepted, dropped, faults>>

AppendText(whole, ended) ==
  files' = [files EXCEPT ![Dir] =
              Append(@, Chunk(RecordOf(nextId, pcap[held]), whole, ended))]

(* A mutant of AfterWrite: a failed write leaves the callback at once.     *)
AfterWrite_NoFinally(failed) == IF failed THEN "run" ELSE "verdict"

AfterWrite(failed) == "verdict"

(* A mutant of Write: the line lacks its newline.                          *)
Write_Unended ==
  /\ stage = "record"
  /\ AppendText(TRUE, FALSE)
  /\ nextId' = nextId + 1 /\ stage' = AfterWrite(FALSE)
  /\ UNCHANGED <<sameDir, pcap, kernel, held, starts, seconds, accepted, dropped, faults>>

(* A mutant of Write: what was written may be written again.               *)
Write_Again ==
  /\ stage = "record"
  /\ AppendText(TRUE, TRUE)
  /\ nextId' = nextId + 1 /\ stage' \in {"record", AfterWrite(FALSE)}
  /\ UNCHANGED <<sameDir, pcap, kernel, held, starts, seconds, accepted, dropped, faults>>

(* _on_packet() and _append(): an id is consumed and one line written.     *)
Write ==
  /\ stage = "record"
  /\ AppendText(TRUE, TRUE)
  /\ nextId' = nextId + 1 /\ stage' = AfterWrite(FALSE)
  /\ UNCHANGED <<sameDir, pcap, kernel, held, starts, seconds, accepted, dropped, faults>>

(* The write fails, before its text, within it or before the newline; the  *)
(* error is logged.                                                        *)
WriteFails ==
  /\ stage = "record" /\ faults < MaxFaults
  /\ \/ UNCHANGED files
     \/ AppendText(FALSE, FALSE)
     \/ AppendText(TRUE, FALSE)
  /\ nextId' = nextId + 1 /\ stage' = AfterWrite(TRUE) /\ faults' = faults + 1
  /\ UNCHANGED <<sameDir, pcap, kernel, held, starts, seconds, accepted, dropped>>

(* packet.accept(), the finally of _packet_callback.                       *)
Accept ==
  /\ stage = "verdict"
  /\ accepted' = accepted \cup {held} /\ held' = 0 /\ stage' = "run"
  /\ UNCHANGED <<sameDir, pcap, kernel, starts, seconds, nextId, files, dropped, faults>>

(* Ctrl-C is no Exception: it leaves _on_packet at any point, an id taken  *)
(* or not, and the finally accepts the packet all the same; in the finally *)
(* itself it can come before the verdict.                                  *)
Interrupt ==
  /\ stage \in {"run", "record", "verdict"}
  /\ \/ stage = "verdict" /\ UNCHANGED <<held, accepted, nextId>>
     \/ /\ nextId' \in (IF stage = "record" THEN {nextId, nextId + 1} ELSE {nextId})
        /\ accepted' = accepted \cup ({held} \ {0}) /\ held' = 0
  /\ stage' = "cleanup"
  /\ UNCHANGED <<sameDir, pcap, kernel, starts, seconds, files, dropped, faults>>

(* The queue is gone, and the packets in it with it.                       *)
Unbound ==
  /\ dropped' = dropped \cup ToSet(Undecided) /\ kernel' = <<>>
  /\ held' = 0 /\ stage' = "down"
  /\ UNCHANGED <<sameDir, pcap, starts, seconds, nextId, files, accepted, faults>>

(* _cleanup(): unbinds.                                                    *)
Cleanup == stage = "cleanup" /\ Unbound

(* The process is killed.                                                  *)
Kill == stage # "down" /\ Unbound

CaptureStep == Take \/ Write \/ Accept \/ Cleanup
=============================================================================
