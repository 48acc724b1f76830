----------------------------- MODULE FwUpgrade -----------------------------
(***************************************************************************)
(* The firmware upgrade of a PRIME network:                                *)
(* src/primeBN_linux/base_node_mng_fw_upgrade.c.  The thread of the        *)
(* command line prepares the modem of the base node, transfers the image   *)
(* to it in frames, has it check the CRC and starts the upgrade, one       *)
(* request after the other; the usi thread runs the callbacks.  The serial *)
(* link and the modem are external: requests and acks go in order, and     *)
(* either may be lost.                                                     *)
(***************************************************************************)
EXTENDS Integers, Sequences

CONSTANTS
    Sizes,         \* of images, in units of CHUNKSIZE >> 4 bytes
    Tries,         \* MAX_NUM_TRIES_TRANSFER
    NumTargets,    \* service nodes with fwup_en
    Signed,        \* fu_options.sign_algo is not 0
    Env,           \* what the link and the modem may do, see below
    MaxLate,       \* bound: requests given up with their acks still to come
    MaxOps         \* bound: downloads and starts

(* "loss": a request or an ack is lost.  "nack": the modem refuses a       *)
(* request.  "late": an ack takes more than 3 seconds.  "status": a status *)
(* indication comes while a request waits for its ack.                     *)
ASSUME UpgradeAssumption ==
    /\ Sizes \subseteq Nat /\ Tries \in Nat \ {0} /\ NumTargets \in Nat /\ Signed \in BOOLEAN
    /\ Env \subseteq {"loss", "nack", "late", "status"}
    /\ MaxLate \in Nat /\ MaxOps \in Nat

ChunkSize == 16
Least(a, b) == IF a < b THEN a ELSE b

VARIABLES
    at,            \* the request that is due or waited for, or "idle"
    target,        \* the entry of the list that is to be added
    size,          \* of the file at binarypath
    file,          \* the transfer: chunk, frame (frame_num), pos and nbytes (what
                   \* has been read, and last), tries, frameTries, extra
    sync,          \* g_prime_sync_mgmt: req, res, cmd, status; sent: the request
                   \* whose flags these are is on its way
    result,        \* history: what the last operation returned
    status,        \* fup_global_status
    requests, acks,\* external: the serial link
    modem,         \* external: targets, chunk, image, running
    late,          \* history: requests given up with their acks still to come
    crossed,       \* history: an ack has been taken for a request not yet sent
    ops

vars == <<size, at, target, file, sync, result, status, requests, acks, modem, late, crossed, ops>>

Init ==
    /\ size \in Sizes
    /\ at = "idle" /\ target = 0
    /\ file = [chunk |-> ChunkSize, frame |-> 0, pos |-> 0, nbytes |-> 0,
               tries |-> 0, frameTries |-> 0, extra |-> FALSE]
    /\ sync = [req |-> FALSE, res |-> FALSE, cmd |-> "none", status |-> "ok",
               sent |-> FALSE]
    /\ result = "none" /\ status = "IDLE"
    /\ requests = <<>> /\ acks = <<>>
    /\ modem = [targets |-> {}, chunk |-> ChunkSize, image |-> {}, running |-> FALSE]
    /\ late = 0 /\ crossed = FALSE /\ ops = 0

-----------------------------------------------------------------------------
(* The requests: the functions named ..._request_sync all have this form.  *)

Request ==
    CASE at = "add"   -> [cmd |-> at, sn |-> target]
      [] at = "init"  -> [cmd |-> at, frames |-> file.frame + 1, chunk |-> file.chunk]
      [] at = "frame" -> [cmd |-> at, num |-> file.frame, first |-> file.pos - file.nbytes,
                          len |-> file.nbytes]
      [] OTHER        -> [cmd |-> at]

(* The flags are set.  The command is still that of the request before. *)
Begin ==
    /\ at # "idle" /\ ~sync.req
    /\ sync' = [sync EXCEPT !.req = TRUE, !.res = FALSE]
    /\ UNCHANGED <<size, at, target, file, result, status, requests, acks, modem, late, crossed,
                   ops>>

(* The command is set, and the request is sent. *)
Ask ==
    /\ sync.req /\ ~sync.sent
    /\ sync' = [sync EXCEPT !.cmd = at, !.sent = TRUE]
    /\ requests' = Append(requests, Request)
    /\ UNCHANGED <<size, at, target, file, result, status, acks, modem, late, crossed, ops>>

(* addUsi_WaitProcessing ends with the flag, or after PRIME_SYNC_TIMEOUT. *)
InFlight == Len(requests) + Len(acks)
WaitIsOver == sync.res \/ InFlight = 0 \/ ("late" \in Env /\ late < MaxLate)

(* The request that waits returns; Ok is what its caller finds. *)
Ok == sync.res /\ sync.status = "ok"
Answered(step) ==
    /\ at = step /\ sync.sent /\ WaitIsOver
    /\ sync' = [sync EXCEPT !.req = FALSE, !.res = FALSE, !.sent = FALSE]
    /\ late' = IF ~sync.res /\ InFlight > 0 THEN late + 1 ELSE late
    /\ UNCHANGED <<size, requests, acks, modem, crossed, ops>>

Return(r) == at' = "idle" /\ result' = r

-----------------------------------------------------------------------------
(* fw_upgrade_download *)

Download ==
    /\ at = "idle" /\ ops < MaxOps
    /\ ops' = ops + 1
    /\ at' = "options" /\ target' = 1 /\ result' = "none"
    /\ UNCHANGED <<size, file, sync, status, requests, acks, modem, late, crossed>>

(* What follows an ack, up to the transfer. *)
Following(step) ==
    CASE step = "options"   -> "clear"
      [] step = "clear"     -> IF NumTargets = 0 THEN "data" ELSE "add"
      [] step = "add"       -> IF target < NumTargets THEN "add" ELSE "data"
      [] step = "data"      -> "rule"
      [] step = "rule"      -> IF Signed THEN "signature" ELSE "init"
      [] step = "signature" -> "init"

Preparing == {"options", "clear", "add", "data", "rule", "signature"}

(* The length of the file is looked at before its transfer. *)
Opened == [chunk |-> ChunkSize, frame |-> size \div ChunkSize, pos |-> 0, nbytes |-> 0,
           tries |-> Tries, frameTries |-> 0, extra |-> size % ChunkSize = 0]

Prepared(step) ==
    /\ Answered(step)
    /\ IF Ok
         THEN /\ at' = Following(step)
              /\ target' = IF step = "add" THEN target + 1 ELSE target
              /\ file' = IF Following(step) = "init" THEN Opened ELSE file
              /\ UNCHANGED result
         ELSE Return("failed") /\ UNCHANGED <<target, file>>
    /\ UNCHANGED status

(* Mistake: what fread returns is not looked at. *)
ReadFull(f) == [f EXCEPT !.nbytes = f.chunk, !.pos = @ + f.chunk]

(* The next chunk is read into the buffer. *)
Read(f) ==
    LET n == Least(f.chunk, size - f.pos)
    IN  [f EXCEPT !.nbytes = n, !.pos = @ + n]

(* Mistake: the file is not set back to its start. *)
RewoundNot(f) == Read([f EXCEPT !.frame = 1, !.frameTries = Tries])

(* The transfer begins at the first frame and the start of the file. *)
Rewound(f) == Read([f EXCEPT !.frame = 1, !.frameTries = Tries, !.pos = 0])

More(f) == f.nbytes # 0 \/ f.extra

InitAnswered ==
    /\ Answered("init")
    /\ IF Ok THEN /\ file' = Rewound(file)
                  /\ at' = IF More(file') THEN "frame" ELSE "crc"
                  /\ UNCHANGED result
             ELSE Return("failed") /\ UNCHANGED file
    /\ UNCHANGED <<target, status>>

(* Mistake: the tries of a frame are not counted. *)
AfterFrameRetrying(f, acked) ==
    LET g == IF acked THEN [Read(f) EXCEPT !.frame = @ + 1, !.frameTries = Tries] ELSE f
    IN  [g EXCEPT !.extra = @ /\ g.nbytes # 0]

(* A frame that is acked is followed by the next, another is sent again;   *)
(* the frame of 0 bytes is called off once the file has been read.         *)
AfterFrame(f, acked) ==
    LET g == IF acked THEN [Read(f) EXCEPT !.frame = @ + 1, !.frameTries = Tries]
                      ELSE [f EXCEPT !.frameTries = @ - 1]
    IN  [g EXCEPT !.extra = @ /\ g.nbytes # 0]

(* After the last try of a frame the transfer starts over with smaller     *)
(* frames, and its length is given as the number of the frame that failed. *)
FrameAnswered ==
    LET f == AfterFrame(file, Ok)
    IN  /\ Answered("frame")
        /\ IF f.frameTries = 0
             THEN /\ file' = [f EXCEPT !.chunk = @ \div 4, !.tries = @ - 1]
                  /\ IF f.tries = 1 THEN Return("failed") ELSE at' = "init" /\ UNCHANGED result
             ELSE /\ file' = f
                  /\ at' = IF More(f) THEN "frame" ELSE "crc"
                  /\ UNCHANGED result
        /\ UNCHANGED <<target, status>>

(* Mistake: an ack of the check counts, whatever it says. *)
CrcAnsweredAnyhow ==
    /\ Answered("crc")
    /\ IF sync.res
         THEN Return("success") /\ status' = "IDLE"
         ELSE Return("failed") /\ UNCHANGED status
    /\ UNCHANGED <<target, file>>

CrcAnswered ==
    /\ Answered("crc")
    /\ IF Ok THEN Return("success") /\ status' = "IDLE"
             ELSE Return(IF sync.res THEN "bad crc" ELSE "failed") /\ UNCHANGED status
    /\ UNCHANGED <<target, file>>

-----------------------------------------------------------------------------
(* fw_upgrade_start, to enable: its only caller is the command line, in   *)
(* base_node_manager_vty.c, with 1.                                        *)
Start ==
    /\ at = "idle" /\ ops < MaxOps
    /\ ops' = ops + 1
    /\ at' = "start" /\ result' = "none"
    /\ UNCHANGED <<size, target, file, sync, status, requests, acks, modem, late, crossed>>

(* Mistake: the status is set before the ack is looked at. *)
StartAnsweredAnyhow ==
    /\ Answered("start")
    /\ Return(IF Ok THEN "started" ELSE "failed")
    /\ status' = "RUNNING"
    /\ UNCHANGED <<target, file>>

StartAnswered ==
    /\ Answered("start")
    /\ IF Ok THEN Return("started") /\ status' = "RUNNING"
             ELSE Return("failed") /\ UNCHANGED status
    /\ UNCHANGED <<target, file>>

-----------------------------------------------------------------------------
(* The callbacks *)

(* prime_bmng_fup_ack_ind_msg_cb: the status is cleared, to what means OK, *)
(* before it is seen whether the ack is of the request that waits.  One    *)
(* that comes between the flags and the command of a request is compared   *)
(* with the command of the request before.                                 *)
AckInd ==
    /\ acks # <<>>
    /\ acks' = Tail(acks)
    /\ sync' = IF sync.req /\ sync.cmd = Head(acks).cmd
                 THEN [sync EXCEPT !.status = Head(acks).status, !.res = TRUE]
                 ELSE [sync EXCEPT !.status = "ok"]
    /\ crossed' = (crossed \/ (sync'.res /\ ~sync.sent))
    /\ UNCHANGED <<size, at, target, file, result, status, requests, modem, late, ops>>

(* prime_bmng_fup_status_ind_msg_cb; the last one of an upgrade is for     *)
(* all.  Any request that waits is over.  A version indication does as     *)
(* much as one that is not the last.                                       *)
StatusInd(last) ==
    /\ modem.running
    /\ sync.req => "status" \in Env
    /\ IF last THEN status' = "FINISH" /\ modem' = [modem EXCEPT !.running = FALSE]
               ELSE UNCHANGED <<status, modem>>
    /\ sync' = [sync EXCEPT !.res = @ \/ sync.req]
    /\ UNCHANGED <<size, at, target, file, result, requests, acks, late, crossed, ops>>

-----------------------------------------------------------------------------
(* External: the modem does what it is asked, and acks it, or refuses. *)

Whole == {<<u, u>> : u \in 0 .. size - 1}

(* A frame goes to the place its number gives. *)
Stored(m, r) ==
    LET place == (r.num - 1) * m.chunk
        new   == {<<place + i, r.first + i>> : i \in 0 .. r.len - 1}
    IN  [m EXCEPT !.image = {p \in @ : p[1] \notin place .. place + r.len - 1} \cup new]

Done(m, r) ==
    CASE r.cmd = "clear" -> [m EXCEPT !.targets = {}]
      [] r.cmd = "add"   -> [m EXCEPT !.targets = @ \cup {r.sn}]
      [] r.cmd = "init"  -> [m EXCEPT !.image = {}, !.chunk = r.chunk]
      [] r.cmd = "frame" -> Stored(m, r)
      [] r.cmd = "start" -> [m EXCEPT !.running = TRUE]
      [] OTHER           -> m

ModemActs ==
    /\ requests # <<>>
    /\ requests' = Tail(requests)
    /\ LET r  == Head(requests)
           ok == r.cmd = "crc" => modem.image = Whole
       IN  \/ /\ modem' = Done(modem, r)
              /\ acks' = Append(acks, [cmd |-> r.cmd, status |-> IF ok THEN "ok" ELSE "error"])
           \/ /\ "nack" \in Env /\ r.cmd # "crc"
              /\ acks' = Append(acks, [cmd |-> r.cmd, status |-> "error"])
              /\ UNCHANGED modem
    /\ UNCHANGED <<size, at, target, file, sync, result, status, late, crossed, ops>>

Lose ==
    /\ "loss" \in Env
    /\ \/ requests # <<>> /\ requests' = Tail(requests) /\ UNCHANGED acks
       \/ acks # <<>> /\ acks' = Tail(acks) /\ UNCHANGED requests
    /\ UNCHANGED <<size, at, target, file, sync, result, status, modem, late, crossed, ops>>

-----------------------------------------------------------------------------
Thread ==
    \/ Begin \/ Ask
    \/ \E step \in Preparing : Prepared(step)
    \/ InitAnswered \/ FrameAnswered \/ CrcAnswered \/ StartAnswered

Next ==
    \/ Download \/ Start \/ Thread
    \/ AckInd
    \/ \E last \in BOOLEAN : StatusInd(last)
    \/ ModemActs \/ Lose

Spec == Init /\ [][Next]_vars

(* The threads run and a wait ends, after 3 seconds at the latest; what is *)
(* on the link gets through it, or is lost.                                *)
FairSpec == Spec /\ WF_vars(Thread) /\ WF_vars(AckInd) /\ WF_vars(ModemActs)

-----------------------------------------------------------------------------
(* The types; a chunk fits the buffer, whose size is that of the first. *)
TypeOK ==
    /\ at \in Preparing \cup {"idle", "init", "frame", "crc", "start"}
    /\ target \in 0 .. NumTargets + 1
    /\ file.chunk \in {16, 4, 1, 0} /\ file.frame \in Nat
    /\ file.nbytes \in 0 .. ChunkSize /\ file.pos \in 0 .. size
    /\ file.tries \in 0 .. Tries /\ file.frameTries \in 0 .. Tries
    /\ sync.req \in BOOLEAN /\ sync.res \in BOOLEAN /\ sync.status \in {"ok", "error"}
    /\ sync.sent \in BOOLEAN /\ crossed \in BOOLEAN
    /\ (sync.res => sync.req) /\ (sync.sent => sync.req /\ sync.cmd = at)
    /\ result \in {"none", "failed", "bad crc", "success", "started"}
    /\ status \in {"IDLE", "RUNNING", "FINISH"} /\ late \in Nat

(* A download that returns SUCCESS has left the modem with every byte of   *)
(* the image in its place and with the targets of this download alone,     *)
(* though acks are lost, and come late, and are matched by the command     *)
(* alone, so that one of a frame sent twice stands for the next.  An ack   *)
(* taken before the request is sent misleads it at once: the check of the  *)
(* CRC passes with the ack of a frame.  Otherwise it takes three late      *)
(* acks, of the options, the clear and the add, which then answer for      *)
(* those of a later download.                                              *)
SuccessIsComplete ==
    result = "success" /\ late <= 2 /\ ~crossed
        => modem.image = Whole /\ modem.targets = 1 .. NumTargets

(* Where every ack comes in time or not at all, the modem finds nothing    *)
(* wrong with an image: frames sent again, and transfers started over with *)
(* smaller frames, leave neither gaps nor bytes of the wrong place.        *)
ImageIsGood == result = "bad crc" => late > 0

(* Where acks come in time or not at all, fup_global_status is RUNNING     *)
(* only while the modem runs the upgrade.                                  *)
RunningIsRunning == status = "RUNNING" => modem.running \/ late > 0

(* A download and a start come to an end, whatever fails: the tries of a   *)
(* frame, of the transfer and of a request are all bounded.                *)
OperationEnds == at # "idle" ~> at = "idle"
=============================================================================
