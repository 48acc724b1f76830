-------------------------- MODULE FwUpgradeProofs --------------------------
(***************************************************************************)
(* Theorems about FwUpgrade and their proofs, for images of every size,    *)
(* every number of targets and every behaviour of the link.                *)
(***************************************************************************)
EXTENDS FwUpgrade, TLAPS

Steps    == Preparing \cup {"init", "frame", "crc", "start"}
Statuses == {"ok", "error"}

Files == [chunk : {16, 4, 1, 0}, frame : Nat, pos : Nat, nbytes : 0 .. ChunkSize,
          tries : 0 .. Tries, frameTries : 0 .. Tries, extra : BOOLEAN]
Syncs == [req : BOOLEAN, res : BOOLEAN, cmd : Steps \cup {"none"}, status : Statuses,
          sent : BOOLEAN]
Acks  == [cmd : Steps, status : Statuses]
Requests ==
    [cmd : Steps] \cup [cmd : {"add"}, sn : Nat]
    \cup [cmd : {"init"}, frames : Nat, chunk : Nat]
    \cup [cmd : {"frame"}, num : Nat, first : Int, len : Nat]

-----------------------------------------------------------------------------
(* Types *)

(* Where the operation is in the list of targets, and that what it is      *)
(* about to do again has tries left.                                       *)
TargetOK ==
    /\ at \in {"options", "clear"} => target = 1
    /\ at = "add" => target \in 1 .. NumTargets
    /\ at \in {"data", "rule", "signature", "init", "frame", "crc"} => target = NumTargets + 1

TriesOK ==
    /\ at \in {"init", "frame"} => file.tries >= 1
    /\ at = "frame" => file.frameTries >= 1

(* One request waits at a time, and when sent it is the one that is due. *)
SyncOK ==
    /\ sync \in Syncs
    /\ sync.res => sync.req
    /\ sync.sent => sync.req /\ sync.cmd = at
    /\ sync.req => at # "idle"

LinkOK == requests \in Seq(Requests) /\ acks \in Seq(Acks)

PlaceOK ==
    /\ at \in Steps \cup {"idle"}
    /\ target \in 0 .. NumTargets + 1
    /\ size \in Nat
    /\ file \in Files /\ file.pos =< size
    /\ result \in {"none", "failed", "bad crc", "success", "started"}
    /\ status \in {"IDLE", "RUNNING", "FINISH"}
    /\ late \in Nat
    /\ TargetOK
    /\ TriesOK

TypesOK == PlaceOK /\ SyncOK /\ LinkOK

LEMMA TypesGiveType == TypesOK /\ crossed \in BOOLEAN => TypeOK
<1> SUFFICES ASSUME TypesOK, crossed \in BOOLEAN PROVE TypeOK
  OBVIOUS
<1>1. /\ file.chunk \in {16, 4, 1, 0} /\ file.frame \in Nat
      /\ file.nbytes \in 0 .. ChunkSize /\ file.pos \in Nat
      /\ file.tries \in 0 .. Tries /\ file.frameTries \in 0 .. Tries
  BY DEF TypesOK, PlaceOK, Files
<1>2. file.pos \in 0 .. size
  <2>1. size \in Nat /\ file.pos =< size
    BY DEF TypesOK, PlaceOK
  <2>2. file.pos \in Nat
    BY <1>1
  <2> QED  BY <2>1, <2>2
<1>3. sync.req \in BOOLEAN /\ sync.res \in BOOLEAN /\ sync.status \in {"ok", "error"}
      /\ sync.sent \in BOOLEAN
  BY DEF TypesOK, SyncOK, Syncs, Statuses
<1>4. at \in Preparing \cup {"idle", "init", "frame", "crc", "start"}
  BY DEF TypesOK, PlaceOK, Steps
<1> QED  BY <1>1, <1>2, <1>3, <1>4 DEF TypesOK, PlaceOK, SyncOK, TypeOK

LEMMA TypesInit == Init => TypesOK
  BY UpgradeAssumption
  DEF Init, TypesOK, PlaceOK, SyncOK, LinkOK, TargetOK, TriesOK, Files, Syncs, Steps, Statuses,
      Preparing, ChunkSize, Requests, Acks

LEMMA FileFields ==
    ASSUME NEW f \in Files
    PROVE  /\ f.chunk \in {16, 4, 1, 0} /\ f.frame \in Nat /\ f.pos \in Nat
           /\ f.nbytes \in 0 .. ChunkSize /\ f.tries \in 0 .. Tries
           /\ f.frameTries \in 0 .. Tries /\ f.extra \in BOOLEAN
  BY DEF Files

(* The next chunk stays within the file, and within the buffer. *)
LEMMA LeastType ==
    ASSUME NEW c \in {16, 4, 1, 0}, NEW left \in Nat
    PROVE  /\ Least(c, left) \in 0 .. ChunkSize /\ Least(c, left) =< left
           /\ Least(c, left) = c \/ Least(c, left) = left
  BY DEF Least, ChunkSize

LEMMA ReadType ==
    ASSUME size \in Nat, NEW f \in Files, f.pos =< size,
           NEW n, n = Least(f.chunk, size - f.pos)
    PROVE  /\ n \in 0 .. ChunkSize /\ f.pos + n \in Nat /\ f.pos + n =< size
           /\ n = f.chunk \/ f.pos + n = size
           /\ Read(f) = [f EXCEPT !.nbytes = n, !.pos = f.pos + n]
<1>1. f.pos \in Nat /\ f.chunk \in {16, 4, 1, 0}
  BY FileFields
<1>2. size - f.pos \in Nat
  BY <1>1
<1>3. n \in 0 .. ChunkSize /\ n =< size - f.pos /\ (n = f.chunk \/ n = size - f.pos)
  BY <1>1, <1>2, LeastType
<1>4. n \in Nat
  BY <1>3 DEF ChunkSize
<1>5. f.pos + n \in Nat /\ f.pos + n =< size /\ (n = f.chunk \/ f.pos + n = size)
  BY <1>1, <1>3, <1>4
<1>6. Read(f) = [f EXCEPT !.nbytes = n, !.pos = f.pos + n]
  BY DEF Read
<1> QED  BY <1>3, <1>5, <1>6

(* fw_upgrade_download opens the file before the transfer ... *)
LEMMA OpenedType ==
    ASSUME size \in Nat
    PROVE  Opened \in Files /\ Opened.pos = 0 /\ Opened.tries = Tries /\ Opened.chunk = 16
  BY UpgradeAssumption DEF Opened, Files, ChunkSize

(* ... and sets it back to its start when the modem is ready for it. *)
LEMMA RewoundType ==
    ASSUME size \in Nat, NEW f \in Files,
           NEW n, n = Least(f.chunk, size)
    PROVE  /\ n \in 0 .. ChunkSize /\ n =< size /\ (n = f.chunk \/ n = size)
           /\ Rewound(f) \in Files
           /\ Rewound(f).frame = 1 /\ Rewound(f).pos = n /\ Rewound(f).nbytes = n
           /\ Rewound(f).frameTries = Tries /\ Rewound(f).extra = f.extra
           /\ Rewound(f).chunk = f.chunk /\ Rewound(f).tries = f.tries
<1> DEFINE g == [f EXCEPT !.frame = 1, !.frameTries = Tries, !.pos = 0]
<1>7. f.extra \in BOOLEAN /\ Tries \in 0 .. Tries /\ 1 \in Nat /\ 0 \in Nat
  BY FileFields, UpgradeAssumption
<1>1. g \in Files /\ g.pos = 0 /\ g.chunk = f.chunk
  BY <1>7 DEF Files
<1>2. Rewound(f) = Read(g)
  BY DEF Rewound
<1>3. n = Least(g.chunk, size - g.pos) /\ g.pos =< size
  BY <1>1
<1>4. /\ n \in 0 .. ChunkSize /\ g.pos + n = n /\ n =< size /\ (n = f.chunk \/ n = size)
      /\ n \in Nat
  <2> HIDE DEF g
  <2>1. /\ n \in 0 .. ChunkSize /\ g.pos + n \in Nat /\ g.pos + n =< size
        /\ n = g.chunk \/ g.pos + n = size
    BY <1>1, <1>3, ReadType
  <2>2. n \in Nat
    BY <2>1 DEF ChunkSize
  <2> QED  BY <1>1, <2>1, <2>2
<1>5. Read(g) = [g EXCEPT !.nbytes = n, !.pos = n]
  <2> HIDE DEF g
  <2> QED  BY <1>1, <1>3, <1>4, ReadType
<1>6. Rewound(f) = [f EXCEPT !.frame = 1, !.pos = n, !.nbytes = n, !.frameTries = Tries,
                             !.extra = f.extra]
  BY <1>2, <1>5 DEF Files
<1> DEFINE h == Rewound(f)
<1>8. h = [f EXCEPT !.frame = 1, !.pos = n, !.nbytes = n, !.frameTries = Tries, !.extra = f.extra]
  BY <1>6
<1> HIDE DEF h
<1>9. /\ h \in Files /\ h.frame = 1 /\ h.pos = n /\ h.nbytes = n
      /\ h.frameTries = Tries /\ h.extra = f.extra /\ h.chunk = f.chunk /\ h.tries = f.tries
  BY <1>4, <1>7, <1>8 DEF Files
<1> QED  BY <1>4, <1>9 DEF h

(* A frame acked is followed by the next chunk ... *)
LEMMA AckedType ==
    ASSUME size \in Nat, NEW f \in Files, f.pos =< size, NEW g, g = AfterFrame(f, TRUE),
           NEW n, n = Least(f.chunk, size - f.pos)
    PROVE  /\ n \in 0 .. ChunkSize /\ f.pos + n \in Nat /\ f.pos + n =< size
           /\ n = f.chunk \/ f.pos + n = size
           /\ g \in Files
           /\ g.frame = f.frame + 1 /\ g.pos = f.pos + n /\ g.nbytes = n
           /\ g.frameTries = Tries /\ (g.extra => n # 0)
           /\ g.chunk = f.chunk /\ g.tries = f.tries
<1>1. /\ n \in 0 .. ChunkSize /\ f.pos + n \in Nat /\ f.pos + n =< size
      /\ n = f.chunk \/ f.pos + n = size
      /\ Read(f) = [f EXCEPT !.nbytes = n, !.pos = f.pos + n]
  BY ReadType
<1>2. f.frame + 1 \in Nat /\ (f.extra /\ n # 0) \in BOOLEAN /\ Tries \in 0 .. Tries
  BY FileFields, UpgradeAssumption
<1> DEFINE p == f.pos + n
           fr == f.frame + 1
           e == f.extra /\ n # 0
<1>3. Read(f) = [f EXCEPT !.nbytes = n, !.pos = p]
  BY <1>1
<1>4. AfterFrame(f, TRUE) = [[Read(f) EXCEPT !.frame = @ + 1, !.frameTries = Tries]
                              EXCEPT !.extra = @ /\ [Read(f) EXCEPT !.frame = @ + 1, !.frameTries = Tries].nbytes # 0]
  BY DEF AfterFrame
<1>5. g = [f EXCEPT !.frame = fr, !.pos = p, !.nbytes = n, !.frameTries = Tries,
                    !.extra = e]
  <2> HIDE DEF p
  <2> QED  BY <1>3, <1>4 DEF Files
<1> HIDE DEF p, fr, e
<1>6. p \in Nat /\ fr \in Nat /\ e \in BOOLEAN
  BY <1>1, <1>2 DEF p, fr, e
<1>7. /\ g \in Files /\ g.frame = fr /\ g.pos = p /\ g.nbytes = n /\ g.frameTries = Tries
      /\ g.extra = e /\ g.chunk = f.chunk /\ g.tries = f.tries
  BY <1>1, <1>2, <1>5, <1>6 DEF Files
<1> QED  BY <1>1, <1>7 DEF p, fr, e

(* ... another is tried again, with one try less. *)
LEMMA NotAckedType ==
    ASSUME size \in Nat, NEW f \in Files, f.frameTries >= 1, NEW g, g = AfterFrame(f, FALSE)
    PROVE  /\ g \in Files
           /\ g.frame = f.frame /\ g.pos = f.pos /\ g.nbytes = f.nbytes
           /\ g.frameTries = f.frameTries - 1 /\ (g.extra => f.nbytes # 0)
           /\ g.chunk = f.chunk /\ g.tries = f.tries
<1> DEFINE ft == f.frameTries - 1
           e == f.extra /\ f.nbytes # 0
<1>1. /\ ft \in 0 .. Tries /\ e \in BOOLEAN
      /\ f.frame \in Nat /\ f.pos \in Nat /\ f.nbytes \in 0 .. ChunkSize
  BY FileFields, UpgradeAssumption
<1>2. AfterFrame(f, FALSE) = [[f EXCEPT !.frameTries = @ - 1]
                               EXCEPT !.extra = @ /\ [f EXCEPT !.frameTries = @ - 1].nbytes # 0]
  BY DEF AfterFrame
<1>3. g = [f EXCEPT !.frame = f.frame, !.pos = f.pos, !.nbytes = f.nbytes, !.frameTries = ft,
                    !.extra = e]
  BY <1>2 DEF Files
<1> HIDE DEF ft, e
<1>4. /\ g \in Files /\ g.frame = f.frame /\ g.pos = f.pos /\ g.nbytes = f.nbytes
      /\ g.frameTries = ft /\ g.extra = e
      /\ g.chunk = f.chunk /\ g.tries = f.tries
  BY <1>1, <1>3 DEF Files
<1> QED  BY <1>4 DEF ft, e
-----------------------------------------------------------------------------
(* What is asked for is a request, and what is answered was asked for. *)
LEMMA RequestType == ASSUME TypesOK, at # "idle" PROVE Request \in Requests
<1>1. /\ at \in Steps /\ target \in Nat /\ file.frame \in Nat /\ file.frame + 1 \in Nat
      /\ file.chunk \in Nat /\ file.nbytes \in Nat /\ file.pos - file.nbytes \in Int
  <2>1. /\ at \in Steps /\ target \in 0 .. NumTargets + 1 /\ NumTargets \in Nat /\ file \in Files
    BY UpgradeAssumption DEF TypesOK, PlaceOK
  <2>2. /\ file.frame \in Nat /\ file.chunk \in {16, 4, 1, 0} /\ file.pos \in Nat
        /\ file.nbytes \in 0 .. 16
    BY <2>1, FileFields DEF ChunkSize
  <2> QED  BY <2>1, <2>2
<1>2. CASE at = "add"
  BY <1>1, <1>2 DEF Request, Requests
<1>3. CASE at = "init"
  BY <1>1, <1>3 DEF Request, Requests
<1>4. CASE at = "frame"
  <2> DEFINE first == file.pos - file.nbytes
  <2>1. Request = [cmd |-> "frame", num |-> file.frame, first |-> first, len |-> file.nbytes]
    BY <1>4 DEF Request
  <2>2. first \in Int
    BY <1>1
  <2> HIDE DEF first
  <2> QED  BY <1>1, <2>1, <2>2 DEF Requests
<1>5. CASE at \notin {"add", "init", "frame"}
  BY <1>1, <1>5 DEF Request, Requests
<1> QED  BY <1>2, <1>3, <1>4, <1>5

LEMMA RequestCmd == ASSUME NEW r \in Requests PROVE r.cmd \in Steps
  BY DEF Requests, Steps, Preparing

LEMMA AnsweredType ==
    ASSUME TypesOK, NEW step, Answered(step)
    PROVE  /\ SyncOK' /\ LinkOK' /\ late' \in Nat /\ size' \in Nat
           /\ at = step /\ sync.req /\ size' = size
           /\ ~sync'.req /\ ~sync'.res
<1>1. sync' = [sync EXCEPT !.req = FALSE, !.res = FALSE, !.sent = FALSE] /\ sync \in Syncs
  BY DEF Answered, TypesOK, SyncOK
<1>2. sync' \in Syncs /\ ~sync'.req /\ ~sync'.res /\ ~sync'.sent
  BY <1>1 DEF Syncs
<1>3. late' \in Nat
  <2>1. late \in Nat
    BY DEF TypesOK, PlaceOK
  <2>2. late' = late \/ late' = late + 1
    BY DEF Answered
  <2> QED  BY <2>1, <2>2
<1> QED  BY <1>2, <1>3 DEF Answered, TypesOK, SyncOK, LinkOK, PlaceOK

LEMMA TypesNext == TypesOK /\ [Next]_vars => TypesOK'
<1> SUFFICES ASSUME TypesOK, [Next]_vars PROVE TypesOK'
  OBVIOUS
<1>f. /\ at \in Steps \cup {"idle"} /\ target \in 0 .. NumTargets + 1 /\ size \in Nat
      /\ file \in Files /\ file.pos =< size /\ late \in Nat
      /\ result \in {"none", "failed", "bad crc", "success", "started"}
      /\ status \in {"IDLE", "RUNNING", "FINISH"} /\ TargetOK /\ TriesOK
  BY DEF TypesOK, PlaceOK
<1>t. Tries \in Nat \ {0} /\ NumTargets \in Nat
  BY UpgradeAssumption
<1>1. CASE Download \/ Start
  <2>1. at = "idle" /\ ~sync.req
    BY <1>1 DEF Download, Start, TypesOK, SyncOK
  <2>2. SyncOK' /\ LinkOK'
    BY <1>1, <2>1 DEF Download, Start, TypesOK, SyncOK, LinkOK
  <2>3. PlaceOK'
    <3>1. CASE Download
      <4>1. at' = "options" /\ target' = 1 /\ result' = "none"
            /\ UNCHANGED <<size, file, status, late>>
        BY <3>1 DEF Download
      <4>2. TargetOK' /\ TriesOK'
        BY <4>1 DEF TargetOK, TriesOK
      <4>3. target' \in 0 .. NumTargets + 1
        BY <1>t, <4>1
      <4> QED  BY <1>f, <4>1, <4>2, <4>3 DEF PlaceOK, Steps, Preparing
    <3>2. CASE Start
      <4>1. at' = "start" /\ result' = "none" /\ UNCHANGED <<size, target, file, status, late>>
        BY <3>2 DEF Start
      <4>2. TargetOK' /\ TriesOK'
        BY <4>1 DEF TargetOK, TriesOK
      <4> QED  BY <1>f, <4>1, <4>2 DEF PlaceOK, Steps
    <3> QED  BY <1>1, <3>1, <3>2
  <2> QED  BY <2>2, <2>3 DEF TypesOK
<1>b. CASE Begin
  <2>1. sync' = [sync EXCEPT !.req = TRUE, !.res = FALSE] /\ sync \in Syncs /\ ~sync.sent
        /\ at # "idle" /\ UNCHANGED <<size, at, target, file, result, status, requests, acks, late>>
    BY <1>b DEF Begin, TypesOK, SyncOK
  <2>2. sync' \in Syncs /\ ~sync'.res /\ ~sync'.sent
    BY <2>1 DEF Syncs
  <2> QED  BY <2>1, <2>2 DEF TypesOK, PlaceOK, SyncOK, LinkOK, TargetOK, TriesOK
<1>2. CASE Ask
  <2>0. at # "idle"
    BY <1>2 DEF Ask, TypesOK, SyncOK
  <2>1. Request \in Requests
    BY <2>0, RequestType
  <2>2. LinkOK'
    BY <1>2, <2>1 DEF Ask, TypesOK, LinkOK
  <2>3. sync' = [sync EXCEPT !.cmd = at, !.sent = TRUE] /\ sync \in Syncs
        /\ sync.req /\ at' = at /\ at \in Steps
    BY <1>2, <1>f, <2>0 DEF Ask, TypesOK, SyncOK
  <2>4. SyncOK'
    BY <2>0, <2>3 DEF SyncOK, Syncs
  <2>5. PlaceOK'
    BY <1>2 DEF Ask, TypesOK, PlaceOK, TargetOK, TriesOK
  <2> QED  BY <2>2, <2>4, <2>5 DEF TypesOK
<1>3. ASSUME NEW step \in Preparing, Prepared(step) PROVE TypesOK'
  <2>1. Answered(step)
    BY <1>3 DEF Prepared
  <2>2. /\ SyncOK' /\ LinkOK' /\ late' \in Nat /\ size' = size /\ at = step
    BY <2>1, AnsweredType
  <2>3. CASE ~Ok
    BY <1>3, <1>f, <2>2, <2>3 DEF Prepared, Return, PlaceOK, TypesOK, TargetOK, TriesOK
  <2>4. CASE Ok
    <3>1. /\ at' = Following(step) /\ target' = IF step = "add" THEN target + 1 ELSE target
          /\ file' = IF Following(step) = "init" THEN Opened ELSE file
          /\ UNCHANGED <<result, status>>
      BY <1>3, <2>4 DEF Prepared
    <3>2. at' \in (Preparing \cup {"init"}) \ {"options"} /\ target' \in 0 .. NumTargets + 1
          /\ TargetOK'
      <4>1. TargetOK /\ target \in 0 .. NumTargets + 1
        BY <1>f
      <4>2. CASE step \in {"options", "clear"}
        BY <1>t, <2>2, <3>1, <4>1, <4>2 DEF Following, Preparing, TargetOK
      <4>3. CASE step = "add"
        <5>1. target \in 1 .. NumTargets /\ target' = target + 1
              /\ at' = IF target < NumTargets THEN "add" ELSE "data"
          BY <2>2, <3>1, <4>1, <4>3 DEF Following, TargetOK
        <5> QED  BY <1>t, <5>1 DEF Preparing, TargetOK
      <4>4. CASE step \in {"data", "rule", "signature"}
        <5>1. target = NumTargets + 1 /\ target' = target
              /\ at' \in {"rule", "signature", "init"}
          BY <2>2, <3>1, <4>1, <4>4 DEF Following, TargetOK
        <5> QED  BY <1>t, <5>1 DEF Preparing, TargetOK
      <4> QED  BY <1>3, <4>2, <4>3, <4>4 DEF Preparing
    <3>3. file' \in Files /\ file'.pos =< size
      <4>1. size \in Nat /\ file \in Files /\ file.pos =< size
        BY <1>f
      <4>2. Opened \in Files /\ Opened.pos =< size
        BY <4>1, OpenedType
      <4> QED  BY <3>1, <4>1, <4>2
    <3>4. TriesOK'
      <4>1. CASE at' = "init"
        <5>1. file'.tries = Tries
          BY <1>f, <3>1, <4>1, OpenedType
        <5> QED  BY <1>t, <4>1, <5>1 DEF TriesOK
      <4> QED  BY <3>2, <4>1 DEF TriesOK, Preparing
    <3> QED  BY <1>f, <2>2, <3>1, <3>2, <3>3, <3>4 DEF TypesOK, PlaceOK, Steps
  <2> QED  BY <2>3, <2>4
<1>4. CASE InitAnswered
  <2>1. Answered("init") /\ UNCHANGED <<target, status>>
    BY <1>4 DEF InitAnswered
  <2>2. /\ SyncOK' /\ LinkOK' /\ late' \in Nat /\ size' = size /\ at = "init"
    BY <2>1, AnsweredType
  <2>3. CASE ~Ok
    BY <1>4, <1>f, <2>1, <2>2, <2>3 DEF InitAnswered, Return, PlaceOK, TypesOK, TargetOK, TriesOK
  <2>4. CASE Ok
    <3>1. file' = Rewound(file) /\ at' \in {"frame", "crc"} /\ result' = result
      BY <1>4, <2>4 DEF InitAnswered
    <3>2. /\ file' \in Files /\ file'.pos =< size /\ file'.frameTries = Tries
          /\ file'.tries = file.tries
      BY <1>f, <3>1, RewoundType
    <3>3. TargetOK'
      BY <1>f, <2>1, <2>2, <3>1 DEF TargetOK
    <3>4. TriesOK'
      <4>1. file.tries >= 1
        BY <1>f, <2>2 DEF TriesOK
      <4> QED  BY <1>t, <3>2, <4>1 DEF TriesOK
    <3> QED  BY <1>f, <2>1, <2>2, <3>1, <3>2, <3>3, <3>4 DEF TypesOK, PlaceOK, Steps
  <2> QED  BY <2>3, <2>4
<1>5. CASE FrameAnswered
  <2>1. Answered("frame") /\ UNCHANGED <<target, status>>
    BY <1>5 DEF FrameAnswered
  <2>2. /\ SyncOK' /\ LinkOK' /\ late' \in Nat /\ size' = size /\ at = "frame"
    BY <2>1, AnsweredType
  <2> DEFINE f == AfterFrame(file, Ok)
  <2>3. /\ f \in Files /\ f.pos =< size /\ f.tries = file.tries
    <3>1. file.frameTries >= 1
      BY <1>f, <2>2 DEF TriesOK
    <3>2. CASE Ok
      <4> DEFINE g == AfterFrame(file, TRUE)
                 n == Least(file.chunk, size - file.pos)
      <4>1. f = g
        BY <3>2
      <4> HIDE DEF f
      <4>2. g \in Files /\ g.pos = file.pos + n /\ file.pos + n =< size /\ g.tries = file.tries
        BY <1>f, AckedType
      <4> QED  BY <4>1, <4>2
    <3>3. CASE ~Ok
      <4> DEFINE g == AfterFrame(file, FALSE)
      <4>1. f = g
        BY <3>3 DEF AfterFrame
      <4> HIDE DEF f
      <4>2. g \in Files /\ g.pos = file.pos /\ g.tries = file.tries
        BY <1>f, <3>1, NotAckedType
      <4> QED  BY <1>f, <4>1, <4>2
    <3> QED  BY <3>2, <3>3
  <2>4. f.tries \in 1 .. Tries /\ f.chunk \in {16, 4, 1, 0} /\ f.frameTries \in 0 .. Tries
    <3>1. file.tries >= 1 /\ file.tries \in 0 .. Tries
      BY <1>f, <2>2, FileFields DEF TriesOK
    <3> HIDE DEF f
    <3>2. f.chunk \in {16, 4, 1, 0} /\ f.frameTries \in 0 .. Tries
      BY <2>3, FileFields
    <3> QED  BY <1>t, <2>3, <3>1, <3>2
  <2>5. CASE f.frameTries = 0
    <3>1. /\ file' = [f EXCEPT !.chunk = f.chunk \div 4, !.tries = f.tries - 1]
          /\ IF f.tries = 1 THEN Return("failed") ELSE at' = "init" /\ UNCHANGED result
      BY <1>5, <2>5 DEF FrameAnswered
    <3> DEFINE c == f.chunk \div 4
               n == f.tries - 1
    <3>2. c \in {16, 4, 1, 0} /\ n \in 0 .. Tries /\ (f.tries # 1 => n >= 1)
      BY <1>t, <2>4
    <3> HIDE DEF f, c, n
    <3>3. file' = [f EXCEPT !.chunk = c, !.tries = n]
      BY <3>1 DEF c, n
    <3>4. file' \in Files /\ file'.tries = n /\ file'.pos =< size
      BY <2>3, <3>2, <3>3 DEF Files
    <3>5. TargetOK' /\ TriesOK' /\ at' \in {"idle", "init"}
          /\ result' \in {"none", "failed", "bad crc", "success", "started"}
      BY <1>f, <2>1, <2>2, <3>1, <3>2, <3>4 DEF TargetOK, TriesOK, Return
    <3> QED  BY <1>f, <2>1, <2>2, <3>4, <3>5 DEF TypesOK, PlaceOK, Steps
  <2>6. CASE f.frameTries # 0
    <3>1. file' = f /\ at' \in {"frame", "crc"} /\ result' = result
      BY <1>5, <2>6 DEF FrameAnswered
    <3> HIDE DEF f
    <3>2. TargetOK'
      BY <1>f, <2>1, <2>2, <3>1 DEF TargetOK
    <3>3. TriesOK'
      <4>1. f.frameTries >= 1 /\ f.tries >= 1
        BY <1>t, <2>4, <2>6
      <4> QED  BY <3>1, <4>1 DEF TriesOK
    <3> QED  BY <1>f, <2>1, <2>2, <2>3, <3>1, <3>2, <3>3 DEF TypesOK, PlaceOK, Steps
  <2> QED  BY <2>5, <2>6
<1>6. CASE CrcAnswered \/ StartAnswered
  <2>1. Answered("crc") \/ Answered("start")
    BY <1>6 DEF CrcAnswered, StartAnswered
  <2>2. SyncOK' /\ LinkOK' /\ late' \in Nat /\ size' = size
    BY <2>1, AnsweredType
  <2>3. /\ at' = "idle" /\ UNCHANGED <<target, file>>
        /\ result' \in {"none", "failed", "bad crc", "success", "started"}
        /\ status' \in {"IDLE", "RUNNING", "FINISH"}
    BY <1>6, <1>f DEF CrcAnswered, StartAnswered, Return
  <2> QED  BY <1>f, <2>2, <2>3 DEF TypesOK, PlaceOK, TargetOK, TriesOK
<1>7. CASE AckInd
  <2>1. UNCHANGED <<size, at, target, file, result, status, late, requests>>
    BY <1>7 DEF AckInd
  <2>2. acks \in Seq(Acks) /\ acks # <<>> /\ acks' = Tail(acks)
    BY <1>7 DEF AckInd, TypesOK, LinkOK
  <2>3. Head(acks) \in Acks /\ acks' \in Seq(Acks)
    BY <2>2
  <2>4. Head(acks).status \in Statuses /\ "ok" \in Statuses
    BY <2>3 DEF Acks, Statuses
  <2>5. SyncOK'
    <3> DEFINE st == Head(acks).status
    <3>1. \/ sync.req /\ sync' = [sync EXCEPT !.status = st, !.res = TRUE]
          \/ sync' = [sync EXCEPT !.status = "ok"]
      BY <1>7 DEF AckInd
    <3>2. st \in Statuses
      BY <2>4
    <3> HIDE DEF st
    <3> QED  BY <2>1, <2>4, <3>1, <3>2 DEF TypesOK, SyncOK, Syncs
  <2> QED  BY <2>1, <2>3, <2>5 DEF TypesOK, PlaceOK, LinkOK, TargetOK, TriesOK
<1>8. ASSUME NEW last \in BOOLEAN, StatusInd(last) PROVE TypesOK'
  <2>1. UNCHANGED <<size, at, target, file, result, late, requests, acks>>
        /\ status' \in {"IDLE", "RUNNING", "FINISH"}
    BY <1>8, <1>f DEF StatusInd
  <2>2. sync' = [sync EXCEPT !.res = @ \/ sync.req]
    BY <1>8 DEF StatusInd
  <2>3. sync' \in Syncs /\ sync'.req = sync.req /\ sync'.cmd = sync.cmd
        /\ (sync'.res => sync.res \/ sync.req) /\ sync'.sent = sync.sent
    BY <2>2 DEF TypesOK, SyncOK, Syncs
  <2>4. SyncOK'
    BY <2>1, <2>3 DEF TypesOK, SyncOK
  <2> QED  BY <1>f, <2>1, <2>4 DEF TypesOK, PlaceOK, LinkOK, TargetOK, TriesOK
<1>9. CASE ModemActs
  <2>1. UNCHANGED <<size, at, target, file, sync, result, status, late>>
        /\ requests # <<>> /\ requests' = Tail(requests)
    BY <1>9 DEF ModemActs
  <2>2. \E st \in Statuses : acks' = Append(acks, [cmd |-> Head(requests).cmd, status |-> st])
    BY <1>9 DEF ModemActs, Statuses
  <2>3. Head(requests) \in Requests /\ requests' \in Seq(Requests)
    BY <2>1 DEF TypesOK, LinkOK
  <2>4. acks' \in Seq(Acks)
    <3>1. PICK st \in Statuses : acks' = Append(acks, [cmd |-> Head(requests).cmd, status |-> st])
      BY <2>2
    <3>2. [cmd |-> Head(requests).cmd, status |-> st] \in Acks
      BY <2>3, RequestCmd DEF Acks
    <3> QED  BY <3>1, <3>2 DEF TypesOK, LinkOK
  <2> QED  BY <2>1, <2>3, <2>4 DEF TypesOK, PlaceOK, SyncOK, LinkOK, TargetOK, TriesOK
<1>10. CASE Lose
  <2>1. UNCHANGED <<size, at, target, file, sync, result, status, late>>
    BY <1>10 DEF Lose
  <2>2. requests' \in Seq(Requests) /\ acks' \in Seq(Acks)
    BY <1>10 DEF Lose, TypesOK, LinkOK
  <2> QED  BY <2>1, <2>2 DEF TypesOK, PlaceOK, SyncOK, LinkOK, TargetOK, TriesOK
<1>11. CASE UNCHANGED vars
  BY <1>11 DEF vars, TypesOK, PlaceOK, SyncOK, LinkOK, TargetOK, TriesOK
<1> QED
  BY <1>1, <1>b, <1>2, <1>3, <1>4, <1>5, <1>6, <1>7, <1>8, <1>9, <1>10, <1>11 DEF Next, Thread

(* Once an ack has crossed a request, that stays on record. *)
LEMMA CrossedInit == Init => crossed \in BOOLEAN
  BY DEF Init

LEMMA CrossedNext ==
    ASSUME crossed \in BOOLEAN, [Next]_vars
    PROVE  crossed' \in BOOLEAN /\ (crossed => crossed')
<1>1. CASE AckInd
  <2>1. crossed' = (crossed \/ (sync'.res /\ ~sync.sent))
    BY <1>1 DEF AckInd
  <2> QED  BY <2>1
<1>2. CASE ~AckInd
  <2>1. crossed' = crossed
    BY <1>2 DEF Next, Download, Start, Thread, Begin, Ask, Prepared, InitAnswered, FrameAnswered,
                CrcAnswered, StartAnswered, Answered, StatusInd, ModemActs, Lose, vars
  <2> QED  BY <2>1
<1> QED  BY <1>1, <1>2

(* Every variable has its type, for every size, number of tries and link:  *)
(* what is read stays within the file and the buffer, and no count of      *)
(* tries falls below 0 (base_node_mng_fw_upgrade.c:985-1160).              *)
THEOREM TypeCorrect == Spec => []TypeOK
<1>1. Init => TypesOK /\ crossed \in BOOLEAN
  BY TypesInit, CrossedInit
<1>2. TypesOK /\ crossed \in BOOLEAN /\ [Next]_vars => TypesOK' /\ crossed' \in BOOLEAN
  BY TypesNext, CrossedNext
<1> DEFINE Typed == TypesOK /\ crossed \in BOOLEAN
<1>3. Init => Typed
  BY <1>1
<1>4. Typed /\ [Next]_vars => Typed'
  BY <1>2
<1>5. Typed => TypeOK
  BY TypesGiveType
<1> HIDE DEF Typed
<1> QED  BY <1>3, <1>4, <1>5, PTL DEF Spec

-----------------------------------------------------------------------------
(* Where acks come in time or not at all *)

Prefix(n) == {<<u, u>> : u \in 0 .. n - 1}

(* What the modem has done of the request that waits, when it acks it.     *)
Executed ==
    /\ at = "clear" => modem.targets = {}
    /\ at = "add"   => modem.targets = 1 .. target
    /\ at = "init"  => modem.image = {} /\ modem.chunk = file.chunk
    /\ at = "frame" => modem.image = Prefix(file.pos)
    /\ at = "start" => modem.running

(* An image is never found to be bad. *)
Means(st) == IF st = "ok" THEN Executed ELSE at # "crc"

(* On the link is at most the request that waits, or its ack. *)
OnTheLink ==
    \/ requests = <<>> /\ acks = <<>>
    \/ sync.sent /\ ~sync.res /\ requests = <<Request>> /\ acks = <<>>
    \/ /\ sync.sent /\ ~sync.res /\ requests = <<>>
       /\ \E st \in Statuses : acks = <<[cmd |-> at, status |-> st]>> /\ Means(st)

Received == sync.res => sync.sent /\ requests = <<>> /\ acks = <<>> /\ Means(sync.status)

(* The targets added so far are in the modem's list, and the frames acked  *)
(* so far are its image; of the frame that is due nobody knows.            *)
TargetsOK ==
    /\ at = "add" => modem.targets \in {1 .. target - 1, 1 .. target}
    /\ at \in {"data", "rule", "signature", "init", "frame", "crc"} =>
           modem.targets = 1 .. NumTargets

ImageOK ==
    /\ at = "frame" =>
        /\ modem.chunk = file.chunk
        /\ (file.frame - 1) * file.chunk = file.pos - file.nbytes
        /\ file.nbytes = file.chunk \/ file.pos = size
        /\ file.nbytes =< file.pos
        /\ modem.image \in {Prefix(file.pos - file.nbytes), Prefix(file.pos)}
    /\ at = "crc" => modem.image = Prefix(size)

ResultOK ==
    /\ result # "bad crc"
    /\ result # "none" => at = "idle"
    /\ result = "success" => modem.image = Prefix(size) /\ modem.targets = 1 .. NumTargets
    /\ status = "RUNNING" => modem.running

InTime == late = 0 => OnTheLink /\ Received /\ TargetsOK /\ ImageOK /\ ResultOK

(* The tries of a transfer end before its chunks are empty. *)
ChunkOK ==
    at \in {"init", "frame"} =>
        file.chunk = 16 \/ (file.chunk = 4 /\ file.tries =< 2) \/ (file.chunk = 1 /\ file.tries =< 1)

ModemOK == modem = [targets |-> modem.targets, chunk |-> modem.chunk,
                    image |-> modem.image, running |-> modem.running]

-----------------------------------------------------------------------------
(* What the modem does *)

LEMMA WholeIsPrefix == Whole = Prefix(size)
  BY DEF Whole, Prefix

LEMMA EmptyPrefix == Prefix(0) = {}
  BY DEF Prefix

(* A frame in its place lengthens the image by its bytes, and one that is  *)
(* there already changes nothing.                                          *)
LEMMA StoredPrefix ==
    ASSUME NEW a \in Nat, NEW n \in Nat, NEW image \in {Prefix(a), Prefix(a + n)}
    PROVE  {p \in image : p[1] \notin a .. a + n - 1} \cup {<<a + i, a + i>> : i \in 0 .. n - 1}
             = Prefix(a + n)
<1> DEFINE old == {p \in image : p[1] \notin a .. a + n - 1}
           new == {<<a + i, a + i>> : i \in 0 .. n - 1}
<1>1. ASSUME NEW p \in old PROVE p \in Prefix(a + n)
  <2>1. p \in Prefix(a) \/ p \in Prefix(a + n)
    OBVIOUS
  <2>2. CASE p \in Prefix(a)
    <3>1. PICK u \in 0 .. a - 1 : p = <<u, u>>
      BY <2>2 DEF Prefix
    <3>2. u \in 0 .. (a + n) - 1
      OBVIOUS
    <3> QED  BY <3>1, <3>2 DEF Prefix
  <2> QED  BY <2>1, <2>2
<1>2. ASSUME NEW p \in new PROVE p \in Prefix(a + n)
  <2>1. PICK i \in 0 .. n - 1 : p = <<a + i, a + i>>
    OBVIOUS
  <2>2. a + i \in 0 .. (a + n) - 1
    OBVIOUS
  <2> QED  BY <2>1, <2>2 DEF Prefix
<1>3. ASSUME NEW p \in Prefix(a + n) PROVE p \in old \cup new
  <2>1. PICK u \in 0 .. (a + n) - 1 : p = <<u, u>>
    BY DEF Prefix
  <2>2. CASE u < a
    <3>1. u \in 0 .. a - 1 /\ u \notin a .. a + n - 1
      BY <2>2
    <3>2. p \in image
      BY <2>1, <3>1 DEF Prefix
    <3>3. p[1] = u
      BY <2>1
    <3> QED  BY <3>1, <3>2, <3>3
  <2>3. CASE u >= a
    <3>1. u - a \in 0 .. n - 1 /\ a + (u - a) = u
      BY <2>3
    <3>2. p = <<a + (u - a), a + (u - a)>>
      BY <2>1, <3>1
    <3> QED  BY <3>1, <3>2
  <2> QED  BY <2>1, <2>2, <2>3
<1> HIDE DEF old, new
<1> QED  BY <1>1, <1>2, <1>3 DEF old, new

(* A frame of the transfer goes to its place. *)
LEMMA FrameStored ==
    ASSUME TypesOK, ModemOK, ImageOK, at = "frame"
    PROVE  /\ Stored(modem, Request).image = Prefix(file.pos)
           /\ Stored(modem, Request).chunk = modem.chunk
           /\ Stored(modem, Request).targets = modem.targets
           /\ Stored(modem, Request).running = modem.running
<1> DEFINE a == file.pos - file.nbytes
           n == file.nbytes
<1>1. a \in Nat /\ n \in Nat /\ a + n = file.pos
  <2>1. file.pos \in Nat /\ file.nbytes \in 0 .. 16 /\ file.nbytes =< file.pos
    BY FileFields DEF TypesOK, PlaceOK, ImageOK, ChunkSize
  <2> QED  BY <2>1
<1>2. modem.image \in {Prefix(a), Prefix(a + n)}
  BY <1>1 DEF ImageOK
<1>3. (file.frame - 1) * modem.chunk = a
  BY DEF ImageOK
<1>4. /\ Request.num = file.frame /\ Request.first = a /\ Request.len = n
  BY DEF Request
<1> HIDE DEF a, n
<1>5. Stored(modem, Request)
        = [modem EXCEPT !.image = {p \in modem.image : p[1] \notin a .. a + n - 1}
                                    \cup {<<a + i, a + i>> : i \in 0 .. n - 1}]
  BY <1>3, <1>4 DEF Stored
<1>6. Stored(modem, Request) = [modem EXCEPT !.image = Prefix(a + n)]
  BY <1>1, <1>2, <1>5, StoredPrefix
<1> QED  BY <1>1, <1>6 DEF ModemOK

LEMMA RequestAt == at # "idle" /\ at \in Steps => Request.cmd = at
  BY DEF Request, Steps

(* Having done what was asked for, the modem is where the transfer is. *)
LEMMA DoneType ==
    ASSUME TypesOK, ModemOK, TargetsOK, ImageOK, at # "idle",
           NEW m, m = Done(modem, Request), modem' = m,
           UNCHANGED <<at, target, file, size>>
    PROVE  /\ Executed' /\ TargetsOK' /\ ImageOK' /\ ModemOK'
           /\ modem.running => modem'.running
<1>0. at \in Steps /\ Request.cmd = at /\ target \in Nat /\ file.pos \in Nat
  <2>1. at \in Steps /\ target \in 0 .. NumTargets + 1 /\ file \in Files
    BY DEF TypesOK, PlaceOK
  <2> QED  BY <2>1, RequestAt, FileFields, UpgradeAssumption
<1>1. CASE at = "clear"
  <2>1. m = [modem EXCEPT !.targets = {}]
    BY <1>0, <1>1 DEF Done
  <2>2. m.targets = {} /\ m.chunk = modem.chunk /\ m.image = modem.image /\ m.running = modem.running
        /\ ModemOK'
    BY <2>1 DEF ModemOK
  <2> QED  BY <1>1, <2>2 DEF Executed, TargetsOK, ImageOK
<1>2. CASE at = "add"
  <2>1. m = [modem EXCEPT !.targets = @ \cup {target}]
    BY <1>0, <1>2 DEF Done, Request
  <2>2. modem.targets \cup {target} = 1 .. target
    <3>1. target \in 1 .. NumTargets /\ NumTargets \in Nat
      BY <1>2, UpgradeAssumption DEF TypesOK, PlaceOK, TargetOK
    <3>2. modem.targets = 1 .. target - 1 \/ modem.targets = 1 .. target
      BY <1>2 DEF TargetsOK
    <3>3. (1 .. target - 1) \cup {target} = 1 .. target
      BY <3>1
    <3>4. (1 .. target) \cup {target} = 1 .. target
      BY <3>1
    <3> QED  BY <3>2, <3>3, <3>4
  <2>3. m.targets = 1 .. target /\ m.chunk = modem.chunk /\ m.image = modem.image
        /\ m.running = modem.running /\ ModemOK'
    BY <2>1, <2>2 DEF ModemOK
  <2> QED  BY <1>2, <2>3 DEF Executed, TargetsOK, ImageOK
<1>3. CASE at = "init"
  <2>1. m = [modem EXCEPT !.image = {}, !.chunk = file.chunk]
    BY <1>0, <1>3 DEF Done, Request
  <2>2. m.image = {} /\ m.chunk = file.chunk /\ m.targets = modem.targets
        /\ m.running = modem.running /\ ModemOK'
    BY <2>1 DEF ModemOK
  <2> QED  BY <1>3, <2>2 DEF Executed, TargetsOK, ImageOK
<1>4. CASE at = "frame"
  <2>1. m = Stored(modem, Request)
    BY <1>0, <1>4 DEF Done
  <2>2. m.image = Prefix(file.pos) /\ m.chunk = modem.chunk /\ m.targets = modem.targets
        /\ m.running = modem.running
    BY <1>4, <2>1, FrameStored
  <2>3. ModemOK'
    BY <2>1 DEF ModemOK, Stored
  <2>4. Executed' /\ TargetsOK'
    BY <1>4, <2>2 DEF Executed, TargetsOK, Prefix
  <2>5. ImageOK'
    BY <1>4, <2>2 DEF ImageOK, Prefix
  <2> QED  BY <2>2, <2>3, <2>4, <2>5
<1>5. CASE at = "start"
  <2>1. m = [modem EXCEPT !.running = TRUE]
    BY <1>0, <1>5 DEF Done
  <2>2. m.running /\ m.chunk = modem.chunk /\ m.targets = modem.targets
        /\ m.image = modem.image /\ ModemOK'
    BY <2>1 DEF ModemOK
  <2> QED  BY <1>5, <2>2 DEF Executed, TargetsOK, ImageOK
<1>6. CASE at \notin {"clear", "add", "init", "frame", "start"}
  <2>1. m = modem
    BY <1>0, <1>6 DEF Done
  <2> QED  BY <1>6, <2>1 DEF Executed, TargetsOK, ImageOK, ModemOK, Prefix
<1> QED  BY <1>1, <1>2, <1>3, <1>4, <1>5, <1>6

-----------------------------------------------------------------------------
(* The steps *)

(* The transfer has at most the tries of the code, MAX_NUM_TRIES_TRANSFER,  *)
(* and no status indication comes while a request waits.                   *)
CodeTries == "status" \notin Env /\ Tries =< 3

(* An operation that finds its request answered knows what became of it,   *)
(* and the link is empty.                                                  *)
LEMMA AnsweredInTime ==
    ASSUME TypesOK, InTime, NEW step, Answered(step), late' = 0
    PROVE  /\ late = 0 /\ requests = <<>> /\ acks = <<>>
           /\ OnTheLink' /\ Received'
           /\ Ok => Executed
           /\ at = "crc" => sync.res = Ok
           /\ result # "bad crc" /\ result # "success"
           /\ status = "RUNNING" => modem.running
<1>1. late = 0 /\ (sync.res \/ ~(InFlight > 0))
  <2>1. late \in Nat /\ late' = IF ~sync.res /\ InFlight > 0 THEN late + 1 ELSE late
    BY DEF Answered, TypesOK, PlaceOK
  <2> QED  BY <2>1
<1>2. OnTheLink /\ Received /\ ResultOK
  BY <1>1 DEF InTime
<1>3. requests = <<>> /\ acks = <<>>
  <2>1. CASE sync.res
    BY <1>2, <2>1 DEF Received
  <2>2. CASE ~(InFlight > 0)
    <3>1. Len(requests) \in Nat /\ Len(acks) \in Nat /\ Len(requests) + Len(acks) = 0
      BY <2>2 DEF InFlight, TypesOK, LinkOK
    <3>2. Len(requests) = 0 /\ Len(acks) = 0
      BY <3>1
    <3> QED  BY <3>2 DEF TypesOK, LinkOK
  <2> QED  BY <1>1, <2>1, <2>2
<1>4. ~sync'.res
  BY AnsweredType DEF SyncOK
<1>5. OnTheLink' /\ Received'
  BY <1>3, <1>4 DEF Answered, OnTheLink, Received
<1>6. (Ok => Executed) /\ (at = "crc" => sync.res = Ok)
  <2>1. CASE sync.res
    BY <1>2, <2>1 DEF Received, Means, Ok
  <2>2. CASE ~sync.res
    BY <2>2 DEF Ok, TypesOK, SyncOK, Syncs
  <2> QED  BY <2>1, <2>2
<1>7. at # "idle"
  BY AnsweredType DEF TypesOK, SyncOK
<1> QED  BY <1>1, <1>2, <1>3, <1>5, <1>6, <1>7 DEF ResultOK

LEMMA PreparedInTime ==
    ASSUME TypesOK, InTime, NEW step \in Preparing, Prepared(step), late' = 0
    PROVE  InTime'
<1>1. /\ Answered(step) /\ at = step /\ UNCHANGED <<modem, status, size>>
  BY AnsweredType DEF Prepared, Answered
<1>2. /\ late = 0 /\ OnTheLink' /\ Received' /\ (Ok => Executed)
      /\ result # "bad crc" /\ result # "success"
      /\ status = "RUNNING" => modem.running
  BY <1>1, AnsweredInTime
<1>3. TargetsOK /\ TargetOK /\ NumTargets \in Nat
      /\ (result # "none" => at = "idle")
  BY <1>2, UpgradeAssumption DEF InTime, ResultOK, TypesOK, PlaceOK
<1>4. CASE ~Ok
  <2>1. at' = "idle" /\ result' = "failed" /\ UNCHANGED <<target, file>>
    BY <1>4 DEF Prepared, Return
  <2> QED  BY <1>1, <1>2, <2>1 DEF InTime, TargetsOK, ImageOK, ResultOK, Prefix
<1>5. CASE Ok
  <2>1. /\ at' = Following(step) /\ target' = IF step = "add" THEN target + 1 ELSE target
        /\ result' = result
    BY <1>5 DEF Prepared
  <2>2. at' \in Preparing \cup {"init"} /\ TargetsOK'
    <3>1. CASE step = "options"
      BY <1>1, <2>1, <3>1 DEF Following, Preparing, TargetsOK
    <3>2. CASE step = "clear"
      <4>1. target = 1 /\ target' = 1 /\ modem'.targets = {}
            /\ at' = IF NumTargets = 0 THEN "data" ELSE "add"
        BY <1>1, <1>2, <1>3, <1>5, <2>1, <3>2 DEF Executed, TargetOK, Following
      <4>2. 1 .. 0 = {} /\ 1 - 1 = 0
        OBVIOUS
      <4>3. CASE NumTargets = 0
        BY <4>1, <4>2, <4>3 DEF TargetsOK, Preparing
      <4>4. CASE NumTargets # 0
        BY <4>1, <4>2, <4>4 DEF TargetsOK, Preparing
      <4> QED  BY <4>3, <4>4
    <3>3. CASE step = "add"
      <4>1. target \in 1 .. NumTargets /\ target' = target + 1 /\ modem'.targets = 1 .. target
            /\ at' = IF target < NumTargets THEN "add" ELSE "data"
        BY <1>1, <1>2, <1>3, <1>5, <2>1, <3>3 DEF Executed, TargetOK, Following
      <4>2. target' - 1 = target
        BY <4>1
      <4>3. CASE target < NumTargets
        BY <4>1, <4>2, <4>3 DEF TargetsOK, Preparing
      <4>4. CASE ~(target < NumTargets)
        <5>1. target = NumTargets
          BY <1>3, <4>1, <4>4
        <5> QED  BY <4>1, <4>4, <5>1 DEF TargetsOK, Preparing
      <4> QED  BY <4>3, <4>4
    <3>4. CASE step \in {"data", "rule", "signature"}
      <4>1. modem'.targets = 1 .. NumTargets /\ at' \in {"rule", "signature", "init"}
        BY <1>1, <1>3, <2>1, <3>4 DEF TargetsOK, Following
      <4> QED  BY <4>1 DEF TargetsOK, Preparing
    <3> QED  BY <3>1, <3>2, <3>3, <3>4 DEF Preparing
  <2>3. ImageOK' /\ at # "idle"
    BY <1>1, <2>2 DEF ImageOK, Preparing
  <2>4. ResultOK'
    BY <1>1, <1>2, <1>3, <2>1, <2>3 DEF ResultOK
  <2> QED  BY <1>2, <2>2, <2>3, <2>4 DEF InTime
<1> QED  BY <1>4, <1>5

LEMMA InitInTime ==
    ASSUME TypesOK, ChunkOK, InTime, InitAnswered, late' = 0
    PROVE  InTime'
<1>1. /\ Answered("init") /\ at = "init" /\ UNCHANGED <<modem, target, status, size>>
  BY AnsweredType DEF InitAnswered, Answered
<1>2. /\ late = 0 /\ OnTheLink' /\ Received' /\ (Ok => Executed)
      /\ result # "bad crc" /\ result # "success"
      /\ status = "RUNNING" => modem.running
  BY <1>1, AnsweredInTime
<1>3. modem.targets = 1 .. NumTargets /\ result = "none"
      /\ size \in Nat /\ file \in Files /\ file.chunk \in {16, 4, 1}
  BY <1>1, <1>2 DEF InTime, TargetsOK, ResultOK, TypesOK, PlaceOK, ChunkOK
<1>4. CASE ~Ok
  <2>1. at' = "idle" /\ result' = "failed"
    BY <1>4 DEF InitAnswered, Return
  <2> QED  BY <1>1, <1>2, <2>1 DEF InTime, TargetsOK, ImageOK, ResultOK, Prefix
<1>5. CASE Ok
  <2>1. /\ file' = Rewound(file) /\ result' = result
        /\ at' = IF More(file') THEN "frame" ELSE "crc"
    BY <1>5 DEF InitAnswered
  <2> DEFINE n == Least(file.chunk, size)
  <2>2. /\ n \in 0 .. ChunkSize /\ n =< size /\ (n = file.chunk \/ n = size)
        /\ file'.frame = 1 /\ file'.pos = n /\ file'.nbytes = n /\ file'.chunk = file.chunk
    BY <1>3, <2>1, RewoundType
  <2> HIDE DEF n
  <2>3. n \in Nat
    BY <2>2 DEF ChunkSize
  <2>4. modem.image = {} /\ modem.chunk = file.chunk
    BY <1>1, <1>2, <1>5 DEF Executed
  <2>5. ImageOK'
    <3>1. CASE More(file')
      <4>1. at' = "frame"
        BY <2>1, <3>1
      <4>2. (file'.frame - 1) * file'.chunk = file'.pos - file'.nbytes
        BY <1>3, <2>2, <2>3
      <4>3. file'.pos - file'.nbytes = 0
        BY <2>2, <2>3
      <4>4. modem'.image = Prefix(file'.pos - file'.nbytes)
        BY <1>1, <2>4, <4>3, EmptyPrefix
      <4>5. (file'.nbytes = file'.chunk \/ file'.pos = size') /\ file'.nbytes =< file'.pos
        BY <1>1, <2>2, <2>3
      <4> QED  BY <1>1, <2>2, <2>4, <4>1, <4>2, <4>4, <4>5 DEF ImageOK
    <3>2. CASE ~More(file')
      <4>1. at' = "crc" /\ file'.nbytes = 0
        BY <2>1, <3>2 DEF More
      <4>2. size = 0
        BY <1>3, <2>2, <4>1
      <4> QED  BY <1>1, <2>4, <4>1, <4>2, EmptyPrefix DEF ImageOK
    <3> QED  BY <3>1, <3>2
  <2>6. TargetsOK' /\ ResultOK'
    BY <1>1, <1>2, <1>3, <2>1 DEF TargetsOK, ResultOK
  <2> QED  BY <1>2, <2>5, <2>6 DEF InTime
<1> QED  BY <1>4, <1>5

LEMMA FrameInTime ==
    ASSUME TypesOK, ChunkOK, InTime, FrameAnswered, late' = 0
    PROVE  InTime'
<1>1. /\ Answered("frame") /\ at = "frame" /\ UNCHANGED <<modem, target, status, size>>
  BY AnsweredType DEF FrameAnswered, Answered
<1>2. /\ late = 0 /\ OnTheLink' /\ Received' /\ (Ok => Executed)
      /\ result # "bad crc" /\ result # "success"
      /\ status = "RUNNING" => modem.running
  BY <1>1, AnsweredInTime
<1>3. /\ modem.targets = 1 .. NumTargets /\ result = "none"
      /\ size \in Nat /\ file \in Files /\ file.pos =< size /\ file.chunk \in {16, 4, 1}
      /\ modem.chunk = file.chunk
      /\ (file.frame - 1) * file.chunk = file.pos - file.nbytes
      /\ file.nbytes = file.chunk \/ file.pos = size
      /\ file.nbytes =< file.pos
      /\ modem.image \in {Prefix(file.pos - file.nbytes), Prefix(file.pos)}
  BY <1>1, <1>2 DEF InTime, TargetsOK, ImageOK, ResultOK, TypesOK, PlaceOK, ChunkOK
<1>4. /\ file.frame \in Nat /\ file.pos \in Nat /\ file.nbytes \in Nat
  <2>1. file.nbytes \in 0 .. 16
    BY <1>3, FileFields DEF ChunkSize
  <2> QED  BY <1>3, <2>1, FileFields
<1>5. CASE at' \in {"idle", "init"} /\ result' \in {"none", "failed"}
  <2>1. TargetsOK' /\ ImageOK'
    BY <1>1, <1>3, <1>5 DEF TargetsOK, ImageOK
  <2>2. ResultOK'
    <3>1. result' # "none" => at' = "idle"
      BY <1>1, <1>3, <1>5 DEF FrameAnswered, Return
    <3> QED  BY <1>1, <1>2, <1>5, <3>1 DEF ResultOK
  <2> QED  BY <1>2, <2>1, <2>2 DEF InTime
<1>6. ASSUME at' \in {"frame", "crc"}, result' = result, ImageOK' PROVE InTime'
  BY <1>1, <1>2, <1>3, <1>6 DEF InTime, TargetsOK, ResultOK
<1>7. CASE Ok
  <2> DEFINE f == AfterFrame(file, TRUE)
             n == Least(file.chunk, size - file.pos)
  <2>1. AfterFrame(file, Ok) = f
    BY <1>7 DEF AfterFrame
  <2>2. /\ n \in 0 .. ChunkSize /\ file.pos + n =< size
        /\ n = file.chunk \/ file.pos + n = size
        /\ f.frame = file.frame + 1 /\ f.pos = file.pos + n /\ f.nbytes = n
        /\ f.frameTries = Tries /\ (f.extra => n # 0) /\ f.chunk = file.chunk
    <3>1. f = AfterFrame(file, TRUE) /\ n = Least(file.chunk, size - file.pos)
      OBVIOUS
    <3>2. size \in Nat /\ file \in Files /\ file.pos =< size
      BY <1>3
    <3> HIDE DEF f, n
    <3> QED  BY <3>1, <3>2, AckedType
  <2>3. f.frameTries # 0
    BY <2>2, UpgradeAssumption
  <2>4. /\ file' = f /\ result' = result
        /\ at' = IF More(f) THEN "frame" ELSE "crc"
    <3> HIDE DEF f, n
    <3> QED  BY <2>1, <2>3 DEF FrameAnswered
  <2> HIDE DEF f, n
  <2>5. n \in Nat
    BY <2>2 DEF ChunkSize
  <2>6. modem'.image = Prefix(file.pos)
    BY <1>1, <1>2, <1>7 DEF Executed
  <2>7. CASE n = 0
    <3>1. at' = "crc"
      BY <2>2, <2>4, <2>7 DEF More
    <3>2. file.pos = size
      <4>1. file.chunk \in {16, 4, 1} /\ (n = file.chunk \/ file.pos + n = size)
        BY <1>3, <2>2
      <4> QED  BY <1>4, <2>7, <4>1
    <3>3. ImageOK'
      BY <1>1, <2>6, <3>1, <3>2 DEF ImageOK
    <3> QED  BY <1>6, <2>4, <3>1, <3>3
  <2>8. CASE n # 0
    <3>1. at' = "frame"
      BY <2>2, <2>4, <2>8 DEF More
    <3>2. file.nbytes = file.chunk
      BY <1>3, <1>4, <2>2, <2>5, <2>8
    <3>3. (file'.frame - 1) * file'.chunk = file'.pos - file'.nbytes
      <4>1. file.frame * file.chunk = file.pos
        BY <1>3, <1>4, <3>2
      <4>2. file'.frame = file.frame + 1 /\ file'.pos = file.pos + n /\ file'.nbytes = n
            /\ file'.chunk = file.chunk
        BY <2>2, <2>4
      <4>3. file'.frame - 1 = file.frame /\ file'.pos - file'.nbytes = file.pos
        BY <1>4, <2>5, <4>2
      <4> QED  BY <4>1, <4>2, <4>3
    <3>4. file'.pos - file'.nbytes = file.pos /\ file'.nbytes =< file'.pos
      BY <1>4, <2>2, <2>4, <2>5
    <3>5. file'.nbytes = file'.chunk \/ file'.pos = size'
      BY <1>1, <2>2, <2>4
    <3>6. modem'.chunk = file'.chunk
      BY <1>1, <1>3, <2>2, <2>4
    <3>7. ImageOK'
      BY <2>6, <3>1, <3>3, <3>4, <3>5, <3>6 DEF ImageOK
    <3> QED  BY <1>6, <2>4, <3>1, <3>7
  <2> QED  BY <2>7, <2>8
<1>8. CASE ~Ok
  <2> DEFINE f == AfterFrame(file, FALSE)
  <2>1. AfterFrame(file, Ok) = f
    BY <1>8 DEF AfterFrame
  <2>2. file.frameTries >= 1
    BY <1>1 DEF TypesOK, PlaceOK, TriesOK
  <2>3. /\ f.frame = file.frame /\ f.pos = file.pos /\ f.nbytes = file.nbytes
        /\ f.chunk = file.chunk
    BY <1>3, <2>2, NotAckedType
  <2> HIDE DEF f
  <2>4. CASE f.frameTries = 0
    BY <1>3, <1>5, <2>1, <2>4 DEF FrameAnswered, Return
  <2>5. CASE f.frameTries # 0
    <3>1. /\ file' = f /\ result' = result
          /\ at' = IF More(f) THEN "frame" ELSE "crc"
      BY <2>1, <2>5 DEF FrameAnswered
    <3>2. CASE More(f)
      <4>1. at' = "frame"
        BY <3>1, <3>2
      <4>2. ImageOK'
        BY <1>1, <1>3, <2>3, <3>1, <4>1 DEF ImageOK, Prefix
      <4> QED  BY <1>6, <3>1, <4>1, <4>2
    <3>3. CASE ~More(f)
      <4>1. at' = "crc" /\ file.nbytes = 0
        BY <2>3, <3>1, <3>3 DEF More
      <4>2. file.pos = size /\ file.pos - file.nbytes = size
        BY <1>3, <1>4, <4>1
      <4>3. ImageOK'
        BY <1>1, <1>3, <4>1, <4>2 DEF ImageOK
      <4> QED  BY <1>6, <3>1, <4>1, <4>3
    <3> QED  BY <3>2, <3>3
  <2> QED  BY <2>4, <2>5
<1> QED  BY <1>7, <1>8

LEMMA CrcInTime ==
    ASSUME TypesOK, InTime, CrcAnswered, late' = 0
    PROVE  InTime'
<1>1. /\ Answered("crc") /\ at = "crc" /\ UNCHANGED <<modem, size>> /\ at' = "idle"
  BY AnsweredType DEF CrcAnswered, Answered, Return
<1>2. /\ late = 0 /\ OnTheLink' /\ Received' /\ sync.res = Ok
      /\ status = "RUNNING" => modem.running
  BY <1>1, AnsweredInTime
<1>3. modem.targets = 1 .. NumTargets /\ modem.image = Prefix(size)
  BY <1>1, <1>2 DEF InTime, TargetsOK, ImageOK
<1>4. result' \in {"success", "failed"} /\ (status' = "RUNNING" => status = "RUNNING")
  BY <1>2 DEF CrcAnswered, Return
<1>5. ResultOK'
  BY <1>1, <1>2, <1>3, <1>4 DEF ResultOK, Prefix
<1> QED  BY <1>1, <1>2, <1>5 DEF InTime, TargetsOK, ImageOK

LEMMA StartInTime ==
    ASSUME TypesOK, InTime, StartAnswered, late' = 0
    PROVE  InTime'
<1>1. /\ Answered("start") /\ at = "start" /\ UNCHANGED <<modem, size>> /\ at' = "idle"
  BY AnsweredType DEF StartAnswered, Answered, Return
<1>2. /\ late = 0 /\ OnTheLink' /\ Received' /\ (Ok => Executed)
      /\ status = "RUNNING" => modem.running
  BY <1>1, AnsweredInTime
<1>3. result' \in {"started", "failed"} /\ (status' = "RUNNING" => Ok \/ status = "RUNNING")
  BY DEF StartAnswered, Return
<1>4. ResultOK'
  BY <1>1, <1>2, <1>3 DEF ResultOK, Executed
<1> QED  BY <1>1, <1>2, <1>4 DEF InTime, TargetsOK, ImageOK

-----------------------------------------------------------------------------
LEMMA RequestKept == UNCHANGED <<at, target, file>> => Request' = Request
  BY DEF Request

LEMMA InTimeInit == Init => InTime /\ ChunkOK /\ ModemOK
  BY DEF Init, InTime, OnTheLink, Received, TargetsOK, ImageOK, ResultOK, ChunkOK, ModemOK

LEMMA InTimeNext ==
    ASSUME CodeTries, TypesOK, ChunkOK, ModemOK, InTime, [Next]_vars
    PROVE  InTime'
<1> SUFFICES ASSUME late' = 0 PROVE InTime'
  BY DEF InTime
<1>1. CASE Download \/ Start
  <2>1. /\ at = "idle" /\ ~sync.sent /\ ~sync.res
        /\ UNCHANGED <<requests, acks, modem, status, sync, late>>
        /\ at' \in {"options", "start"} /\ result' = "none"
    BY <1>1 DEF Download, Start, TypesOK, SyncOK
  <2>2. OnTheLink /\ ResultOK
    BY <2>1 DEF InTime
  <2>3. requests' = <<>> /\ acks' = <<>>
    BY <2>1, <2>2 DEF OnTheLink
  <2>4. ResultOK'
    BY <2>1, <2>2 DEF ResultOK
  <2> QED  BY <2>1, <2>3, <2>4 DEF InTime, OnTheLink, Received, TargetsOK, ImageOK
<1>b. CASE Begin
  <2>1. /\ ~sync.sent /\ sync \in Syncs /\ sync' = [sync EXCEPT !.req = TRUE, !.res = FALSE]
        /\ UNCHANGED <<size, at, target, file, result, status, requests, acks, modem, late>>
    BY <1>b DEF Begin, TypesOK, SyncOK
  <2>2. late = 0 /\ OnTheLink /\ TargetsOK /\ ImageOK /\ ResultOK
    BY <2>1 DEF InTime
  <2>3. requests' = <<>> /\ acks' = <<>>
    BY <2>1, <2>2 DEF OnTheLink
  <2>4. ~sync'.res
    BY <2>1 DEF Syncs
  <2> QED  BY <2>1, <2>2, <2>3, <2>4
           DEF InTime, OnTheLink, Received, TargetsOK, ImageOK, ResultOK, Prefix
<1>2. CASE Ask
  <2>0. ~sync.sent /\ late = 0
    BY <1>2 DEF Ask
  <2>1. /\ ~sync.sent /\ ~sync.res /\ sync \in Syncs
        /\ sync' = [sync EXCEPT !.cmd = at, !.sent = TRUE]
        /\ requests' = Append(requests, Request)
        /\ UNCHANGED <<size, at, target, file, result, status, acks, modem, late>>
    BY <1>2, <2>0 DEF Ask, TypesOK, SyncOK, InTime, Received
  <2>2. late = 0 /\ OnTheLink /\ TargetsOK /\ ImageOK /\ ResultOK
    BY <2>1 DEF InTime
  <2>3. requests = <<>> /\ acks = <<>>
    BY <2>1, <2>2 DEF OnTheLink
  <2>4. sync'.sent /\ ~sync'.res
    BY <2>1 DEF Syncs
  <2>5. requests' = <<Request'>> /\ acks' = <<>>
    BY <2>1, <2>3, RequestKept
  <2> QED  BY <2>1, <2>2, <2>4, <2>5
           DEF InTime, OnTheLink, Received, TargetsOK, ImageOK, ResultOK, Prefix
<1>3. CASE Thread /\ ~Begin /\ ~Ask
  BY <1>3, PreparedInTime, InitInTime, FrameInTime, CrcInTime, StartInTime DEF Thread
<1>4. CASE AckInd
  <2>1. /\ acks # <<>> /\ acks' = Tail(acks)
        /\ UNCHANGED <<size, at, target, file, result, status, requests, modem, late>>
    BY <1>4 DEF AckInd
  <2>2. late = 0 /\ OnTheLink /\ TargetsOK /\ ImageOK /\ ResultOK
    BY <2>1 DEF InTime
  <2>3. PICK st \in Statuses : /\ sync.sent /\ requests = <<>> /\ Means(st)
                              /\ acks = <<[cmd |-> at, status |-> st]>>
    BY <2>1, <2>2 DEF OnTheLink
  <2>4. Head(acks).cmd = at /\ Head(acks).status = st /\ acks' = <<>>
    BY <2>1, <2>3
  <2>5. sync' = [sync EXCEPT !.status = st, !.res = TRUE] /\ sync \in Syncs
    BY <1>4, <2>3, <2>4 DEF AckInd, TypesOK, SyncOK
  <2>6. sync'.status = st /\ sync'.sent
    BY <2>3, <2>5 DEF Syncs
  <2>7. Means(st)'
    BY <2>1, <2>3 DEF Means, Executed, Prefix
  <2>8. OnTheLink' /\ Received'
    BY <2>1, <2>3, <2>4, <2>6, <2>7 DEF OnTheLink, Received, Means
  <2> QED  BY <2>1, <2>2, <2>8 DEF InTime, TargetsOK, ImageOK, ResultOK, Prefix
<1>5. ASSUME NEW last \in BOOLEAN, StatusInd(last) PROVE InTime'
  <2>1. /\ ~sync.req /\ ~sync.sent /\ ~sync.res
        /\ sync' = [sync EXCEPT !.res = @ \/ sync.req]
        /\ UNCHANGED <<size, at, target, file, result, requests, acks, late>>
    BY <1>5 DEF StatusInd, CodeTries, TypesOK, SyncOK
  <2>2. ~sync'.res
    BY <2>1 DEF TypesOK, SyncOK, Syncs
  <2>3. late = 0 /\ OnTheLink /\ TargetsOK /\ ImageOK /\ ResultOK
    BY <2>1 DEF InTime
  <2>4. requests' = <<>> /\ acks' = <<>>
    BY <2>1, <2>3 DEF OnTheLink
  <2>5. /\ modem'.targets = modem.targets /\ modem'.chunk = modem.chunk
        /\ modem'.image = modem.image
        /\ status' = "RUNNING" => status = "RUNNING" /\ modem' = modem
    BY <1>5 DEF StatusInd, ModemOK
  <2>6. TargetsOK' /\ ImageOK' /\ ResultOK'
    BY <2>1, <2>3, <2>5 DEF TargetsOK, ImageOK, ResultOK, Prefix
  <2> QED  BY <2>2, <2>4, <2>6 DEF InTime, OnTheLink, Received
<1>6. CASE ModemActs
  <2>1. /\ requests # <<>> /\ requests' = Tail(requests)
        /\ UNCHANGED <<size, at, target, file, sync, result, status, late>>
    BY <1>6 DEF ModemActs
  <2>2. late = 0 /\ OnTheLink /\ Received /\ TargetsOK /\ ImageOK /\ ResultOK
    BY <2>1 DEF InTime
  <2>3. /\ sync.sent /\ ~sync.res /\ requests = <<Request>> /\ acks = <<>>
    BY <2>1, <2>2 DEF OnTheLink
  <2>4. /\ at # "idle" /\ at \in Steps /\ Request.cmd = at
        /\ Head(requests) = Request /\ requests' = <<>>
    <3>1. at # "idle" /\ at \in Steps
      BY <2>3 DEF TypesOK, SyncOK, PlaceOK
    <3> DEFINE r == Request
    <3>2. requests = <<r>>
      BY <2>3
    <3> HIDE DEF r
    <3>3. Head(requests) = r /\ Tail(requests) = <<>>
      BY <3>2
    <3> QED  BY <2>1, <3>1, <3>3, RequestAt DEF r
  <2>5. result = "none"
    BY <2>2, <2>4 DEF ResultOK
  <2>6. \E st \in Statuses :
          /\ acks' = <<[cmd |-> at, status |-> st]>>
          /\ Means(st)' /\ TargetsOK' /\ ImageOK' /\ (modem.running => modem'.running)
    <3> DEFINE ok == Request.cmd = "crc" => modem.image = Whole
               st == IF ok THEN "ok" ELSE "error"
    <3>1. CASE modem' = Done(modem, Request) /\ acks' = Append(acks, [cmd |-> Request.cmd, status |-> st])
      <4>1. ok
        BY <2>2, <2>4, WholeIsPrefix DEF ImageOK
      <4>2. acks' = <<[cmd |-> at, status |-> "ok"]>>
        BY <2>3, <2>4, <3>1, <4>1
      <4>3. Executed' /\ TargetsOK' /\ ImageOK' /\ (modem.running => modem'.running)
        BY <2>1, <2>2, <2>4, <3>1, DoneType
      <4> QED  BY <4>2, <4>3 DEF Means, Statuses
    <3>2. CASE modem' = modem /\ at # "crc" /\ acks' = Append(acks, [cmd |-> Request.cmd, status |-> "error"])
      <4>1. acks' = <<[cmd |-> at, status |-> "error"]>>
        BY <2>3, <2>4, <3>2
      <4>2. TargetsOK' /\ ImageOK' /\ (modem.running => modem'.running)
        BY <2>1, <2>2, <3>2 DEF TargetsOK, ImageOK, Prefix
      <4> QED  BY <2>1, <3>2, <4>1, <4>2 DEF Means, Statuses
    <3>3. \/ modem' = Done(modem, Request) /\ acks' = Append(acks, [cmd |-> Request.cmd, status |-> st])
          \/ /\ modem' = modem /\ at # "crc"
             /\ acks' = Append(acks, [cmd |-> Request.cmd, status |-> "error"])
      BY <1>6, <2>4 DEF ModemActs
    <3> QED  BY <3>1, <3>2, <3>3
  <2>7. OnTheLink' /\ Received'
    BY <2>1, <2>3, <2>4, <2>6 DEF OnTheLink, Received, Means
  <2>8. ResultOK'
    BY <2>1, <2>2, <2>5, <2>6 DEF ResultOK
  <2> QED  BY <2>6, <2>7, <2>8 DEF InTime
<1>7. CASE Lose
  <2>1. UNCHANGED <<size, at, target, file, sync, result, status, modem, late>>
    BY <1>7 DEF Lose
  <2>2. late = 0 /\ OnTheLink /\ Received /\ TargetsOK /\ ImageOK /\ ResultOK
    BY <2>1 DEF InTime
  <2>3. requests' = <<>> /\ acks' = <<>>
    <3>1. /\ requests = <<>> \/ \E r : requests = <<r>>
          /\ acks = <<>> \/ \E a : acks = <<a>>
          /\ requests = <<>> \/ acks = <<>>
      BY <2>2 DEF OnTheLink
    <3>2. /\ requests # <<>> => Tail(requests) = <<>>
          /\ acks # <<>> => Tail(acks) = <<>>
      <4>1. ASSUME NEW x PROVE Tail(<<x>>) = <<>>
        OBVIOUS
      <4> QED  BY <3>1, <4>1
    <3> QED  BY <1>7, <3>1, <3>2 DEF Lose
  <2>4. Received'
    BY <2>1, <2>2, <2>3 DEF Received, Means, Executed, Prefix
  <2> QED  BY <2>1, <2>2, <2>3, <2>4 DEF InTime, OnTheLink, TargetsOK, ImageOK, ResultOK, Prefix
<1>8. CASE UNCHANGED vars
  BY <1>8, RequestKept
  DEF vars, InTime, OnTheLink, Received, Means, Executed, TargetsOK, ImageOK, ResultOK, Prefix
<1> QED  BY <1>1, <1>b, <1>2, <1>3, <1>4, <1>5, <1>6, <1>7, <1>8 DEF Next

(* The chunks: 512, 128 and 32 bytes, in the three transfers there are. *)
LEMMA ChunkNext ==
    ASSUME CodeTries, TypesOK, ChunkOK, ModemOK, [Next]_vars
    PROVE  ChunkOK' /\ ModemOK'
<1>1. CASE Download \/ Start \/ Begin \/ Ask \/ AckInd \/ Lose \/ UNCHANGED vars
  <2>1. UNCHANGED <<file, modem>> /\ (at' = at \/ at' \in {"options", "start"})
    BY <1>1 DEF Download, Start, Begin, Ask, AckInd, Lose, vars
  <2> QED  BY <2>1 DEF ChunkOK, ModemOK
<1>2. CASE \E last \in BOOLEAN : StatusInd(last)
  <2>1. UNCHANGED <<file, at>> /\ (modem' = modem \/ modem' = [modem EXCEPT !.running = FALSE])
    BY <1>2 DEF StatusInd
  <2> QED  BY <2>1 DEF ChunkOK, ModemOK
<1>3. CASE ModemActs
  <2>1. UNCHANGED <<file, at>> /\ (modem' = modem \/ \E r : modem' = Done(modem, r))
    BY <1>3 DEF ModemActs
  <2>2. ModemOK'
    BY <2>1 DEF ModemOK, Done, Stored
  <2> QED  BY <2>1, <2>2 DEF ChunkOK
<1>4. ASSUME NEW step \in Preparing, Prepared(step) PROVE ChunkOK' /\ ModemOK'
  <2>1. modem' = modem
    BY <1>4 DEF Prepared, Answered
  <2>2. CASE at' = "init"
    <3>1. file' = Opened
      BY <1>4, <2>2 DEF Prepared, Return
    <3> QED  BY <2>1, <2>2, <3>1 DEF ChunkOK, ModemOK, Opened, ChunkSize
  <2>3. CASE at' # "init"
    <3>1. at' # "frame"
      BY <1>4, <2>3 DEF Prepared, Return, Following, Preparing
    <3> QED  BY <2>1, <2>3, <3>1 DEF ChunkOK, ModemOK
  <2> QED  BY <2>2, <2>3
<1>5. CASE InitAnswered
  <2>1. modem' = modem /\ at = "init" /\ (file' = file \/ file' = Rewound(file))
        /\ size \in Nat /\ file \in Files
    BY <1>5 DEF InitAnswered, Answered, TypesOK, PlaceOK
  <2>2. file'.chunk = file.chunk /\ file'.tries = file.tries
    BY <2>1, RewoundType
  <2> QED  BY <2>1, <2>2 DEF ChunkOK, ModemOK
<1>6. CASE FrameAnswered
  <2>1. modem' = modem /\ at = "frame" /\ size \in Nat /\ file \in Files /\ file.pos =< size
        /\ file.frameTries >= 1 /\ file.tries \in 1 .. Tries
    <3>1. modem' = modem /\ at = "frame"
      BY <1>6 DEF FrameAnswered, Answered
    <3>2. size \in Nat /\ file \in Files /\ file.pos =< size /\ TriesOK
      BY DEF TypesOK, PlaceOK
    <3>3. file.tries \in 0 .. Tries
      BY <3>2, FileFields
    <3> QED  BY <3>1, <3>2, <3>3, UpgradeAssumption DEF TriesOK
  <2>2. PICK f \in Files : /\ f.chunk = file.chunk /\ f.tries = file.tries
                           /\ f = AfterFrame(file, Ok)
    <3>1. CASE Ok
      <4>1. AfterFrame(file, TRUE).chunk = file.chunk /\ AfterFrame(file, TRUE).tries = file.tries
            /\ AfterFrame(file, TRUE) \in Files
        BY <2>1, AckedType
      <4>2. AfterFrame(file, Ok) = AfterFrame(file, TRUE)
        BY <3>1 DEF AfterFrame
      <4> QED  BY <4>1, <4>2
    <3>2. CASE ~Ok
      <4>1. AfterFrame(file, FALSE).chunk = file.chunk /\ AfterFrame(file, FALSE).tries = file.tries
            /\ AfterFrame(file, FALSE) \in Files
        BY <2>1, NotAckedType
      <4>2. AfterFrame(file, Ok) = AfterFrame(file, FALSE)
        BY <3>2 DEF AfterFrame
      <4> QED  BY <4>1, <4>2
    <3> QED  BY <3>1, <3>2
  <2>3. file.chunk = 16 \/ (file.chunk = 4 /\ file.tries =< 2) \/ (file.chunk = 1 /\ file.tries =< 1)
    BY <2>1 DEF ChunkOK
  <2>4. CASE f.frameTries = 0
    <3>1. /\ file' = [f EXCEPT !.chunk = f.chunk \div 4, !.tries = f.tries - 1]
          /\ IF f.tries = 1 THEN at' = "idle" ELSE at' = "init"
      BY <1>6, <2>2, <2>4 DEF FrameAnswered, Return
    <3> DEFINE c == f.chunk \div 4
               n == f.tries - 1
    <3>2. CASE f.tries = 1
      BY <2>1, <3>1, <3>2 DEF ChunkOK, ModemOK
    <3>3. CASE f.tries # 1
      <4>1. (c = 4 /\ n =< 2) \/ (c = 1 /\ n =< 1)
        <5>1. f.tries \in 2 .. 3
          BY <2>1, <2>2, <3>3, UpgradeAssumption DEF CodeTries
        <5>2. f.chunk = 16 \/ (f.chunk = 4 /\ f.tries =< 2)
          BY <2>2, <2>3, <5>1
        <5> QED  BY <5>1, <5>2
      <4> HIDE DEF c, n
      <4>2. file' = [f EXCEPT !.chunk = c, !.tries = n]
        BY <3>1 DEF c, n
      <4>3. file'.chunk = c /\ file'.tries = n
        BY <2>2, <4>2 DEF Files
      <4> QED  BY <2>1, <4>1, <4>3 DEF ChunkOK, ModemOK
    <3> QED  BY <3>2, <3>3
  <2>5. CASE f.frameTries # 0
    <3>1. file' = f
      BY <1>6, <2>2, <2>5 DEF FrameAnswered
    <3> QED  BY <2>1, <2>2, <2>3, <3>1 DEF ChunkOK, ModemOK
  <2> QED  BY <2>4, <2>5
<1>7. CASE CrcAnswered \/ StartAnswered
  <2>1. modem' = modem /\ at' = "idle"
    BY <1>7 DEF CrcAnswered, StartAnswered, Answered, Return
  <2> QED  BY <2>1 DEF ChunkOK, ModemOK
<1> QED  BY <1>1, <1>2, <1>3, <1>4, <1>5, <1>6, <1>7 DEF Next, Thread

(* The inductive invariant *)
IInv == TypesOK /\ ChunkOK /\ ModemOK /\ InTime

LEMMA Inductive == ASSUME CodeTries PROVE Spec => []IInv
<1>1. Init => IInv
  BY TypesInit, InTimeInit DEF IInv
<1>2. IInv /\ [Next]_vars => IInv'
  BY TypesNext, ChunkNext, InTimeNext DEF IInv
<1> QED  BY <1>1, <1>2, PTL DEF Spec

-----------------------------------------------------------------------------
(* For the three tries of the code, images of every size and any number of *)
(* lost requests and acks: where no ack comes late, the modem finds no     *)
(* image to be bad.  Frames sent again leave neither gaps nor bytes of the *)
(* wrong place (fw_upgrade_transfer_file, base_node_mng_fw_upgrade.c:1078).*)
THEOREM NoImageIsBad == ASSUME CodeTries PROVE Spec => []ImageIsGood
<1>1. IInv => ImageIsGood
  <2>1. late \in Nat => late = 0 \/ late > 0
    OBVIOUS
  <2>2. IInv => late \in Nat /\ (late = 0 => ResultOK)
    BY DEF IInv, TypesOK, PlaceOK, InTime
  <2> QED  BY <2>1, <2>2 DEF ResultOK, ImageIsGood
<1> QED  BY <1>1, Inductive, PTL

(* Then, too, the status says RUNNING only of an upgrade that runs.        *)
THEOREM StatusIsTrue == ASSUME CodeTries PROVE Spec => []RunningIsRunning
<1>1. IInv => RunningIsRunning
  <2>1. late \in Nat => late = 0 \/ late > 0
    OBVIOUS
  <2>2. IInv => late \in Nat /\ (late = 0 => ResultOK)
    BY DEF IInv, TypesOK, PlaceOK, InTime
  <2> QED  BY <2>1, <2>2 DEF ResultOK, RunningIsRunning
<1> QED  BY <1>1, Inductive, PTL

-----------------------------------------------------------------------------
(* Where at most two acks come late, and none before its request is sent *)

(* The commands on the link, those of the acks first. *)
Cmd(i) == IF i =< Len(acks) THEN acks[i].cmd ELSE requests[i - Len(acks)].cmd

Waits == sync.sent /\ ~sync.res

(* What is on the link has been given up, but for what waits. *)
CountOK ==
    /\ InFlight =< late + (IF Waits THEN 1 ELSE 0)
    /\ sync.res => sync.sent

(* With the options, only the head of what is left is of earlier downloads *)
(* when an ack of theirs has come, ...                                     *)
OptionsOK ==
    at = "options" =>
        /\ Waits /\ InFlight = 3 => Cmd(3) = "options"
        /\ sync.res => \A i \in 2 .. InFlight : Cmd(i) = "options"

(* ... and nothing at all when one of the clear has. *)
ClearOK ==
    at = "clear" =>
        /\ \A i \in 2 .. InFlight : Cmd(i) \in {"options", "clear"}
        /\ sync.res /\ InFlight > 0 => Cmd(1) \in {"options", "clear"}

(* So the add and the check are not answered by an earlier one: behind     *)
(* theirs there is nothing on the link.                                    *)
LastOnLink(step) ==
    /\ \A i \in 1 .. InFlight : Cmd(i) = step => i = InFlight /\ Waits /\ at = step
    /\ at = step /\ sync.res => InFlight = 0

Later == {"data", "rule", "signature", "init", "frame", "crc"}

AddOK ==
    at = "add" =>
        /\ LastOnLink("add")
        /\ \A i \in 1 .. InFlight : Cmd(i) \in {"options", "clear", "add"}
        /\ target > 1 => \A i \in 1 .. InFlight : Cmd(i) = "add"
        /\ \A i \in DOMAIN requests : requests[i].cmd = "add" => requests[i].sn = target
        /\ 1 .. target - 1 \subseteq modem.targets
        /\ \A i \in DOMAIN acks :
               acks[i].cmd = "add" /\ acks[i].status = "ok" => target \in modem.targets
        /\ Ok => target \in modem.targets

LaterOK ==
    at \in Later =>
        /\ LastOnLink("crc")
        /\ \A i \in 1 .. InFlight : Cmd(i) = "clear" => NumTargets = 0
        /\ 1 .. NumTargets \subseteq modem.targets
        /\ \A i \in DOMAIN acks :
               acks[i].cmd = "crc" /\ acks[i].status = "ok" => modem.image = Whole
        /\ at = "crc" /\ Ok => modem.image = Whole

ReturnedOK ==
    result = "success" =>
        at = "idle" /\ InFlight = 0 /\ modem.image = Whole /\ 1 .. NumTargets \subseteq modem.targets

FewLate ==
    late =< 2 /\ ~crossed => CountOK /\ OptionsOK /\ ClearOK /\ AddOK /\ LaterOK /\ ReturnedOK

(* Only targets are added. *)
OnlyTargets ==
    /\ \A i \in DOMAIN requests : requests[i].cmd = "add" => requests[i].sn \in 1 .. NumTargets
    /\ modem.targets \subseteq 1 .. NumTargets

-----------------------------------------------------------------------------
(* The link *)

LEMMA LinkLen ==
    ASSUME TypesOK
    PROVE  Len(acks) \in Nat /\ Len(requests) \in Nat /\ InFlight \in Nat
           /\ InFlight = Len(acks) + Len(requests)
<1>1. Len(acks) \in Nat /\ Len(requests) \in Nat
  BY DEF TypesOK, LinkOK
<1> QED  BY <1>1 DEF InFlight

LEMMA CmdsOnLink ==
    ASSUME TypesOK
    PROVE  /\ \A i \in DOMAIN acks : i \in 1 .. InFlight /\ Cmd(i) = acks[i].cmd
           /\ \A i \in DOMAIN requests :
                Len(acks) + i \in 1 .. InFlight /\ Cmd(Len(acks) + i) = requests[i].cmd
<1>1. /\ Len(acks) \in Nat /\ Len(requests) \in Nat /\ InFlight \in Nat
      /\ InFlight = Len(acks) + Len(requests)
      /\ DOMAIN acks = 1 .. Len(acks) /\ DOMAIN requests = 1 .. Len(requests)
  BY LinkLen DEF TypesOK, LinkOK
<1>2. ASSUME NEW i \in DOMAIN acks PROVE i \in 1 .. InFlight /\ Cmd(i) = acks[i].cmd
  BY <1>1 DEF Cmd
<1>3. ASSUME NEW i \in DOMAIN requests
      PROVE  Len(acks) + i \in 1 .. InFlight /\ Cmd(Len(acks) + i) = requests[i].cmd
  <2> DEFINE n == Len(acks) + i
  <2>1. n \in 1 .. InFlight /\ ~(n =< Len(acks)) /\ n - Len(acks) = i
    BY <1>1
  <2> HIDE DEF n
  <2>2. Cmd(n) = requests[i].cmd
    BY <2>1 DEF Cmd
  <2> QED  BY <2>1, <2>2 DEF n
<1> QED  BY <1>2, <1>3

(* A request is put behind all there is, ... *)
LEMMA LinkAsked ==
    ASSUME TypesOK, NEW r, requests' = Append(requests, r), acks' = acks
    PROVE  /\ InFlight' = InFlight + 1
           /\ \A i \in 1 .. InFlight : Cmd(i)' = Cmd(i)
           /\ \A i \in 1 .. InFlight' : i \in 1 .. InFlight \/ (i = InFlight' /\ Cmd(i)' = r.cmd)
           /\ \A i \in DOMAIN requests' :
                requests'[i] = r \/ \E j \in DOMAIN requests : requests'[i] = requests[j]
<1> DEFINE a == Len(acks)
           q == Len(requests)
<1>1. /\ a \in Nat /\ q \in Nat /\ InFlight = a + q
  BY LinkLen
<1>2. /\ Len(requests') = q + 1 /\ requests'[q + 1] = r /\ DOMAIN requests' = 1 .. q + 1
      /\ \A i \in 1 .. q : requests'[i] = requests[i]
      /\ DOMAIN requests = 1 .. q
  BY DEF TypesOK, LinkOK
<1> HIDE DEF a, q
<1>3. InFlight' = InFlight + 1
  <2>1. Len(acks') = a
    BY DEF a
  <2> QED  BY <1>1, <1>2, <2>1 DEF InFlight
<1>4. \A i : Cmd(i)' = IF i =< a THEN acks[i].cmd ELSE requests'[i - a].cmd
  BY DEF Cmd, a
<1>5. \A i : Cmd(i) = IF i =< a THEN acks[i].cmd ELSE requests[i - a].cmd
  BY DEF Cmd, a
<1>6. ASSUME NEW i \in 1 .. InFlight PROVE Cmd(i)' = Cmd(i)
  <2>1. CASE i =< a
    BY <1>4, <1>5, <2>1
  <2>2. CASE ~(i =< a)
    <3>1. i - a \in 1 .. q
      BY <1>1, <2>2
    <3> QED  BY <1>2, <1>4, <1>5, <2>2, <3>1
  <2> QED  BY <2>1, <2>2
<1>7. ASSUME NEW i \in 1 .. InFlight'
      PROVE  i \in 1 .. InFlight \/ (i = InFlight' /\ Cmd(i)' = r.cmd)
  <2>1. i \in 1 .. InFlight \/ i = InFlight + 1
    BY <1>1, <1>3
  <2>2. ASSUME i = InFlight + 1 PROVE Cmd(i)' = r.cmd
    <3>1. ~(i =< a) /\ i - a = q + 1
      BY <1>1, <2>2
    <3> QED  BY <1>2, <1>4, <3>1
  <2> QED  BY <1>3, <2>1, <2>2
<1>8. \A i \in 1 .. q + 1 : i = q + 1 \/ i \in 1 .. q
  BY <1>1
<1> QED  BY <1>2, <1>3, <1>6, <1>7, <1>8

(* ... and what is asked is acked in its place. *)
LEMMA LinkActed ==
    ASSUME TypesOK, requests # <<>>, requests' = Tail(requests),
           NEW st \in Statuses,
           acks' = Append(acks, [cmd |-> Head(requests).cmd, status |-> st])
    PROVE  /\ InFlight' = InFlight /\ InFlight > 0
           /\ \A i \in 1 .. InFlight : Cmd(i)' = Cmd(i)
           /\ \A i \in DOMAIN requests' : \E j \in DOMAIN requests : requests'[i] = requests[j]
           /\ \A i \in DOMAIN acks' :
                \/ acks'[i] = [cmd |-> Head(requests).cmd, status |-> st]
                \/ i \in DOMAIN acks /\ acks'[i] = acks[i] /\ i # InFlight
           /\ 1 \in DOMAIN requests /\ Head(requests) = requests[1]
<1> DEFINE a == Len(acks)
           q == Len(requests)
           r == Head(requests)
<1>1. /\ a \in Nat /\ q \in Nat /\ InFlight = a + q /\ q >= 1
      /\ DOMAIN requests = 1 .. q /\ r = requests[1] /\ DOMAIN acks = 1 .. a
  BY LinkLen DEF TypesOK, LinkOK
<1>2. /\ Len(requests') = q - 1 /\ DOMAIN requests' = 1 .. q - 1
      /\ \A i \in 1 .. q - 1 : requests'[i] = requests[i + 1]
  <2>1. requests \in Seq(Requests)
    BY DEF TypesOK, LinkOK
  <2> HIDE DEF Requests
  <2> QED  BY <2>1
<1> HIDE DEF r
<1>3. r.cmd \in Steps
  <2>1. r \in Requests
    <3>1. requests \in Seq(Requests)
      BY DEF TypesOK, LinkOK
    <3> HIDE DEF Requests
    <3> QED  BY <1>1, <3>1
  <2> QED  BY <2>1, RequestCmd
<1> DEFINE k == [cmd |-> r.cmd, status |-> st]
<1>4. acks' = Append(acks, k) /\ k \in Acks
  BY <1>3 DEF Acks, r
<1> HIDE DEF k
<1>5. /\ Len(acks') = a + 1 /\ acks'[a + 1] = k /\ DOMAIN acks' = 1 .. a + 1
      /\ \A i \in 1 .. a : acks'[i] = acks[i]
  BY <1>4 DEF TypesOK, LinkOK
<1> HIDE DEF a, q
<1>6. InFlight' = InFlight /\ InFlight > 0
  <2>1. InFlight' = Len(requests') + Len(acks')
    BY DEF InFlight
  <2>2. InFlight' = (q - 1) + (a + 1)
    BY <1>2, <1>5, <2>1
  <2>3. (q - 1) + (a + 1) = a + q /\ a + q > 0
    BY <1>1
  <2> QED  BY <1>1, <2>2, <2>3
<1>7. \A i : Cmd(i)' = IF i =< a + 1 THEN acks'[i].cmd ELSE requests'[i - (a + 1)].cmd
  BY <1>5 DEF Cmd
<1>8. \A i : Cmd(i) = IF i =< a THEN acks[i].cmd ELSE requests[i - a].cmd
  BY DEF Cmd, a
<1>9. ASSUME NEW i \in 1 .. InFlight PROVE Cmd(i)' = Cmd(i)
  <2>1. CASE i =< a
    <3>1. i \in 1 .. a /\ i =< a + 1
      BY <1>1, <2>1
    <3> QED  BY <1>5, <1>7, <1>8, <2>1, <3>1
  <2>2. CASE i = a + 1
    <3>1. ~(i =< a) /\ i - a = 1 /\ i =< a + 1
      BY <1>1, <2>2
    <3>2. k.cmd = r.cmd
      BY DEF k
    <3> QED  BY <1>1, <1>5, <1>7, <1>8, <2>2, <3>1, <3>2
  <2>3. CASE ~(i =< a + 1)
    <3> DEFINE n == i - (a + 1)
    <3>1. ~(i =< a) /\ n \in 1 .. q - 1 /\ i - a = n + 1
      BY <1>1, <2>3
    <3>2. Cmd(i)' = requests'[n].cmd
      BY <1>7, <2>3
    <3>3. Cmd(i) = requests[n + 1].cmd
      BY <1>8, <3>1
    <3> HIDE DEF n
    <3> QED  BY <1>2, <3>1, <3>2, <3>3
  <2>4. i =< a \/ i = a + 1 \/ ~(i =< a + 1)
    BY <1>1
  <2> QED  BY <2>1, <2>2, <2>3, <2>4
<1>10. ASSUME NEW i \in DOMAIN requests' PROVE \E j \in DOMAIN requests : requests'[i] = requests[j]
  <2>1. i + 1 \in 1 .. q /\ i \in 1 .. q - 1
    BY <1>1, <1>2
  <2> QED  BY <1>1, <1>2, <2>1
<1>11. ASSUME NEW i \in DOMAIN acks'
       PROVE  acks'[i] = k \/ (i \in DOMAIN acks /\ acks'[i] = acks[i] /\ i # InFlight)
  <2>1. i = a + 1 \/ (i \in 1 .. a /\ i # InFlight)
    BY <1>1, <1>5
  <2> QED  BY <1>1, <1>5, <2>1
<1>12. 1 \in DOMAIN requests
  BY <1>1
<1> QED  BY <1>1, <1>6, <1>9, <1>10, <1>11, <1>12 DEF k, r

(* What is received or lost leaves the rest in its order. *)
OneFewer ==
    /\ InFlight' = InFlight - 1 /\ InFlight > 0
    /\ \A i \in 1 .. InFlight' : Cmd(i)' \in {Cmd(i), Cmd(i + 1)}
    /\ \A i \in DOMAIN requests' : \E j \in DOMAIN requests : requests'[i] = requests[j]
    /\ \A i \in DOMAIN acks' : \E j \in DOMAIN acks : acks'[i] = acks[j]

LEMMA LinkReceived ==
    ASSUME TypesOK, acks # <<>>, acks' = Tail(acks), requests' = requests
    PROVE  /\ OneFewer
           /\ \A i \in 1 .. InFlight' : Cmd(i)' = Cmd(i + 1)
           /\ Head(acks).cmd = Cmd(1) /\ Head(acks) = acks[1] /\ 1 \in DOMAIN acks
<1> DEFINE a == Len(acks)
           q == Len(requests)
<1>1. /\ a \in Nat /\ q \in Nat /\ InFlight = a + q /\ a >= 1
      /\ DOMAIN acks = 1 .. a /\ Head(acks) = acks[1]
  BY LinkLen DEF TypesOK, LinkOK
<1>2. /\ Len(acks') = a - 1 /\ DOMAIN acks' = 1 .. a - 1
      /\ \A i \in 1 .. a - 1 : acks'[i] = acks[i + 1]
  <2>1. acks \in Seq(Acks)
    BY DEF TypesOK, LinkOK
  <2> HIDE DEF Acks
  <2> QED  BY <2>1
<1>3. Len(requests') = q
  OBVIOUS
<1> HIDE DEF a, q
<1>4. InFlight' = InFlight - 1 /\ InFlight > 0
  <2>1. InFlight' = Len(requests') + Len(acks')
    BY DEF InFlight
  <2> QED  BY <1>1, <1>2, <1>3, <2>1
<1>5. \A i : Cmd(i)' = IF i =< a - 1 THEN acks'[i].cmd ELSE requests[i - (a - 1)].cmd
  BY <1>2 DEF Cmd
<1>6. \A i : Cmd(i) = IF i =< a THEN acks[i].cmd ELSE requests[i - a].cmd
  BY DEF Cmd, a
<1>7. ASSUME NEW i \in 1 .. InFlight' PROVE Cmd(i)' = Cmd(i + 1)
  <2> DEFINE n == i + 1
  <2>1. i \in Nat /\ n \in Nat
    BY <1>1, <1>4
  <2>2. CASE i =< a - 1
    <3>1. i \in 1 .. a - 1 /\ n =< a
      BY <1>1, <1>4, <2>2
    <3>2. Cmd(n) = acks[n].cmd
      <4> HIDE DEF n
      <4> QED  BY <1>6, <3>1
    <3> QED  BY <1>2, <1>5, <2>2, <3>1, <3>2
  <2>3. CASE ~(i =< a - 1)
    <3>1. ~(n =< a) /\ n - a = i - (a - 1)
      BY <1>1, <2>1, <2>3
    <3> HIDE DEF n
    <3>2. Cmd(n) = requests[n - a].cmd
      BY <1>6, <3>1
    <3>3. Cmd(i)' = Cmd(n)
      BY <1>5, <2>3, <3>1, <3>2
    <3> QED  BY <3>3 DEF n
  <2> QED  BY <2>2, <2>3
<1>8. ASSUME NEW i \in DOMAIN acks' PROVE \E j \in DOMAIN acks : acks'[i] = acks[j]
  <2>1. i + 1 \in 1 .. a /\ i \in 1 .. a - 1
    BY <1>1, <1>2
  <2> QED  BY <1>1, <1>2, <2>1
<1>9. 1 \in DOMAIN acks /\ Cmd(1) = acks[1].cmd
  BY <1>1, <1>6
<1> QED  BY <1>1, <1>4, <1>7, <1>8, <1>9 DEF OneFewer

LEMMA LinkLost ==
    ASSUME TypesOK, requests # <<>>, requests' = Tail(requests), acks' = acks
    PROVE  OneFewer
<1> DEFINE a == Len(acks)
           q == Len(requests)
<1>1. /\ a \in Nat /\ q \in Nat /\ InFlight = a + q /\ q >= 1
      /\ DOMAIN requests = 1 .. q
  BY LinkLen DEF TypesOK, LinkOK
<1>2. /\ Len(requests') = q - 1 /\ DOMAIN requests' = 1 .. q - 1
      /\ \A i \in 1 .. q - 1 : requests'[i] = requests[i + 1]
  <2>1. requests \in Seq(Requests)
    BY DEF TypesOK, LinkOK
  <2> HIDE DEF Requests
  <2> QED  BY <2>1
<1>3. Len(acks') = a
  OBVIOUS
<1> HIDE DEF a, q
<1>4. InFlight' = InFlight - 1 /\ InFlight > 0
  <2>1. InFlight' = Len(requests') + Len(acks')
    BY DEF InFlight
  <2> QED  BY <1>1, <1>2, <1>3, <2>1
<1>5. \A i : Cmd(i)' = IF i =< a THEN acks[i].cmd ELSE requests'[i - a].cmd
  BY DEF Cmd, a
<1>6. \A i : Cmd(i) = IF i =< a THEN acks[i].cmd ELSE requests[i - a].cmd
  BY DEF Cmd, a
<1>7. ASSUME NEW i \in 1 .. InFlight' PROVE Cmd(i)' \in {Cmd(i), Cmd(i + 1)}
  <2>1. CASE i =< a
    BY <1>5, <1>6, <2>1
  <2>2. CASE ~(i =< a)
    <3> DEFINE n == i + 1
               m == i - a
    <3>1. m \in 1 .. q - 1 /\ ~(n =< a) /\ n - a = m + 1
      BY <1>1, <1>4, <2>2
    <3>2. Cmd(i)' = requests'[m].cmd
      BY <1>5, <2>2
    <3> HIDE DEF n, m
    <3>3. Cmd(n) = requests[m + 1].cmd
      BY <1>6, <3>1
    <3>4. Cmd(i)' = Cmd(n)
      BY <1>2, <3>1, <3>2, <3>3
    <3> QED  BY <3>4 DEF n
  <2> QED  BY <2>1, <2>2
<1>8. ASSUME NEW i \in DOMAIN requests' PROVE \E j \in DOMAIN requests : requests'[i] = requests[j]
  <2>1. i + 1 \in 1 .. q /\ i \in 1 .. q - 1
    BY <1>1, <1>2
  <2> QED  BY <1>1, <1>2, <2>1
<1> QED  BY <1>4, <1>7, <1>8 DEF OneFewer

-----------------------------------------------------------------------------
(* The steps, where at most two acks are late *)

PartsOK == CountOK /\ OptionsOK /\ ClearOK /\ AddOK /\ LaterOK /\ ReturnedOK

(* A step that leaves the link and what is on it as it was. *)
LEMMA PartsKept ==
    ASSUME PartsOK, UNCHANGED <<size, at, target, result, requests, acks, late>>,
           sync'.sent = sync.sent, sync'.res = sync.res, sync'.status = sync.status,
           modem'.targets = modem.targets, modem'.image = modem.image
    PROVE  PartsOK'
<1>1. InFlight' = InFlight /\ Waits' = Waits /\ Ok' = Ok /\ Whole' = Whole
      /\ \A i : Cmd(i)' = Cmd(i)
  BY DEF InFlight, Waits, Ok, Whole, Cmd
<1>2. CountOK' /\ OptionsOK' /\ ClearOK'
  BY <1>1 DEF PartsOK, CountOK, OptionsOK, ClearOK
<1>3. AddOK'
  BY <1>1 DEF PartsOK, AddOK, LastOnLink
<1>4. LaterOK'
  BY <1>1 DEF PartsOK, LaterOK, LastOnLink
<1>5. ReturnedOK'
  BY <1>1 DEF PartsOK, ReturnedOK
<1> QED  BY <1>2, <1>3, <1>4, <1>5 DEF PartsOK

(* One fewer on the link, and nothing answered by it. *)
LEMMA PartsOneFewer ==
    ASSUME TypesOK, PartsOK, late =< 2, OneFewer,
           UNCHANGED <<size, at, target, result, modem, late>>,
           sync'.sent = sync.sent, sync'.res = sync.res
    PROVE  PartsOK'
<1>1. InFlight \in Nat /\ InFlight > 0 /\ InFlight' = InFlight - 1 /\ late \in Nat
  BY LinkLen DEF OneFewer, TypesOK, PlaceOK
<1>2. Waits' = Waits /\ Whole' = Whole
  BY DEF Waits, Whole
<1>3. \A i \in 1 .. InFlight' : Cmd(i)' \in {Cmd(i), Cmd(i + 1)}
  BY DEF OneFewer
<1>4. \A i \in 1 .. InFlight' : i \in 1 .. InFlight /\ i + 1 \in 1 .. InFlight /\ i # InFlight
  BY <1>1
<1>5. CountOK'
  <2>1. InFlight =< late + (IF Waits THEN 1 ELSE 0)
    BY DEF PartsOK, CountOK
  <2>2. InFlight' =< late + (IF Waits THEN 1 ELSE 0)
    BY <1>1, <2>1
  <2>3. sync'.res => sync'.sent
    BY DEF PartsOK, CountOK
  <2> QED  BY <1>2, <2>2, <2>3 DEF CountOK
<1>6. OptionsOK'
  <2> SUFFICES ASSUME at = "options" PROVE OptionsOK'
    BY DEF OptionsOK
  <2>1. ~(InFlight' = 3)
    BY <1>1 DEF PartsOK, CountOK
  <2>2. ASSUME sync'.res, NEW i \in 2 .. InFlight' PROVE Cmd(i)' = "options"
    <3>1. i \in 1 .. InFlight' /\ i \in 2 .. InFlight /\ i + 1 \in 2 .. InFlight
      BY <1>1
    <3> QED  BY <1>3, <2>2, <3>1 DEF PartsOK, OptionsOK
  <2> QED  BY <2>1, <2>2 DEF OptionsOK
<1>7. ClearOK'
  <2> SUFFICES ASSUME at = "clear" PROVE ClearOK'
    BY DEF ClearOK
  <2>1. ASSUME NEW i \in 2 .. InFlight' PROVE Cmd(i)' \in {"options", "clear"}
    <3>1. i \in 1 .. InFlight' /\ i \in 2 .. InFlight /\ i + 1 \in 2 .. InFlight
      BY <1>1
    <3> QED  BY <1>3, <3>1 DEF PartsOK, ClearOK
  <2>2. ASSUME sync'.res, InFlight' > 0 PROVE Cmd(1)' \in {"options", "clear"}
    <3>1. 1 \in 1 .. InFlight' /\ 1 + 1 = 2 /\ 2 \in 2 .. InFlight
      BY <1>1, <2>2
    <3>2. Cmd(1)' \in {Cmd(1), Cmd(2)}
      BY <1>3, <3>1
    <3> QED  BY <1>1, <2>2, <3>1, <3>2 DEF PartsOK, ClearOK
  <2> QED  BY <2>1, <2>2 DEF ClearOK
<1>8. ASSUME NEW step, LastOnLink(step)
      PROVE  LastOnLink(step)' /\ (at = step => ~sync.res)
  <2>1. at = step => ~sync.res
    BY <1>1, <1>8 DEF LastOnLink
  <2>2. ASSUME NEW i \in 1 .. InFlight', Cmd(i)' = step PROVE i = InFlight' /\ Waits' /\ at' = step
    <3>1. Cmd(i) = step \/ Cmd(i + 1) = step
      BY <1>3, <2>2
    <3>2. Cmd(i) # step
      BY <1>4, <1>8 DEF LastOnLink
    <3>3. i + 1 = InFlight /\ Waits /\ at = step
      BY <1>4, <1>8, <3>1, <3>2 DEF LastOnLink
    <3>4. i = InFlight'
      BY <1>1, <3>3
    <3> QED  BY <1>2, <3>3, <3>4
  <2> QED  BY <2>1, <2>2 DEF LastOnLink
<1>9. AddOK'
  <2> SUFFICES ASSUME at = "add" PROVE AddOK'
    BY DEF AddOK
  <2>1. LastOnLink("add")' /\ ~sync'.res
    BY <1>8 DEF PartsOK, AddOK
  <2>2. \A i \in 1 .. InFlight' : Cmd(i)' \in {"options", "clear", "add"}
    BY <1>3, <1>4 DEF PartsOK, AddOK
  <2>3. target > 1 => \A i \in 1 .. InFlight' : Cmd(i)' = "add"
    BY <1>3, <1>4 DEF PartsOK, AddOK
  <2>4. \A i \in DOMAIN requests' : requests'[i].cmd = "add" => requests'[i].sn = target
    BY DEF OneFewer, PartsOK, AddOK
  <2>5. \A i \in DOMAIN acks' :
            acks'[i].cmd = "add" /\ acks'[i].status = "ok" => target \in modem.targets
    BY DEF OneFewer, PartsOK, AddOK
  <2>6. 1 .. target - 1 \subseteq modem.targets
    BY DEF PartsOK, AddOK
  <2> QED  BY <2>1, <2>2, <2>3, <2>4, <2>5, <2>6 DEF AddOK, Ok
<1>10. LaterOK'
  <2> SUFFICES ASSUME at \in Later PROVE LaterOK'
    BY DEF LaterOK
  <2>1. LastOnLink("crc")' /\ (at = "crc" => ~sync'.res)
    BY <1>8 DEF PartsOK, LaterOK
  <2>2. \A i \in 1 .. InFlight' : Cmd(i)' = "clear" => NumTargets = 0
    BY <1>3, <1>4 DEF PartsOK, LaterOK
  <2>3. \A i \in DOMAIN acks' :
            acks'[i].cmd = "crc" /\ acks'[i].status = "ok" => modem.image = Whole
    BY DEF OneFewer, PartsOK, LaterOK
  <2>4. 1 .. NumTargets \subseteq modem.targets
    BY DEF PartsOK, LaterOK
  <2> QED  BY <1>2, <2>1, <2>2, <2>3, <2>4 DEF LaterOK, Ok
<1>11. ReturnedOK'
  BY <1>1 DEF PartsOK, ReturnedOK
<1> QED  BY <1>5, <1>6, <1>7, <1>9, <1>10, <1>11 DEF PartsOK

LEMMA PartsAsk ==
    ASSUME TypesOK, PartsOK, Ask
    PROVE  PartsOK'
<1>1. /\ at # "idle" /\ ~sync.sent /\ ~sync.res /\ ~Waits /\ ~Ok
      /\ UNCHANGED <<size, at, target, result, acks, modem, late>>
      /\ requests' = Append(requests, Request)
  BY DEF Ask, TypesOK, SyncOK, PartsOK, CountOK, Waits, Ok
<1>2. sync'.sent /\ ~sync'.res /\ Waits' /\ ~Ok' /\ Whole' = Whole
  <2>1. sync' = [sync EXCEPT !.cmd = at, !.sent = TRUE] /\ sync \in Syncs
    BY DEF Ask, TypesOK, SyncOK
  <2>2. sync'.sent /\ ~sync'.res
    BY <1>1, <2>1 DEF Syncs
  <2> QED  BY <1>1, <2>2 DEF Waits, Ok, Whole
<1>3. Request.cmd = at /\ (at = "add" => Request.sn = target)
  BY DEF Request
<1>4. /\ InFlight' = InFlight + 1 /\ InFlight \in Nat /\ late \in Nat
      /\ \A i \in 1 .. InFlight : Cmd(i)' = Cmd(i)
      /\ \A i \in 1 .. InFlight' : i \in 1 .. InFlight \/ (i = InFlight' /\ Cmd(i)' = at)
      /\ \A i \in DOMAIN requests' :
            requests'[i] = Request \/ \E j \in DOMAIN requests : requests'[i] = requests[j]
  BY <1>1, <1>3, LinkAsked, LinkLen DEF TypesOK, PlaceOK
<1>5. CountOK'
  <2>1. InFlight =< late
    BY <1>1, <1>4 DEF PartsOK, CountOK
  <2>2. InFlight' =< late + 1
    BY <1>4, <2>1
  <2> QED  BY <1>1, <1>2, <2>2 DEF CountOK
<1>6. OptionsOK'
  <2>1. at = "options" /\ InFlight' = 3 => Cmd(3)' = "options"
    <3>1. InFlight' = 3 => 3 \in 1 .. InFlight' /\ 3 \notin 1 .. InFlight
      BY <1>4
    <3> QED  BY <1>4, <3>1
  <2> QED  BY <1>1, <1>2, <2>1 DEF OptionsOK
<1>7. ClearOK'
  <2>1. ASSUME at = "clear", NEW i \in 2 .. InFlight' PROVE Cmd(i)' \in {"options", "clear"}
    <3>1. i \in 1 .. InFlight' /\ (i \in 1 .. InFlight => i \in 2 .. InFlight)
      BY <1>4
    <3> QED  BY <1>4, <2>1, <3>1 DEF PartsOK, ClearOK
  <2> QED  BY <1>1, <1>2, <2>1 DEF ClearOK
<1>8. ASSUME NEW step, LastOnLink(step)
      PROVE  LastOnLink(step)' /\ \A i \in 1 .. InFlight : Cmd(i) # step
  <2>1. \A i \in 1 .. InFlight : Cmd(i) # step
    BY <1>1, <1>8 DEF LastOnLink
  <2>2. ASSUME NEW i \in 1 .. InFlight', Cmd(i)' = step
        PROVE  i = InFlight' /\ Waits' /\ at' = step
    BY <1>1, <1>2, <1>4, <2>1, <2>2
  <2> QED  BY <1>2, <2>1, <2>2 DEF LastOnLink
<1>9. AddOK'
  <2> SUFFICES ASSUME at = "add" PROVE AddOK'
    BY <1>1 DEF AddOK
  <2>1. LastOnLink("add")' /\ \A i \in 1 .. InFlight : Cmd(i) # "add"
    BY <1>8 DEF PartsOK, AddOK
  <2>2. \A i \in 1 .. InFlight' : Cmd(i)' \in {"options", "clear", "add"}
    BY <1>4 DEF PartsOK, AddOK
  <2>3. target > 1 => \A i \in 1 .. InFlight' : Cmd(i)' = "add"
    BY <1>4 DEF PartsOK, AddOK
  <2>4. \A i \in DOMAIN requests' : requests'[i].cmd = "add" => requests'[i].sn = target
    <3>1. \A i \in DOMAIN requests : requests[i].cmd # "add"
      BY <2>1, CmdsOnLink
    <3> QED  BY <1>3, <1>4, <3>1
  <2>5. \A i \in DOMAIN acks : acks[i].cmd # "add"
    BY <2>1, CmdsOnLink
  <2>6. 1 .. target - 1 \subseteq modem.targets
    BY DEF PartsOK, AddOK
  <2> QED  BY <1>1, <1>2, <2>1, <2>2, <2>3, <2>4, <2>5, <2>6 DEF AddOK
<1>10. LaterOK'
  <2> SUFFICES ASSUME at \in Later PROVE LaterOK'
    BY <1>1 DEF LaterOK
  <2>1. LastOnLink("crc")'
    BY <1>8 DEF PartsOK, LaterOK
  <2>2. \A i \in 1 .. InFlight' : Cmd(i)' = "clear" => NumTargets = 0
    BY <1>4 DEF PartsOK, LaterOK, Later
  <2>3. \A i \in DOMAIN acks :
            acks[i].cmd = "crc" /\ acks[i].status = "ok" => modem.image = Whole
    BY DEF PartsOK, LaterOK
  <2>4. 1 .. NumTargets \subseteq modem.targets
    BY DEF PartsOK, LaterOK
  <2> QED  BY <1>1, <1>2, <2>1, <2>2, <2>3, <2>4 DEF LaterOK
<1>11. ReturnedOK'
  BY <1>1 DEF PartsOK, ReturnedOK
<1> QED  BY <1>5, <1>6, <1>7, <1>9, <1>10, <1>11 DEF PartsOK

(* The ack of the request that waits. *)
LEMMA PartsMatched ==
    ASSUME TypesOK, PartsOK, late =< 2, AckInd, sync.sent, sync.cmd = Head(acks).cmd
    PROVE  PartsOK'
<1>1. /\ acks # <<>> /\ acks' = Tail(acks) /\ requests' = requests
      /\ UNCHANGED <<size, at, target, result, modem, late>> /\ sync.cmd = at /\ Whole' = Whole
      /\ at # "idle"
  BY DEF AckInd, TypesOK, SyncOK, Whole
<1>2. sync'.sent /\ sync'.res /\ ~Waits' /\ sync'.status = Head(acks).status
  <2>1. sync' = [sync EXCEPT !.status = Head(acks).status, !.res = TRUE] /\ sync \in Syncs
    BY DEF AckInd, TypesOK, SyncOK
  <2>2. sync'.sent /\ sync'.res /\ sync'.status = Head(acks).status
    BY <2>1 DEF Syncs
  <2> QED  BY <2>2 DEF Waits
<1>3. /\ OneFewer /\ \A i \in 1 .. InFlight' : Cmd(i)' = Cmd(i + 1)
      /\ Cmd(1) = at /\ Head(acks) = acks[1] /\ 1 \in DOMAIN acks
  BY <1>1, LinkReceived
<1>a. acks[1].cmd = at /\ (Ok' => acks[1].status = "ok")
  <2>1. acks[1].cmd = at
    BY <1>1, <1>3
  <2>2. Ok' => sync'.status = "ok"
    BY DEF Ok
  <2> QED  BY <1>2, <1>3, <2>1, <2>2
<1>4. InFlight \in Nat /\ InFlight > 0 /\ InFlight' = InFlight - 1 /\ late \in Nat
  BY <1>3, LinkLen DEF OneFewer, TypesOK, PlaceOK
<1>5. CountOK'
  <2>1. InFlight =< late + 1
    BY <1>4 DEF PartsOK, CountOK
  <2>2. InFlight' =< late
    BY <1>4, <2>1
  <2>3. InFlight' =< late + 0
    BY <1>4, <2>2
  <2> QED  BY <1>1, <1>2, <2>3 DEF CountOK
<1>6. OptionsOK'
  <2> SUFFICES ASSUME at = "options" PROVE OptionsOK'
    BY <1>1 DEF OptionsOK
  <2>1. ASSUME NEW i \in 2 .. InFlight' PROVE Cmd(i)' = "options"
    <3>1. i + 1 \in 2 .. InFlight /\ i \in 1 .. InFlight'
      BY <1>4
    <3>2. CASE sync.res
      BY <1>3, <3>1, <3>2 DEF PartsOK, OptionsOK
    <3>3. CASE ~sync.res
      <4>1. Waits
        BY <3>3 DEF Waits
      <4>2. InFlight =< 3
        BY <1>4, <4>1 DEF PartsOK, CountOK
      <4>3. i = 2 /\ InFlight = 3 /\ i + 1 = 3
        BY <1>4, <3>1, <4>2
      <4> QED  BY <1>3, <3>1, <4>1, <4>3 DEF PartsOK, OptionsOK
    <3> QED  BY <3>2, <3>3
  <2> QED  BY <1>2, <2>1 DEF OptionsOK
<1>7. ClearOK'
  <2> SUFFICES ASSUME at = "clear" PROVE ClearOK'
    BY <1>1 DEF ClearOK
  <2>1. ASSUME NEW i \in 1 .. InFlight' PROVE Cmd(i)' \in {"options", "clear"}
    <3>1. i + 1 \in 2 .. InFlight
      BY <1>4
    <3> QED  BY <1>3, <3>1 DEF PartsOK, ClearOK
  <2>2. InFlight' > 0 => 1 \in 1 .. InFlight'
    BY <1>4
  <2>3. \A i \in 2 .. InFlight' : i \in 1 .. InFlight'
    BY <1>4
  <2> QED  BY <2>1, <2>2, <2>3 DEF ClearOK
<1>8. ASSUME NEW step, LastOnLink(step)
      PROVE  LastOnLink(step)' /\ (at = step => InFlight' = 0)
  <2>1. 1 \in 1 .. InFlight
    BY <1>4
  <2>2. CASE at = step
    <3>1. InFlight = 1
      BY <1>3, <1>8, <2>1, <2>2 DEF LastOnLink
    <3>2. InFlight' = 0
      BY <1>4, <3>1
    <3> QED  BY <3>2 DEF LastOnLink
  <2>3. CASE at # step
    <3>1. \A i \in 1 .. InFlight : Cmd(i) # step
      BY <1>8, <2>3 DEF LastOnLink
    <3>2. \A i \in 1 .. InFlight' : i + 1 \in 1 .. InFlight
      BY <1>4
    <3>3. \A i \in 1 .. InFlight' : Cmd(i)' # step
      BY <1>3, <3>1, <3>2
    <3> QED  BY <1>1, <2>3, <3>3 DEF LastOnLink
  <2> QED  BY <2>2, <2>3
<1>9. InFlight' = 0 => DOMAIN acks' = {} /\ DOMAIN requests' = {}
  <2>1. /\ Len(acks') \in Nat /\ Len(requests') \in Nat /\ DOMAIN acks' = 1 .. Len(acks')
        /\ DOMAIN requests' = 1 .. Len(requests')
    BY <1>1 DEF TypesOK, LinkOK
  <2>2. InFlight' = Len(requests') + Len(acks')
    BY DEF InFlight
  <2> QED  BY <2>1, <2>2
<1>10. AddOK'
  <2> SUFFICES ASSUME at = "add" PROVE AddOK'
    BY <1>1 DEF AddOK
  <2>1. LastOnLink("add")' /\ InFlight' = 0
    BY <1>8 DEF PartsOK, AddOK
  <2>2. 1 .. target - 1 \subseteq modem.targets
    BY DEF PartsOK, AddOK
  <2>3. Ok' => target \in modem.targets
    <3>1. acks[1].cmd = "add" /\ acks[1].status = "ok" => target \in modem.targets
      BY <1>3 DEF PartsOK, AddOK
    <3> QED  BY <1>a, <3>1
  <2> QED  BY <1>1, <1>9, <2>1, <2>2, <2>3 DEF AddOK
<1>11. LaterOK'
  <2> SUFFICES ASSUME at \in Later PROVE LaterOK'
    BY <1>1 DEF LaterOK
  <2>1. LastOnLink("crc")'
    BY <1>8 DEF PartsOK, LaterOK
  <2>2. \A i \in 1 .. InFlight' : Cmd(i)' = "clear" => NumTargets = 0
    <3>1. \A i \in 1 .. InFlight' : i + 1 \in 1 .. InFlight
      BY <1>4
    <3> QED  BY <1>3, <3>1 DEF PartsOK, LaterOK
  <2>3. \A i \in DOMAIN acks' :
            acks'[i].cmd = "crc" /\ acks'[i].status = "ok" => modem.image = Whole
    BY <1>3 DEF OneFewer, PartsOK, LaterOK
  <2>4. 1 .. NumTargets \subseteq modem.targets
    BY DEF PartsOK, LaterOK
  <2>5. at = "crc" /\ Ok' => modem.image = Whole
    <3>1. acks[1].cmd = "crc" /\ acks[1].status = "ok" => modem.image = Whole
      BY <1>3 DEF PartsOK, LaterOK
    <3> QED  BY <1>a, <3>1
  <2> QED  BY <1>1, <2>1, <2>2, <2>3, <2>4, <2>5 DEF LaterOK
<1>12. ReturnedOK'
  BY <1>1 DEF PartsOK, ReturnedOK
<1> QED  BY <1>5, <1>6, <1>7, <1>10, <1>11, <1>12 DEF PartsOK

(* What the modem does to what it has stored. *)
LEMMA DoneOf ==
    ASSUME NEW r \in Requests, ModemOK, modem' = Done(modem, r)
    PROVE  /\ ModemOK'
           /\ modem'.targets = CASE r.cmd = "clear" -> {}
                                 [] r.cmd = "add"   -> modem.targets \cup {r.sn}
                                 [] OTHER           -> modem.targets
           /\ r.cmd \notin {"init", "frame"} => modem'.image = modem.image
<1>0. modem = [targets |-> modem.targets, chunk |-> modem.chunk,
               image |-> modem.image, running |-> modem.running]
  BY DEF ModemOK
<1>1. CASE r.cmd = "frame"
  <2>1. modem' = Stored(modem, r)
    BY <1>1 DEF Done
  <2>2. PICK im : modem' = [modem EXCEPT !.image = im]
    BY <2>1 DEF Stored
  <2> QED  BY <1>0, <1>1, <2>2 DEF ModemOK
<1>2. CASE r.cmd # "frame"
  BY <1>0, <1>2 DEF Done, ModemOK
<1> QED  BY <1>1, <1>2

LEMMA ShapeActs ==
    ASSUME TypesOK, OnlyTargets, ModemOK, ModemActs
    PROVE  OnlyTargets' /\ ModemOK'
<1> DEFINE r == Head(requests)
<1>1. requests # <<>> /\ requests' = Tail(requests)
      /\ (modem' = Done(modem, r) \/ modem' = modem)
  BY DEF ModemActs
<1>2. r \in Requests /\ r = requests[1] /\ 1 \in DOMAIN requests
  <2>1. requests \in Seq(Requests)
    BY DEF TypesOK, LinkOK
  <2> HIDE DEF Requests
  <2> QED  BY <1>1, <2>1
<1>3. \A i \in DOMAIN requests' : \E j \in DOMAIN requests : requests'[i] = requests[j]
  <2>1. requests \in Seq(Requests)
    BY DEF TypesOK, LinkOK
  <2> HIDE DEF Requests, r
  <2>2. /\ DOMAIN requests' = 1 .. Len(requests) - 1 /\ DOMAIN requests = 1 .. Len(requests)
        /\ Len(requests) \in Nat
        /\ \A i \in 1 .. Len(requests) - 1 : requests'[i] = requests[i + 1]
    BY <1>1, <2>1
  <2>3. \A i \in 1 .. Len(requests) - 1 : i + 1 \in 1 .. Len(requests)
    BY <2>2
  <2> QED  BY <2>2, <2>3
<1> HIDE DEF r
<1>4. r.cmd = "add" => r.sn \in 1 .. NumTargets
  BY <1>2 DEF OnlyTargets
<1>5. ModemOK' /\ modem'.targets \subseteq 1 .. NumTargets
  <2>1. CASE modem' = Done(modem, r)
    BY <1>2, <1>4, <2>1, DoneOf DEF OnlyTargets
  <2>2. CASE modem' = modem
    BY <2>2 DEF ModemOK, OnlyTargets
  <2> QED  BY <1>1, <2>1, <2>2
<1> QED  BY <1>3, <1>5 DEF OnlyTargets

LEMMA PartsActs ==
    ASSUME TypesOK, PartsOK, ModemOK, ModemActs
    PROVE  PartsOK'
<1> DEFINE r == Head(requests)
<1>1. /\ requests # <<>> /\ requests' = Tail(requests)
      /\ UNCHANGED <<size, at, target, sync, result, late>>
      /\ Whole' = Whole /\ Ok' = Ok /\ Waits' = Waits
  BY DEF ModemActs, Whole, Ok, Waits
<1>2. r \in Requests /\ r = requests[1] /\ 1 \in DOMAIN requests
  <2>1. requests \in Seq(Requests)
    BY DEF TypesOK, LinkOK
  <2> HIDE DEF Requests
  <2> QED  BY <1>1, <2>1
<1> HIDE DEF r
<1>3. PICK st \in Statuses :
        /\ acks' = Append(acks, [cmd |-> r.cmd, status |-> st])
        /\ \/ modem' = Done(modem, r) /\ (st = "ok" /\ r.cmd = "crc" => modem.image = Whole)
           \/ modem' = modem /\ st = "error"
  <2> DEFINE ok == r.cmd = "crc" => modem.image = Whole
  <2>1. \/ /\ modem' = Done(modem, r)
           /\ acks' = Append(acks, [cmd |-> r.cmd, status |-> IF ok THEN "ok" ELSE "error"])
        \/ /\ acks' = Append(acks, [cmd |-> r.cmd, status |-> "error"])
           /\ UNCHANGED modem
    BY DEF ModemActs, r
  <2>2. "ok" \in Statuses /\ "error" \in Statuses
    BY DEF Statuses
  <2> QED  BY <2>1, <2>2
<1>4. /\ InFlight' = InFlight /\ InFlight > 0
      /\ \A i \in 1 .. InFlight : Cmd(i)' = Cmd(i)
      /\ \A i \in DOMAIN requests' : \E j \in DOMAIN requests : requests'[i] = requests[j]
      /\ \A i \in DOMAIN acks' :
            \/ acks'[i] = [cmd |-> r.cmd, status |-> st]
            \/ i \in DOMAIN acks /\ acks'[i] = acks[i] /\ i # InFlight
  BY <1>1, <1>3, LinkActed DEF r
<1>5. /\ ModemOK'
      /\ modem'.targets = modem.targets \/ (r.cmd = "clear" /\ modem'.targets = {})
           \/ (r.cmd = "add" /\ modem'.targets = modem.targets \cup {r.sn})
      /\ r.cmd \notin {"init", "frame"} => modem'.image = modem.image
      /\ st = "ok" /\ r.cmd = "add" => modem'.targets = modem.targets \cup {r.sn}
      /\ st = "ok" /\ r.cmd = "crc" => modem.image = Whole
  <2>1. CASE modem' = Done(modem, r) /\ (st = "ok" /\ r.cmd = "crc" => modem.image = Whole)
    <3>1. /\ ModemOK'
          /\ modem'.targets = CASE r.cmd = "clear" -> {}
                                [] r.cmd = "add"   -> modem.targets \cup {r.sn}
                                [] OTHER           -> modem.targets
          /\ r.cmd \notin {"init", "frame"} => modem'.image = modem.image
      BY <1>2, <2>1, DoneOf
    <3> QED  BY <2>1, <3>1
  <2>2. CASE modem' = modem /\ st = "error"
    BY <2>2 DEF ModemOK
  <2> QED  BY <1>3, <2>1, <2>2
<1>7. CountOK' /\ OptionsOK' /\ ClearOK'
  <2>1. InFlight \in Nat
    BY LinkLen
  <2>2. \A i \in 2 .. InFlight : i \in 1 .. InFlight
    OBVIOUS
  <2>3. OptionsOK'
    <3>1. InFlight = 3 => 3 \in 1 .. InFlight
      OBVIOUS
    <3> QED  BY <1>1, <1>4, <2>2, <3>1 DEF PartsOK, OptionsOK
  <2>4. ClearOK'
    <3>1. InFlight > 0 => 1 \in 1 .. InFlight
      BY <2>1
    <3> QED  BY <1>1, <1>4, <2>2, <3>1 DEF PartsOK, ClearOK
  <2> QED  BY <1>1, <1>4, <2>3, <2>4 DEF PartsOK, CountOK
<1>8. ASSUME NEW step, LastOnLink(step)
      PROVE  /\ LastOnLink(step)' /\ (at = step => ~Ok)
             /\ \A i \in DOMAIN acks : i # InFlight => acks[i].cmd # step
  <2>1. at = step => ~Ok
    BY <1>4, <1>8 DEF LastOnLink, Ok
  <2>2. \A i \in DOMAIN acks : i # InFlight => acks[i].cmd # step
    BY <1>8, CmdsOnLink DEF LastOnLink
  <2>3. LastOnLink(step)'
    BY <1>1, <1>4, <1>8 DEF LastOnLink
  <2> QED  BY <2>1, <2>2, <2>3
<1>9. AddOK'
  <2> SUFFICES ASSUME at = "add" PROVE AddOK'
    BY <1>1 DEF AddOK
  <2>0. AddOK
    BY DEF PartsOK
  <2>1. LastOnLink("add")' /\ ~Ok' /\ \A i \in DOMAIN acks : i # InFlight => acks[i].cmd # "add"
    BY <1>1, <1>8, <2>0 DEF AddOK
  <2>2. \A i \in 1 .. InFlight' : Cmd(i)' \in {"options", "clear", "add"}
    BY <1>4, <2>0 DEF AddOK
  <2>3. target > 1 => \A i \in 1 .. InFlight' : Cmd(i)' = "add"
    BY <1>4, <2>0 DEF AddOK
  <2>4. \A i \in DOMAIN requests' : requests'[i].cmd = "add" => requests'[i].sn = target
    BY <1>4, <2>0 DEF AddOK
  <2>5. 1 .. target - 1 \subseteq modem'.targets
    <3>1. CASE r.cmd = "clear"
      <4>1. ~(target > 1)
        BY <1>2, <2>0, <3>1, CmdsOnLink DEF AddOK
      <4>2. target \in 1 .. NumTargets /\ NumTargets \in Nat
        BY UpgradeAssumption DEF TypesOK, PlaceOK, TargetOK
      <4>3. target - 1 = 0
        BY <4>1, <4>2
      <4> QED  BY <4>3
    <3>2. CASE r.cmd # "clear"
      BY <1>5, <2>0, <3>2 DEF AddOK
    <3> QED  BY <3>1, <3>2
  <2>6. ASSUME NEW i \in DOMAIN acks', acks'[i].cmd = "add", acks'[i].status = "ok"
        PROVE  target \in modem'.targets
    <3>1. acks'[i] = [cmd |-> r.cmd, status |-> st]
      BY <1>4, <2>1, <2>6
    <3>2. r.cmd = "add" /\ st = "ok"
      BY <2>6, <3>1
    <3>3. r.sn = target
      BY <1>2, <2>0, <3>2 DEF AddOK
    <3> QED  BY <1>5, <3>2, <3>3
  <2> QED  BY <1>1, <2>1, <2>2, <2>3, <2>4, <2>5, <2>6 DEF AddOK
<1>10. LaterOK'
  <2> SUFFICES ASSUME at \in Later PROVE LaterOK'
    BY <1>1 DEF LaterOK
  <2>0. LaterOK
    BY DEF PartsOK
  <2>1. /\ LastOnLink("crc")' /\ (at = "crc" => ~Ok')
        /\ \A i \in DOMAIN acks : i # InFlight => acks[i].cmd # "crc"
    BY <1>1, <1>8, <2>0 DEF LaterOK
  <2>2. \A i \in 1 .. InFlight' : Cmd(i)' = "clear" => NumTargets = 0
    BY <1>4, <2>0 DEF LaterOK
  <2>3. 1 .. NumTargets \subseteq modem'.targets
    <3>1. CASE r.cmd = "clear"
      <4>1. NumTargets = 0
        BY <1>2, <2>0, <3>1, CmdsOnLink DEF LaterOK
      <4> QED  BY <4>1
    <3>2. CASE r.cmd # "clear"
      BY <1>5, <2>0, <3>2 DEF LaterOK
    <3> QED  BY <3>1, <3>2
  <2>4. ASSUME NEW i \in DOMAIN acks', acks'[i].cmd = "crc", acks'[i].status = "ok"
        PROVE  modem'.image = Whole
    <3>1. acks'[i] = [cmd |-> r.cmd, status |-> st]
      BY <1>4, <2>1, <2>4
    <3>2. r.cmd = "crc" /\ st = "ok"
      BY <2>4, <3>1
    <3> QED  BY <1>5, <3>2
  <2> QED  BY <1>1, <2>1, <2>2, <2>3, <2>4 DEF LaterOK
<1>11. ReturnedOK'
  BY <1>1, <1>4 DEF PartsOK, ReturnedOK
<1> QED  BY <1>7, <1>9, <1>10, <1>11 DEF PartsOK

(* A request returns. *)
LEMMA PartsAnswered ==
    ASSUME TypesOK, PartsOK, NEW step, Answered(step)
    PROVE  /\ CountOK' /\ late =< late'
           /\ at = step /\ sync.req /\ at # "idle" /\ result # "success"
           /\ InFlight' = InFlight /\ (\A i : Cmd(i)' = Cmd(i)) /\ Whole' = Whole
           /\ UNCHANGED <<size, acks, requests, modem>>
           /\ ~sync'.req /\ ~sync'.res /\ ~Waits' /\ ~Ok'
<1>1. /\ at = step /\ sync.sent /\ sync.req /\ UNCHANGED <<size, acks, requests, modem>>
      /\ late' = IF ~sync.res /\ InFlight > 0 THEN late + 1 ELSE late
      /\ late \in Nat /\ InFlight \in Nat /\ at # "idle"
  BY LinkLen DEF Answered, TypesOK, PlaceOK, SyncOK
<1>2. ~sync'.req /\ ~sync'.res /\ ~sync'.sent
  <2>1. sync' = [sync EXCEPT !.req = FALSE, !.res = FALSE, !.sent = FALSE] /\ sync \in Syncs
    BY DEF Answered, TypesOK, SyncOK
  <2> QED  BY <2>1 DEF Syncs
<1>3. InFlight' = InFlight /\ (\A i : Cmd(i)' = Cmd(i)) /\ Whole' = Whole
  BY <1>1 DEF InFlight, Cmd, Whole
<1>4. InFlight =< late'
  <2>1. CASE sync.res
    <3>1. ~Waits
      BY <2>1 DEF Waits
    <3> QED  BY <1>1, <2>1, <3>1 DEF PartsOK, CountOK
  <2>2. CASE ~sync.res
    <3>1. Waits
      BY <1>1, <2>2 DEF Waits
    <3>2. InFlight =< late + 1
      BY <3>1 DEF PartsOK, CountOK
    <3> QED  BY <1>1, <2>2, <3>2
  <2> QED  BY <2>1, <2>2
<1>5. CountOK' /\ late =< late'
  <2>1. late' \in Nat /\ late =< late' /\ InFlight' =< late' + 0
    BY <1>1, <1>3, <1>4
  <2> QED  BY <1>2, <2>1 DEF CountOK, Waits
<1>6. result # "success"
  BY <1>1 DEF PartsOK, ReturnedOK
<1> QED  BY <1>1, <1>2, <1>3, <1>5, <1>6 DEF Waits, Ok

(* An operation that ends in vain claims nothing. *)
LEMMA PartsReturned ==
    ASSUME CountOK', at' \in {"idle", "start"}, result' # "success"
    PROVE  PartsOK'
BY DEF PartsOK, OptionsOK, ClearOK, AddOK, LaterOK, Later, ReturnedOK

LEMMA PartsPrepared ==
    ASSUME TypesOK, PartsOK, NEW step \in Preparing, Prepared(step)
    PROVE  PartsOK'
<1>1. Answered(step)
  BY DEF Prepared
<1>2. /\ CountOK' /\ at = step /\ at # "idle" /\ result # "success"
      /\ InFlight' = InFlight /\ (\A i : Cmd(i)' = Cmd(i)) /\ Whole' = Whole
      /\ UNCHANGED <<size, acks, requests, modem>>
      /\ ~sync'.req /\ ~sync'.res /\ ~Waits' /\ ~Ok'
  BY <1>1, PartsAnswered
<1>3. CASE ~Ok
  <2>1. at' = "idle" /\ result' = "failed"
    BY <1>3 DEF Prepared, Return
  <2> QED  BY <1>2, <2>1, PartsReturned
<1>4. CASE Ok
  <2>1. /\ at' = Following(step) /\ target' = IF step = "add" THEN target + 1 ELSE target
        /\ result' = result /\ sync.res
    BY <1>4 DEF Prepared, Ok
  <2>2. ReturnedOK'
    BY <1>2, <2>1 DEF ReturnedOK
  <2>3. NumTargets \in Nat /\ InFlight \in Nat
    BY UpgradeAssumption, LinkLen
  <2>4. CASE step = "options"
    <3>1. at' = "clear"
      BY <2>1, <2>4 DEF Following
    <3>2. \A i \in 2 .. InFlight : Cmd(i) = "options"
      BY <1>2, <2>1, <2>4 DEF PartsOK, OptionsOK
    <3>3. ClearOK'
      BY <1>2, <3>2 DEF ClearOK
    <3> QED  BY <1>2, <2>2, <3>1, <3>3 DEF PartsOK, OptionsOK, AddOK, LaterOK, Later
  <2>5. CASE step = "clear"
    <3>1. \A i \in 1 .. InFlight : Cmd(i) \in {"options", "clear"}
      <4>1. \A i \in 1 .. InFlight : i \in 2 .. InFlight \/ (i = 1 /\ InFlight > 0)
        BY <2>3
      <4> QED  BY <1>2, <2>1, <2>5, <4>1 DEF PartsOK, ClearOK
    <3>2. /\ \A i \in DOMAIN requests : requests[i].cmd \in {"options", "clear"}
          /\ \A i \in DOMAIN acks : acks[i].cmd \in {"options", "clear"}
      BY <3>1, CmdsOnLink
    <3>3. target' = 1
      BY <1>2, <2>1, <2>5 DEF TypesOK, PlaceOK, TargetOK
    <3>4. LastOnLink("add")' /\ LastOnLink("crc")'
      BY <1>2, <3>1 DEF LastOnLink
    <3>5. CASE NumTargets = 0
      <4>1. at' = "data"
        BY <2>1, <2>5, <3>5 DEF Following
      <4>2. 1 .. NumTargets = {}
        BY <3>5
      <4>3. LaterOK'
        BY <1>2, <3>2, <3>4, <3>5, <4>1, <4>2 DEF LaterOK
      <4> QED  BY <1>2, <2>2, <4>1, <4>3 DEF PartsOK, OptionsOK, ClearOK, AddOK
    <3>6. CASE NumTargets # 0
      <4>1. at' = "add"
        BY <2>1, <2>5, <3>6 DEF Following
      <4>2. 1 .. target' - 1 = {} /\ ~(target' > 1)
        BY <3>3
      <4>3. AddOK'
        BY <1>2, <3>1, <3>2, <3>4, <4>2 DEF AddOK
      <4> QED  BY <1>2, <2>2, <4>1, <4>3 DEF PartsOK, OptionsOK, ClearOK, LaterOK, Later
    <3> QED  BY <3>5, <3>6
  <2>6. CASE step = "add"
    <3>0. AddOK
      BY DEF PartsOK
    <3>1. InFlight = 0 /\ target \in modem.targets /\ 1 .. target - 1 \subseteq modem.targets
      BY <1>2, <1>4, <2>1, <2>6, <3>0 DEF AddOK, LastOnLink
    <3>2. DOMAIN acks = {} /\ DOMAIN requests = {}
      <4>1. 1 .. InFlight = {}
        BY <3>1
      <4> QED  BY <4>1, CmdsOnLink
    <3>3. target \in 1 .. NumTargets /\ target' = target + 1
      BY <1>2, <2>1, <2>6 DEF TypesOK, PlaceOK, TargetOK
    <3>4. 1 .. target' - 1 \subseteq modem.targets
      <4>1. \A i \in 1 .. target' - 1 : i = target \/ i \in 1 .. target - 1
        BY <3>3
      <4> QED  BY <3>1, <4>1
    <3>5. LastOnLink("add")' /\ LastOnLink("crc")'
      BY <1>2, <3>1 DEF LastOnLink
    <3>6. CASE target < NumTargets
      <4>1. at' = "add"
        BY <2>1, <2>6, <3>6 DEF Following
      <4>2. AddOK'
        BY <1>2, <3>1, <3>2, <3>4, <3>5 DEF AddOK
      <4> QED  BY <1>2, <2>2, <4>1, <4>2 DEF PartsOK, OptionsOK, ClearOK, LaterOK, Later
    <3>7. CASE ~(target < NumTargets)
      <4>1. at' = "data"
        BY <2>1, <2>6, <3>7 DEF Following
      <4>2. target' - 1 = NumTargets
        BY <2>3, <3>3, <3>7
      <4>3. LaterOK'
        BY <1>2, <3>1, <3>2, <3>4, <3>5, <4>1, <4>2 DEF LaterOK
      <4> QED  BY <1>2, <2>2, <4>1, <4>3 DEF PartsOK, OptionsOK, ClearOK, AddOK
    <3> QED  BY <3>6, <3>7
  <2>7. CASE step \in {"data", "rule", "signature"}
    <3>1. at' \in Later \ {"crc"} /\ at \in Later \ {"crc"}
      BY <1>2, <2>1, <2>7 DEF Following, Later
    <3>2. LaterOK
      BY DEF PartsOK
    <3>3. LaterOK'
      BY <1>2, <3>1, <3>2 DEF LaterOK, LastOnLink
    <3> QED  BY <1>2, <2>2, <3>1, <3>3 DEF PartsOK, OptionsOK, ClearOK, AddOK, Later
  <2> QED  BY <2>4, <2>5, <2>6, <2>7 DEF Preparing
<1> QED  BY <1>3, <1>4

(* The transfer goes on. *)
LEMMA PartsTransfer ==
    ASSUME TypesOK, PartsOK, InitAnswered \/ FrameAnswered
    PROVE  PartsOK'
<1>1. PICK step \in {"init", "frame"} : Answered(step)
  BY DEF InitAnswered, FrameAnswered
<1>2. /\ CountOK' /\ at = step /\ result # "success"
      /\ InFlight' = InFlight /\ (\A i : Cmd(i)' = Cmd(i)) /\ Whole' = Whole
      /\ UNCHANGED <<size, acks, requests, modem>>
      /\ ~sync'.req /\ ~sync'.res /\ ~Waits' /\ ~Ok'
  BY <1>1, PartsAnswered
<1>3. result' \in {result, "failed"} /\ at' \in {"init", "frame", "crc", "idle"}
  <2>1. CASE InitAnswered
    BY <2>1 DEF InitAnswered, Return
  <2>2. CASE FrameAnswered
    BY <2>2 DEF FrameAnswered, Return
  <2> QED  BY <2>1, <2>2
<1>4. CASE at' = "idle"
  BY <1>2, <1>3, <1>4, PartsReturned
<1>5. CASE at' \in {"init", "frame", "crc"}
  <2>1. LaterOK /\ at \in Later \ {"crc"} /\ at' \in Later
    BY <1>2, <1>5 DEF PartsOK, Later
  <2>2. \A i \in 1 .. InFlight : Cmd(i) # "crc"
    BY <2>1 DEF LaterOK, LastOnLink
  <2>3. \A i \in DOMAIN acks : acks[i].cmd # "crc"
    BY <2>2, CmdsOnLink
  <2>4. LaterOK'
    BY <1>2, <2>1, <2>2, <2>3 DEF LaterOK, LastOnLink
  <2> QED
    BY <1>2, <1>3, <1>5, <2>1, <2>4 DEF PartsOK, OptionsOK, ClearOK, AddOK, ReturnedOK
<1> QED  BY <1>3, <1>4, <1>5

(* The download returns. *)
LEMMA PartsCrc ==
    ASSUME TypesOK, PartsOK, CrcAnswered
    PROVE  PartsOK'
<1>1. /\ CountOK' /\ at = "crc" /\ InFlight' = InFlight /\ Whole' = Whole
      /\ UNCHANGED modem
  BY PartsAnswered DEF CrcAnswered
<1>2. at' = "idle"
  BY DEF CrcAnswered, Return
<1>3. CASE Ok
  <2>1. LaterOK /\ sync.res
    BY <1>3 DEF PartsOK, Ok
  <2>2. InFlight = 0 /\ modem.image = Whole /\ 1 .. NumTargets \subseteq modem.targets
    BY <1>1, <1>3, <2>1 DEF LaterOK, LastOnLink, Later
  <2>3. ReturnedOK'
    BY <1>1, <1>2, <2>2 DEF ReturnedOK
  <2> QED  BY <1>1, <1>2, <2>3 DEF PartsOK, OptionsOK, ClearOK, AddOK, LaterOK, Later
<1>4. CASE ~Ok
  <2>1. result' # "success"
    BY <1>4 DEF CrcAnswered, Return
  <2> QED  BY <1>1, <1>2, <2>1, PartsReturned
<1> QED  BY <1>3, <1>4

-----------------------------------------------------------------------------
(* No status indication comes while a request waits; then no invariant     *)
(* needs a bound on the tries.                                             *)
NoStatus == "status" \notin Env

LateInv == TypesOK /\ crossed \in BOOLEAN /\ ModemOK /\ OnlyTargets /\ FewLate

LEMMA LateInit == Init => LateInv
<1> SUFFICES ASSUME Init PROVE LateInv
  OBVIOUS
<1>1. TypesOK /\ crossed \in BOOLEAN
  BY TypesInit, CrossedInit
<1>2. /\ at = "idle" /\ result = "none" /\ requests = <<>> /\ acks = <<>>
      /\ modem = [targets |-> {}, chunk |-> ChunkSize, image |-> {}, running |-> FALSE]
      /\ late = 0 /\ sync.sent = FALSE /\ sync.res = FALSE
  BY DEF Init
<1>3. ModemOK /\ OnlyTargets
  BY <1>2 DEF ModemOK, OnlyTargets
<1>4. CountOK
  <2>1. InFlight = 0
    BY <1>2 DEF InFlight
  <2>2. 0 =< 0 + 0
    OBVIOUS
  <2> QED  BY <1>2, <2>1, <2>2 DEF CountOK, Waits
<1>5. FewLate
  BY <1>2, <1>4 DEF FewLate, OptionsOK, ClearOK, AddOK, LaterOK, Later, ReturnedOK
<1> QED  BY <1>1, <1>3, <1>5 DEF LateInv

LEMMA LateNext ==
    ASSUME NoStatus, LateInv, [Next]_vars
    PROVE  LateInv'
<1>0. /\ TypesOK' /\ TypesOK /\ ModemOK /\ OnlyTargets /\ late \in Nat
      /\ crossed' \in BOOLEAN /\ (crossed => crossed')
  BY TypesNext, CrossedNext DEF LateInv, TypesOK, PlaceOK
<1> SUFFICES /\ ModemOK' /\ OnlyTargets' /\ late =< late'
             /\ late =< 2 /\ PartsOK /\ late' =< 2 /\ ~crossed' => PartsOK'
  <2>1. late' \in Nat
    BY <1>0 DEF TypesOK, PlaceOK
  <2>2. late =< late' /\ late' =< 2 => late =< 2
    BY <1>0, <2>1
  <2> QED  BY <1>0, <2>2 DEF LateInv, FewLate, PartsOK
<1>a. ASSUME UNCHANGED <<requests, modem>> PROVE ModemOK' /\ OnlyTargets'
  BY <1>0, <1>a DEF ModemOK, OnlyTargets
<1>1. CASE Download \/ Start
  <2>1. /\ UNCHANGED <<size, sync, requests, acks, modem, late>> /\ result' = "none"
        /\ at = "idle" /\ at' \in {"options", "start"}
    BY <1>1 DEF Download, Start
  <2>2. ~sync.req /\ ~sync.sent /\ ~sync.res
    BY <1>0, <2>1 DEF TypesOK, SyncOK
  <2>3. PartsOK => CountOK'
    BY <2>1 DEF PartsOK, CountOK, InFlight, Waits
  <2>4. CountOK' => PartsOK'
    BY <2>1, <2>2 DEF PartsOK, OptionsOK, Waits, ClearOK, AddOK, LaterOK, Later, ReturnedOK
  <2> QED  BY <1>0, <1>a, <2>1, <2>3, <2>4
<1>b. CASE Begin
  <2>1. /\ UNCHANGED <<size, at, target, result, requests, acks, modem, late>>
        /\ ~sync.res /\ sync' = [sync EXCEPT !.req = TRUE, !.res = FALSE] /\ sync \in Syncs
    BY <1>0, <1>b DEF Begin, TypesOK, SyncOK
  <2>2. sync'.sent = sync.sent /\ sync'.res = sync.res /\ sync'.status = sync.status
    BY <2>1 DEF Syncs
  <2> QED  BY <1>0, <1>a, <2>1, <2>2, PartsKept
<1>2. CASE Ask
  <2>1. ModemOK' /\ UNCHANGED <<modem, late, acks>> /\ requests' = Append(requests, Request)
        /\ at # "idle"
    BY <1>0, <1>2 DEF Ask, ModemOK, TypesOK, SyncOK
  <2>2. \A i \in DOMAIN requests' :
            requests'[i] = Request \/ \E j \in DOMAIN requests : requests'[i] = requests[j]
    BY <1>0, <2>1, LinkAsked
  <2>3. Request.cmd = "add" => Request.sn \in 1 .. NumTargets
    BY <1>0 DEF Request, TypesOK, PlaceOK, TargetOK
  <2>4. OnlyTargets'
    BY <1>0, <2>1, <2>2, <2>3 DEF OnlyTargets
  <2> QED  BY <1>0, <1>2, <2>1, <2>4, PartsAsk
<1>3. ASSUME NEW step \in Preparing, Prepared(step)
      PROVE  /\ ModemOK' /\ OnlyTargets' /\ late =< late'
             /\ late =< 2 /\ PartsOK /\ late' =< 2 /\ ~crossed' => PartsOK'
  <2>1. UNCHANGED <<requests, modem>> /\ late =< late'
    <3>1. UNCHANGED <<requests, modem>> /\ (late' = late \/ late' = late + 1)
      BY <1>3 DEF Prepared, Answered
    <3> QED  BY <1>0, <3>1
  <2> QED  BY <1>0, <1>3, <1>a, <2>1, PartsPrepared
<1>4. CASE InitAnswered \/ FrameAnswered \/ CrcAnswered \/ StartAnswered
  <2>1. UNCHANGED <<requests, modem>> /\ late =< late'
    <3>1. PICK step : Answered(step)
      BY <1>4 DEF InitAnswered, FrameAnswered, CrcAnswered, StartAnswered
    <3>2. UNCHANGED <<requests, modem>> /\ (late' = late \/ late' = late + 1)
      BY <3>1 DEF Answered
    <3> QED  BY <1>0, <3>2
  <2>2. ASSUME PartsOK, StartAnswered PROVE PartsOK'
    <3>1. CountOK'
      BY <1>0, <2>2, PartsAnswered DEF StartAnswered
    <3>2. at' = "idle" /\ result' # "success"
      BY <2>2 DEF StartAnswered, Return
    <3> QED  BY <3>1, <3>2, PartsReturned
  <2> QED  BY <1>0, <1>4, <1>a, <2>1, <2>2, PartsTransfer, PartsCrc
<1>5. CASE AckInd
  <2>1. UNCHANGED <<size, at, target, result, modem, late, requests>> /\ acks # <<>>
        /\ acks' = Tail(acks)
    BY <1>5 DEF AckInd
  <2>2. OneFewer
    BY <1>0, <2>1, LinkReceived
  <2>3. ASSUME ~(sync.req /\ sync.cmd = Head(acks).cmd)
        PROVE  sync'.sent = sync.sent /\ sync'.res = sync.res
    <3>1. sync' = [sync EXCEPT !.status = "ok"] /\ sync \in Syncs
      BY <1>0, <1>5, <2>3 DEF AckInd, TypesOK, SyncOK
    <3> QED  BY <3>1 DEF Syncs
  <2>4. ASSUME sync.req, sync.cmd = Head(acks).cmd, ~sync.sent
        PROVE  crossed'
    <3>1. sync' = [sync EXCEPT !.status = Head(acks).status, !.res = TRUE] /\ sync \in Syncs
          /\ crossed' = (crossed \/ (sync'.res /\ ~sync.sent))
      BY <1>0, <1>5, <2>4 DEF AckInd, TypesOK, SyncOK
    <3>2. sync'.res
      BY <3>1 DEF Syncs
    <3> QED  BY <2>4, <3>1, <3>2
  <2>5. late =< 2 /\ PartsOK /\ ~crossed' => PartsOK'
    BY <1>0, <1>5, <2>1, <2>2, <2>3, <2>4, PartsMatched, PartsOneFewer
  <2> QED  BY <1>0, <1>a, <2>1, <2>5
<1>6. ASSUME NEW last \in BOOLEAN, StatusInd(last)
      PROVE  /\ ModemOK' /\ OnlyTargets' /\ late =< late'
             /\ late =< 2 /\ PartsOK /\ late' =< 2 /\ ~crossed' => PartsOK'
  <2>1. /\ ~sync.req /\ UNCHANGED <<size, at, target, result, requests, acks, late>>
        /\ sync' = [sync EXCEPT !.res = @ \/ sync.req]
        /\ modem' = modem \/ modem' = [modem EXCEPT !.running = FALSE]
    BY <1>6 DEF StatusInd, NoStatus
  <2>2. sync' = sync
    BY <1>0, <2>1 DEF TypesOK, SyncOK, Syncs
  <2>3. modem'.targets = modem.targets /\ modem'.image = modem.image /\ ModemOK'
    BY <1>0, <2>1 DEF ModemOK
  <2>4. OnlyTargets'
    BY <1>0, <2>1, <2>3 DEF OnlyTargets
  <2>5. UNCHANGED <<size, at, target, result, requests, acks, late>>
        /\ sync'.sent = sync.sent /\ sync'.res = sync.res /\ sync'.status = sync.status
    BY <2>1, <2>2
  <2>6. PartsOK => PartsOK'
    BY <2>3, <2>5, PartsKept
  <2>7. late =< late'
    BY <1>0, <2>5
  <2> QED  BY <2>3, <2>4, <2>6, <2>7
<1>7. CASE ModemActs
  <2>1. late' = late
    BY <1>7 DEF ModemActs
  <2>2. PartsOK => PartsOK'
    BY <1>0, <1>7, PartsActs
  <2> QED  BY <1>0, <1>7, <2>1, <2>2, ShapeActs
<1>8. CASE Lose
  <2>1. UNCHANGED <<size, at, target, result, sync, modem, late>>
    BY <1>8 DEF Lose
  <2>2. OneFewer
    <3>1. CASE requests # <<>> /\ requests' = Tail(requests) /\ acks' = acks
      BY <1>0, <3>1, LinkLost
    <3>2. CASE acks # <<>> /\ acks' = Tail(acks) /\ requests' = requests
      BY <1>0, <3>2, LinkReceived
    <3> QED  BY <1>8, <3>1, <3>2 DEF Lose
  <2>3. OnlyTargets' /\ ModemOK'
    BY <1>0, <2>1, <2>2 DEF OnlyTargets, OneFewer, ModemOK
  <2>4. late =< 2 /\ PartsOK => PartsOK'
    BY <1>0, <2>1, <2>2, PartsOneFewer
  <2> QED  BY <1>0, <2>1, <2>3, <2>4
<1>9. CASE UNCHANGED vars
  <2>1. UNCHANGED <<size, at, target, result, requests, acks, sync, modem, late>>
    BY <1>9 DEF vars
  <2> QED  BY <1>0, <1>a, <2>1, PartsKept
<1> QED  BY <1>1, <1>b, <1>2, <1>3, <1>4, <1>5, <1>6, <1>7, <1>8, <1>9 DEF Next, Thread

(* For images of every size, any number of targets and of tries, and any   *)
(* losses and refusals: a download that returns SUCCESS has left the whole *)
(* image in the modem, and exactly the targets chosen, though up to two    *)
(* acks come after their requests have been given up, and are matched by   *)
(* the command alone -- unless one comes between the flags and the command *)
(* of a later request (base_node_mng_fw_upgrade.c:261-267, 1190-1207).     *)
THEOREM SuccessIsTrue == NoStatus /\ Spec => []SuccessIsComplete
<1> SUFFICES ASSUME NoStatus PROVE Spec => []SuccessIsComplete
  OBVIOUS
<1>1. Init => LateInv
  BY LateInit
<1>2. LateInv /\ [Next]_vars => LateInv'
  BY NoStatus, LateNext
<1>3. LateInv => SuccessIsComplete
  <2> SUFFICES ASSUME LateInv, result = "success", late =< 2, ~crossed
               PROVE  modem.image = Whole /\ modem.targets = 1 .. NumTargets
    BY DEF SuccessIsComplete
  <2> QED  BY DEF LateInv, FewLate, ReturnedOK, OnlyTargets
<1> QED  BY <1>1, <1>2, <1>3, PTL DEF Spec
=============================================================================
