--------------------------- MODULE CoordAppProofs ---------------------------
(* Theorems about CoordApp and their proofs. *)
EXTENDS CoordApp, TLAPS

(* The packet on its way is the one of this round: whoever looks at the    *)
(* device, or holds a packet, has sent none since the modem has said that  *)
(* it is not ready; and the code knows that it has said so.                *)
BuffersOK ==
    /\ main \in [at : Places, pass : {"loop", "tun"}]
    /\ available \in BOOLEAN /\ blocking \in BOOLEAN
    /\ unready \in Nat /\ said \in {"ready", "not ready", "forgotten"}
    /\ said = "not ready" <=> ~available
    /\ At("tun") => main.pass = "tun"
    /\ said = "not ready" =>
          unready \in {0, 1} /\ (At("poll") \/ main.pass = "tun" => unready = 0)
    /\ FileMeansNotReady

LEMMA BuffersInit == Init => BuffersOK
<1> SUFFICES ASSUME Init PROVE BuffersOK
  OBVIOUS
<1>1. /\ main.at = "mib" /\ main.pass = "loop" /\ main \in [at : Places, pass : {"loop", "tun"}]
      /\ available = TRUE /\ blocking \in BOOLEAN /\ unready = 0 /\ said = "ready"
  BY DEF Init, Places
<1> QED  BY <1>1 DEF BuffersOK, At, FileMeansNotReady

(* What leaves the packets and the modem's readiness alone keeps it, if    *)
(* the main thread goes to a place that asks for nothing.                  *)
LEMMA BuffersKept ==
    ASSUME BuffersOK, UNCHANGED <<available, blocking, said, unready>>,
           NEW place \in Places, Goto(place),
           place \in {"tun", "poll"} => place = main.pass,
           \/ place \in {"mib", "mibWait", "prefixWait", "unlink"}
           \/ main.at \notin {"mib", "mibWait", "prefixWait", "unlink"}
    PROVE  BuffersOK'
<1>1. main' \in [at : Places, pass : {"loop", "tun"}] /\ main'.at = place /\ main'.pass = main.pass
  BY DEF Goto, BuffersOK
<1> QED  BY <1>1 DEF BuffersOK, At, FileMeansNotReady

LEMMA BuffersNext == BuffersOK /\ [Next]_vars => BuffersOK'
<1> SUFFICES ASSUME BuffersOK, [Next]_vars PROVE BuffersOK'
  OBVIOUS
<1>1. CASE SetMib \/ MibSet \/ PrefixSet
  <2>1. UNCHANGED <<available, blocking, said, unready>>
    BY <1>1 DEF SetMib, MibSet, PrefixSet
  <2>2. Goto("mibWait") \/ Goto("mib") \/ Goto("unlink")
    BY <1>1 DEF SetMib, MibSet, PrefixSet
  <2> QED  BY <2>1, <2>2, BuffersKept DEF Places
<1>2. CASE SetPrefix
  <2>1. /\ main' \in [at : Places, pass : {"loop", "tun"}]
        /\ main'.at = "prefixWait" /\ main'.pass = main.pass
    BY <1>2 DEF SetPrefix, Goto, BuffersOK, Places
  <2> QED  BY <1>2, <2>1 DEF SetPrefix, BuffersOK, At, FileMeansNotReady
<1>3. CASE RemoveFile
  <2>1. /\ main' \in [at : Places, pass : {"loop", "tun"}]
        /\ main'.at = "loop" /\ main'.pass = main.pass
    BY <1>3 DEF RemoveFile, Goto, BuffersOK, Places
  <2> QED  BY <1>3, <2>1 DEF RemoveFile, BuffersOK, At, FileMeansNotReady
<1>4. CASE LoopTop
  <2>1. main'.at = "poll" /\ main'.pass = "loop" /\ main' \in [at : Places, pass : {"loop", "tun"}]
    BY <1>4 DEF LoopTop, Places
  <2> QED  BY <1>4, <2>1 DEF LoopTop, BuffersOK, At, FileMeansNotReady
<1>5. ASSUME NEW ready \in BOOLEAN, Poll(ready) PROVE BuffersOK'
  <2>1. /\ main'.at = "process" /\ main'.pass \in {"loop", "tun"}
        /\ main' \in [at : Places, pass : {"loop", "tun"}]
    BY <1>5 DEF Poll, Places
  <2> QED  BY <1>5, <2>1 DEF Poll, BuffersOK, At, FileMeansNotReady
<1>6. CASE SendPacket
  <2>1. /\ main'.at = "process" /\ main'.pass = "loop"
        /\ main' \in [at : Places, pass : {"loop", "tun"}]
    BY <1>6 DEF SendPacket, Places
  <2>2. said = "not ready" => unready = 0
    BY <1>6 DEF SendPacket, BuffersOK
  <2>3. unready' \in Nat /\ (said = "not ready" => unready' \in {0, 1})
    <3>1. unready \in Nat /\ (unready' = 0 \/ unready' = unready + 1)
      BY <1>6 DEF SendPacket, BuffersOK
    <3>2. ASSUME unready = 0 PROVE unready' \in {0, 1}
      BY <3>1, <3>2
    <3>3. unready' \in Nat
      BY <3>1
    <3> QED  BY <2>2, <3>2, <3>3, Zenon
  <2>4. UNCHANGED <<available, blocking, said>> /\ (said = "not ready" => ~available)
    BY <1>6 DEF SendPacket, BuffersOK
  <2>5. ~At("tun")' /\ ~At("poll")' /\ main.at = "tun"
    BY <1>6, <2>1 DEF SendPacket, At
  <2>6. FileMeansNotReady'
    BY <2>1, <2>4, <2>5 DEF FileMeansNotReady, BuffersOK
  <2> QED  BY <2>1, <2>3, <2>4, <2>5, <2>6 DEF BuffersOK
<1>7. CASE \/ JoinNetwork \/ StartCoordinator \/ HopsGot \/ NetworkStartRequest
           \/ StartPending \/ StillPending \/ ResetNetwork \/ NetworkRuns
  <2>1. UNCHANGED <<available, blocking, said, unready>>
    BY <1>7 DEF JoinNetwork, StartCoordinator, HopsGot, NetworkStartRequest,
                StartPending, StillPending, ResetNetwork, NetworkRuns
  <2>2. main.at \in {"process", "startWait", "request", "pending"}
    BY <1>7 DEF JoinNetwork, StartCoordinator, HopsGot, NetworkStartRequest,
                StartPending, StillPending, ResetNetwork, NetworkRuns, At
  <2>3. Goto("bs") \/ Goto("startWait") \/ Goto("request") \/ Goto("pending")
    BY <1>7 DEF JoinNetwork, StartCoordinator, HopsGot, NetworkStartRequest,
                StartPending, StillPending, ResetNetwork, NetworkRuns
  <2> QED  BY <2>1, <2>2, <2>3, BuffersKept DEF Places
<1>8. CASE BsProcess
  <2>1. main.pass \in Places /\ main.pass \in {"loop", "tun"} /\ main.at = "bs"
    BY <1>8 DEF BuffersOK, Places, BsProcess, At
  <2>2. UNCHANGED <<available, blocking, said, unready>> /\ Goto(main.pass)
    BY <1>8 DEF BsProcess
  <2> QED  BY <2>1, <2>2, BuffersKept
<1>9. ASSUME NEW ready \in BOOLEAN, BufferIndication(ready) PROVE BuffersOK'
  BY <1>9 DEF BufferIndication, BuffersOK, At, FileMeansNotReady
<1>10. CASE UNCHANGED <<main, available, blocking, said, unready>>
  BY <1>10 DEF BuffersOK, At, FileMeansNotReady
<1>11. CASE \/ (\E ok \in BOOLEAN : NetworkStartConfirm(ok)) \/ LoseStartConfirm
            \/ RekeyCall \/ RekeyReturn \/ Asking \/ Answering \/ UNCHANGED vars
  <2>1. UNCHANGED <<main, available, blocking, said, unready>>
    BY <1>11 DEF NetworkStartConfirm, LoseStartConfirm, RekeyCall, RekeyReturn,
                 Asking, Answering, vars, appVars
  <2> QED  BY <1>10, <2>1
<1> QED
  BY <1>1, <1>2, <1>3, <1>4, <1>5, <1>6, <1>7, <1>8, <1>9, <1>11 DEF Next, MainStep, UsiStep

(* After the modem has said that it is not ready at most the packet that   *)
(* is on its way is sent, however the indications of the usi thread fall   *)
(* between the steps of the main loop (app_adp_mng.c:468-493), but for     *)
(* what it has said before adp_init forgets it (669).                      *)
THEOREM SendingStops == Spec => []StopsSending
<1>1. BuffersOK => StopsSending
  <2>1. ASSUME unready \in {0, 1} PROVE unready <= 1
    BY <2>1
  <2> QED  BY <2>1, Zenon DEF BuffersOK, StopsSending
<1> QED  BY <1>1, BuffersInit, BuffersNext, PTL DEF Spec

(* Once adp_init has removed what an earlier run left, the blocking file   *)
(* is there only while the modem is not ready.                             *)
THEOREM FileIsTrue == Spec => []FileMeansNotReady
<1>1. BuffersOK => FileMeansNotReady
  BY DEF BuffersOK
<1> QED  BY <1>1, BuffersInit, BuffersNext, PTL DEF Spec

-----------------------------------------------------------------------------
(* The synchronous requests *)

Calls == [op : {"none", "begun", "waiting"}, type : Types,
          attr : Attributes \cup {NoAttribute}, n : Nat, clean : BOOLEAN]

SyncTypes ==
    /\ sync \in [req : BOOLEAN, res : BOOLEAN, attr : Attributes \cup {NoAttribute},
                 got : [Types -> Nat]]
    /\ call \in [{"main", "usi"} -> Calls]
    /\ asked \subseteq [n : Nat, type : Types, attr : Attributes \cup {NoAttribute}]
    /\ requests \in Nat

(* The usi thread only gets.  While it is in no call, a set of the main    *)
(* thread is either given up, because a call of the usi thread has cleared *)
(* the flags, or it is what the next confirm about its attribute answers.  *)
MainSets == call["main"].op # "none" /\ call["main"].type \notin GetTypes

Awaited ==
    LET c == call["main"]
    IN  /\ sync.attr = c.attr
        /\ c.clean => \A r \in asked : r.attr = c.attr =>
                         c.op = "waiting" /\ r.n = c.n /\ r.type = c.type

AnswerOK ==
    LET c == call["main"]
    IN  /\ call["usi"].type = "get"
        /\ MainSets /\ UsiIsFree /\ sync.req => Awaited
        /\ MainSets /\ c.op = "waiting" /\ c.clean /\ sync.res => sync.got[c.type] = c.n

(* What a step of the application does to the requests. *)
SyncDoes ==
    \/ \E type \in Types, attr \in Attributes : CallSync("main", type, attr)
    \/ CallSync("usi", "get", Hops)
    \/ \E t \in {"main", "usi"} : AskModem(t) \/ ReturnSync(t)
    \/ \E r \in asked : ConfirmOf(r) \/ LoseAnswer(r)
    \/ UNCHANGED syncVars

LEMMA ParamType ==
    ASSUME NEW i \in 1 .. Len(Params)
    PROVE  Params[i].type \in {"set", "macset"} /\ Params[i].attr \in Attributes
<1> DEFINE S == [type : {"set", "macset"}, attr : Attributes]
<1>1. Params \in Seq(S)
  BY AppAssumption
<1>2. Params[i] \in S
  <2> HIDE DEF S
  <2> QED  BY <1>1
<1> QED  BY <1>2

LEMMA StepSync ==
    ASSUME mibIndex \in Nat \ {0}, [Next]_vars
    PROVE  SyncDoes
<1>1. CASE SetMib
  <2>1. mibIndex \in 1 .. Len(Params)
    BY <1>1, AppAssumption DEF SetMib
  <2> QED  BY <1>1, <2>1, ParamType DEF SetMib, SyncDoes, Types
<1>2. CASE SetPrefix
  BY <1>2, AppAssumption DEF SetPrefix, SyncDoes, Types
<1>3. CASE StartCoordinator
  BY <1>3, AppAssumption DEF StartCoordinator, SyncDoes, Types
<1>4. CASE MibSet \/ PrefixSet \/ HopsGot \/ RekeyReturn
  BY <1>4 DEF MibSet, PrefixSet, HopsGot, RekeyReturn, SyncDoes
<1>5. CASE RekeyCall
  BY <1>5 DEF RekeyCall, SyncDoes
<1>6. CASE Asking \/ Answering
  BY <1>6 DEF Asking, Answering, ModemStep, GetConfirm, SetConfirm, MacGetConfirm,
              MacSetConfirm, SyncDoes
<1>7. CASE \/ RemoveFile \/ LoopTop \/ (\E ready \in BOOLEAN : Poll(ready)) \/ SendPacket
           \/ JoinNetwork \/ NetworkStartRequest \/ StartPending \/ StillPending
           \/ ResetNetwork \/ NetworkRuns \/ BsProcess \/ LoseStartConfirm
           \/ (\E ok \in BOOLEAN : NetworkStartConfirm(ok))
           \/ (\E ready \in BOOLEAN : BufferIndication(ready)) \/ UNCHANGED vars
  <2>1. UNCHANGED syncVars
    BY <1>7 DEF RemoveFile, LoopTop, Poll, SendPacket, JoinNetwork, NetworkStartRequest,
         StartPending, StillPending, ResetNetwork, NetworkRuns, BsProcess, LoseStartConfirm,
         NetworkStartConfirm, BufferIndication, vars
  <2> QED  BY <2>1 DEF SyncDoes
<1> QED
  BY <1>1, <1>2, <1>3, <1>4, <1>5, <1>6, <1>7 DEF Next, MainStep, UsiStep

LEMMA SyncTypesStep == SyncTypes /\ SyncDoes => SyncTypes'
<1> SUFFICES ASSUME SyncTypes, SyncDoes PROVE SyncTypes'
  OBVIOUS
<1> DEFINE Syncs == [req : BOOLEAN, res : BOOLEAN, attr : Attributes \cup {NoAttribute},
                     got : [Types -> Nat]]
<1>1. ASSUME NEW t \in {"main", "usi"}, NEW type \in Types, NEW attr \in Attributes,
             CallSync(t, type, attr)
      PROVE  SyncTypes'
  <2>1. sync' \in Syncs
    BY <1>1 DEF CallSync, SyncTypes
  <2>2. (\A r \in asked : r.attr # attr) \in BOOLEAN /\ requests + 1 \in Nat
    BY DEF SyncTypes
  <2> DEFINE c == [op |-> "begun", type |-> type, attr |-> attr, n |-> requests + 1,
                   clean |-> \A r \in asked : r.attr # attr]
  <2>3. c \in Calls
    BY <2>2 DEF Calls
  <2>4. call' = [call EXCEPT ![t] = c] /\ requests' = requests + 1 /\ asked' = asked
    BY <1>1 DEF CallSync
  <2> HIDE DEF c
  <2> QED  BY <2>1, <2>2, <2>3, <2>4 DEF SyncTypes
<1>2. ASSUME NEW t \in {"main", "usi"}, AskModem(t) PROVE SyncTypes'
  <2>1. call[t] \in Calls
    BY DEF SyncTypes
  <2>2. sync' \in Syncs
    BY <1>2, <2>1 DEF AskModem, SyncTypes, Calls
  <2>3. [call[t] EXCEPT !.op = "waiting"] \in Calls
    BY <2>1 DEF Calls
  <2>4. call' = [call EXCEPT ![t] = [call[t] EXCEPT !.op = "waiting"]]
    BY <1>2 DEF AskModem, SyncTypes
  <2>5. asked' = asked \cup {Request(call[t].n, call[t].type, call[t].attr)}
        /\ requests' = requests
    BY <1>2 DEF AskModem
  <2>6. Request(call[t].n, call[t].type, call[t].attr)
           \in [n : Nat, type : Types, attr : Attributes \cup {NoAttribute}]
    BY <2>1 DEF Calls, Request
  <2> QED  BY <2>2, <2>3, <2>4, <2>5, <2>6 DEF SyncTypes
<1>3. ASSUME NEW t \in {"main", "usi"}, ReturnSync(t) PROVE SyncTypes'
  <2>1. NoCall \in Calls
    BY DEF NoCall, Calls, Types
  <2> QED  BY <1>3, <2>1 DEF ReturnSync, SyncTypes
<1>4. ASSUME NEW r \in asked, ConfirmOf(r) PROVE SyncTypes'
  <2>1. r.type \in Types /\ r.n \in Nat
    BY DEF SyncTypes
  <2> QED  BY <1>4, <2>1 DEF ConfirmOf, SyncTypes
<1>5. ASSUME NEW r \in asked, LoseAnswer(r) PROVE SyncTypes'
  BY <1>5 DEF LoseAnswer, SyncTypes
<1>6. CASE UNCHANGED syncVars
  BY <1>6 DEF syncVars, SyncTypes
<1>7. "get" \in Types /\ Hops \in Attributes
  BY AppAssumption DEF Types
<1> QED  BY <1>1, <1>2, <1>3, <1>4, <1>5, <1>6, <1>7 DEF SyncDoes

LEMMA AnswerInit == Init => SyncTypes /\ AnswerOK
<1> SUFFICES ASSUME Init PROVE SyncTypes /\ AnswerOK
  OBVIOUS
<1>1. SyncInit
  BY DEF Init
<1>2. NoCall \in Calls /\ NoCall.op = "none" /\ NoCall.type = "get"
  BY DEF NoCall, Calls, Types
<1>3. SyncTypes
  BY <1>1, <1>2 DEF SyncInit, SyncTypes
<1>4. AnswerOK
  BY <1>1, <1>2 DEF SyncInit, AnswerOK, MainSets
<1> QED  BY <1>3, <1>4

LEMMA AnswerStep == SyncTypes /\ AnswerOK /\ SyncDoes => AnswerOK'
<1> SUFFICES ASSUME SyncTypes, AnswerOK, SyncDoes PROVE AnswerOK'
  OBVIOUS
<1>1. /\ call \in [{"main", "usi"} -> Calls]
      /\ NoCall.op = "none" /\ NoCall.type = "get"
      /\ \A t \in {"main", "usi"} : call[t] \in Calls
  BY DEF SyncTypes, NoCall
<1>2. ASSUME NEW type \in Types, NEW attr \in Attributes, CallSync("main", type, attr)
      PROVE  AnswerOK'
  <2> DEFINE c == [op |-> "begun", type |-> type, attr |-> attr, n |-> requests + 1,
                   clean |-> \A r \in asked : r.attr # attr]
  <2>1. /\ call' = [call EXCEPT !["main"] = c] /\ asked' = asked
        /\ type \notin GetTypes => sync' = [sync EXCEPT !.req = TRUE, !.attr = attr]
    BY <1>2 DEF CallSync
  <2>2. /\ c.op = "begun" /\ c.type = type /\ c.attr = attr
        /\ c.clean => \A r \in asked : r.attr # attr
    OBVIOUS
  <2> HIDE DEF c
  <2>3. call'["main"] = c /\ call'["usi"] = call["usi"]
    BY <1>1, <2>1
  <2>4. type \notin GetTypes => sync'.attr = attr
    BY <2>1 DEF SyncTypes
  <2>5. type \notin GetTypes => Awaited'
    BY <2>1, <2>2, <2>3, <2>4 DEF Awaited
  <2> QED  BY <2>2, <2>3, <2>5 DEF AnswerOK, MainSets
<1>3. CASE CallSync("usi", "get", Hops)
  <2>1. /\ call'["usi"].type = "get" /\ call'["usi"].op = "begun"
        /\ call'["main"] = call["main"] /\ sync'.res = FALSE
    BY <1>1, <1>3 DEF CallSync, GetTypes, SyncTypes
  <2>2. call'["usi"] # NoCall
    BY <1>1, <2>1
  <2> QED  BY <2>1, <2>2 DEF AnswerOK, UsiIsFree
<1>4. CASE AskModem("main")
  <2> DEFINE c == call["main"]
             new == Request(c.n, c.type, c.attr)
  <2>1. /\ call' = [call EXCEPT !["main"] = [c EXCEPT !.op = "waiting"]]
        /\ asked' = asked \cup {new} /\ c.op = "begun"
    BY <1>1, <1>4 DEF AskModem
  <2>2. /\ call'["usi"] = call["usi"] /\ call'["main"].op = "waiting"
        /\ call'["main"].type = c.type /\ call'["main"].attr = c.attr
        /\ call'["main"].n = c.n /\ call'["main"].clean = c.clean
    BY <1>1, <2>1 DEF Calls
  <2>3. new.n = c.n /\ new.type = c.type
    BY DEF Request
  <2> HIDE DEF new
  <2>4. c.type \notin GetTypes => /\ sync'.req = sync.req /\ sync'.attr = sync.attr
                                 /\ sync'.res = FALSE
    BY <1>4 DEF AskModem, SyncTypes
  <2>5. ASSUME c.type \notin GetTypes, UsiIsFree, sync.req PROVE Awaited'
    <3>1. Awaited
      BY <2>1, <2>5 DEF AnswerOK, MainSets
    <3>2. c.clean => \A r \in asked : r.attr # c.attr
      BY <2>1, <3>1 DEF Awaited
    <3> QED  BY <2>1, <2>2, <2>3, <2>4, <2>5, <3>1, <3>2 DEF Awaited
  <2> QED  BY <2>2, <2>4, <2>5 DEF AnswerOK, MainSets, UsiIsFree
<1>5. CASE AskModem("usi")
  <2> DEFINE c == call["usi"]
  <2>1. /\ call' = [call EXCEPT !["usi"] = [c EXCEPT !.op = "waiting"]]
        /\ c.op = "begun" /\ c.type = "get"
    BY <1>1, <1>5 DEF AskModem, AnswerOK
  <2>2. /\ call'["main"] = call["main"] /\ call'["usi"].op = "waiting"
        /\ call'["usi"].type = "get"
    BY <1>1, <2>1 DEF Calls
  <2>3. call'["usi"] # NoCall
    BY <1>1, <2>2
  <2>4. sync'.res = sync.res /\ sync'.got = sync.got
    BY <1>5, <2>1 DEF AskModem, GetTypes, SyncTypes
  <2> QED  BY <2>2, <2>3, <2>4 DEF AnswerOK, MainSets, UsiIsFree
<1>6. ASSUME NEW t \in {"main", "usi"}, ReturnSync(t) PROVE AnswerOK'
  <2>1. /\ call' = [call EXCEPT ![t] = NoCall]
        /\ sync'.req = FALSE /\ sync'.res = FALSE
    BY <1>6 DEF ReturnSync, SyncTypes
  <2>2. call'["usi"].type = "get"
    BY <1>1, <2>1 DEF AnswerOK
  <2> QED  BY <2>1, <2>2 DEF AnswerOK
<1>7. ASSUME NEW r \in asked, ConfirmOf(r) PROVE AnswerOK'
  <2> DEFINE c == call["main"]
  <2>1. /\ call' = call /\ asked' \subseteq asked /\ UsiIsFree
        /\ r.type \in Types
    BY <1>7 DEF ConfirmOf, SyncTypes
  <2>2. \/ sync' = sync
        \/ /\ sync.req /\ sync.attr = r.attr /\ sync'.req = sync.req
           /\ sync'.attr = sync.attr /\ sync'.got[r.type] = r.n
    BY <1>7, <2>1 DEF ConfirmOf, SyncTypes
  <2>3. Awaited => Awaited'
    BY <2>1, <2>2 DEF Awaited
  <2>4. ASSUME MainSets, c.op = "waiting", c.clean, sync'.res PROVE sync'.got[c.type] = c.n
    <3>1. CASE sync' = sync
      BY <2>4, <3>1 DEF AnswerOK
    <3>2. CASE sync.req /\ sync.attr = r.attr /\ sync'.got[r.type] = r.n
      <4>1. Awaited
        BY <2>1, <2>4, <3>2 DEF AnswerOK
      <4> QED  BY <2>4, <3>2, <4>1 DEF Awaited
    <3> QED  BY <2>2, <3>1, <3>2
  <2>5. MainSets /\ UsiIsFree /\ sync'.req => Awaited'
    BY <2>2, <2>3 DEF AnswerOK
  <2> QED  BY <2>1, <2>4, <2>5 DEF AnswerOK, MainSets, UsiIsFree
<1>8. ASSUME NEW r \in asked, LoseAnswer(r) PROVE AnswerOK'
  BY <1>8 DEF LoseAnswer, AnswerOK, MainSets, UsiIsFree, Awaited
<1>9. CASE UNCHANGED syncVars
  BY <1>9 DEF syncVars, AnswerOK, MainSets, UsiIsFree, Awaited
<1> QED  BY <1>2, <1>3, <1>4, <1>5, <1>6, <1>7, <1>8, <1>9 DEF SyncDoes

-----------------------------------------------------------------------------
(* Where the main thread is, and the calls it is in *)

Waits == {"mibWait", "prefixWait", "startWait"}

PlacesOK ==
    /\ mibIndex \in 1 .. Len(Params) + 1
    /\ At("mibWait") => mibIndex =< Len(Params)
    /\ call["main"].op # "none" <=> main.at \in Waits
    /\ network \in {"none", "asked", "started", "refused", "lost", "reset"}

LEMMA PlacesInit == Init => PlacesOK
<1> SUFFICES ASSUME Init PROVE PlacesOK
  OBVIOUS
<1>1. Len(Params) \in Nat
  BY AppAssumption
<1>2. call["main"].op = "none" /\ main.at = "mib" /\ mibIndex = 1 /\ network = "none"
  BY DEF Init, SyncInit, NoCall
<1> QED  BY <1>1, <1>2 DEF PlacesOK, Waits, At

(* A step that leaves the main thread's call alone, in no wait of it. *)
LEMMA PlacesKept ==
    ASSUME PlacesOK, call'["main"] = call["main"], mibIndex' = mibIndex,
           network' \in {"none", "asked", "started", "refused", "lost", "reset"},
           \/ main' = main
           \/ main.at \notin Waits /\ main'.at \notin Waits
    PROVE  PlacesOK'
<1>1. main'.at = "mibWait" => main.at = "mibWait"
  BY DEF Waits
<1> QED  BY <1>1 DEF PlacesOK, At

LEMMA PlacesStep == BuffersOK /\ SyncTypes /\ PlacesOK /\ [Next]_vars => PlacesOK'
<1> SUFFICES ASSUME BuffersOK, SyncTypes, PlacesOK, [Next]_vars PROVE PlacesOK'
  OBVIOUS
<1>1. /\ call \in [{"main", "usi"} -> Calls] /\ NoCall.op = "none"
      /\ main \in [at : Places, pass : {"loop", "tun"}]
      /\ Len(Params) \in Nat /\ mibIndex \in Nat
  <2>1. Len(Params) \in Nat
    BY AppAssumption
  <2>2. mibIndex \in Nat
    BY <2>1 DEF PlacesOK
  <2>3. main \in [at : Places, pass : {"loop", "tun"}]
    BY Zenon DEF BuffersOK
  <2> QED  BY <2>1, <2>2, <2>3 DEF SyncTypes, NoCall
<1>2. ASSUME NEW type, NEW attr, CallSync("main", type, attr)
      PROVE  call'["main"].op = "begun"
  BY <1>1, <1>2 DEF CallSync
<1>3. CASE SetMib \/ SetPrefix \/ StartCoordinator
  <2>1. /\ call'["main"].op = "begun" /\ mibIndex' = mibIndex /\ network' = network
        /\ main'.at \in Waits
        /\ main'.at = "mibWait" => mibIndex =< Len(Params)
    BY <1>1, <1>2, <1>3 DEF SetMib, SetPrefix, StartCoordinator, Goto, Waits, At
  <2> QED  BY <2>1 DEF PlacesOK, At
<1>4. CASE MibSet \/ PrefixSet \/ HopsGot
  <2>1. call'["main"].op = "none" /\ main'.at \notin Waits /\ network' = network
    BY <1>1, <1>4 DEF MibSet, PrefixSet, HopsGot, ReturnSync, Goto, Waits
  <2>2. mibIndex' = mibIndex \/ (At("mibWait") /\ mibIndex' = mibIndex + 1)
    BY <1>4 DEF MibSet, PrefixSet, HopsGot
  <2> QED  BY <1>1, <2>1, <2>2 DEF PlacesOK, At, Waits
<1>5. CASE \/ RemoveFile \/ LoopTop \/ (\E ready \in BOOLEAN : Poll(ready)) \/ SendPacket
           \/ JoinNetwork \/ NetworkStartRequest \/ StartPending \/ StillPending
           \/ ResetNetwork \/ NetworkRuns \/ BsProcess
  <2>1. call' = call /\ mibIndex' = mibIndex
    BY <1>5 DEF RemoveFile, LoopTop, Poll, SendPacket, JoinNetwork, NetworkStartRequest,
         StartPending, StillPending, ResetNetwork, NetworkRuns, BsProcess, syncVars
  <2>2. network' \in {network, "asked", "reset"}
    BY <1>5 DEF RemoveFile, LoopTop, Poll, SendPacket, JoinNetwork, NetworkStartRequest,
         StartPending, StillPending, ResetNetwork, NetworkRuns, BsProcess
  <2>3. main.at \notin Waits
    BY <1>5 DEF RemoveFile, LoopTop, Poll, SendPacket, JoinNetwork, NetworkStartRequest,
         StartPending, StillPending, ResetNetwork, NetworkRuns, BsProcess, At, Waits
  <2>4. CASE LoopTop \/ (\E ready \in BOOLEAN : Poll(ready)) \/ SendPacket
    <3>1. main'.at \in {"poll", "process"}
      BY <2>4 DEF LoopTop, Poll, SendPacket
    <3> QED  BY <2>1, <2>2, <2>3, <3>1, PlacesKept DEF PlacesOK, Waits
  <2>5. CASE ~(LoopTop \/ (\E ready \in BOOLEAN : Poll(ready)) \/ SendPacket)
    <3>1. Goto("loop") \/ Goto("bs") \/ Goto("pending") \/ Goto(main.pass)
      BY <1>5, <2>5 DEF RemoveFile, JoinNetwork, NetworkStartRequest, StartPending,
           StillPending, ResetNetwork, NetworkRuns, BsProcess
    <3>2. main'.at \in {"loop", "bs", "pending", "tun"}
      BY <1>1, <3>1 DEF Goto
    <3> QED  BY <2>1, <2>2, <2>3, <3>2, PlacesKept DEF PlacesOK, Waits
  <2> QED  BY <2>4, <2>5
<1>6. CASE RekeyCall \/ RekeyReturn
  <2>1. /\ call'["main"] = call["main"] /\ main' = main /\ mibIndex' = mibIndex
        /\ network' = network
    BY <1>1, <1>6 DEF RekeyCall, RekeyReturn, CallSync, ReturnSync, appVars
  <2> QED  BY <2>1, PlacesKept DEF PlacesOK
<1>7. CASE Asking
  <2>1. PICK t \in {"main", "usi"} : AskModem(t) /\ UNCHANGED appVars
    BY <1>7 DEF Asking
  <2>2. call'["main"].op # "none" <=> call["main"].op # "none"
    BY <1>1, <2>1 DEF AskModem, Calls
  <2> QED  BY <2>1, <2>2 DEF PlacesOK, At, appVars
<1>8. CASE \/ Answering \/ (\E ok \in BOOLEAN : NetworkStartConfirm(ok))
           \/ (\E ready \in BOOLEAN : BufferIndication(ready)) \/ LoseStartConfirm
           \/ UNCHANGED vars
  <2>1. /\ call' = call /\ main' = main /\ mibIndex' = mibIndex
        /\ network' \in {network, "started", "refused", "lost"}
    BY <1>8 DEF Answering, ModemStep, GetConfirm, SetConfirm, MacGetConfirm, MacSetConfirm,
         ConfirmOf, LoseAnswer, NetworkStartConfirm, BufferIndication, LoseStartConfirm,
         vars, syncVars, appVars
  <2> QED  BY <2>1, PlacesKept DEF PlacesOK
<1> QED
  BY <1>3, <1>4, <1>5, <1>6, <1>7, <1>8 DEF Next, MainStep, UsiStep

AppInv == BuffersOK /\ SyncTypes /\ PlacesOK /\ AnswerOK

LEMMA AppInductive == Spec => []AppInv
<1>1. Init => AppInv
  BY BuffersInit, AnswerInit, PlacesInit DEF AppInv
<1>2. AppInv /\ [Next]_vars => AppInv'
  <2> SUFFICES ASSUME AppInv, [Next]_vars PROVE AppInv'
    OBVIOUS
  <2>1. mibIndex \in Nat \ {0}
    BY AppAssumption DEF AppInv, PlacesOK
  <2>2. SyncDoes
    BY <2>1, StepSync
  <2> QED  BY <2>2, BuffersNext, SyncTypesStep, AnswerStep, PlacesStep DEF AppInv
<1> QED  BY <1>1, <1>2, PTL DEF Spec

(* For any parameters and any behaviour of the modem the state keeps its   *)
(* types, and the main thread is in a synchronous call exactly at the      *)
(* places where it waits for one.                                          *)
THEOREM TypeCorrect == Spec => []TypeOK
<1>1. AppInv => TypeOK
  BY DEF AppInv, BuffersOK, SyncTypes, PlacesOK, TypeOK, Waits, Calls, Places
<1> QED  BY <1>1, AppInductive, PTL

(* AdpSetRequestSync: for any parameters, and however late the modem       *)
(* answers or however often it does not, a set that succeeds has been      *)
(* answered itself, if no request about the same attribute was unanswered  *)
(* when it began.  The calls of the usi thread come after those of the     *)
(* main thread: that two calls overlap is not covered.                     *)
THEOREM SetAnswered == Spec => SetIsAnswered
<1> DEFINE Own == \A t \in {"main", "usi"} :
                     Returns(t) /\ sync.res /\ call[t].clean /\ call[t].type \notin GetTypes
                     => Answer(t) = call[t].n
<1>1. AppInv => Own
  BY DEF AppInv, AnswerOK, MainSets, Returns, Answer, GetTypes
<1>2. Own => [Own]_vars
  OBVIOUS
<1> HIDE DEF Own
<1> QED  BY <1>1, <1>2, AppInductive, PTL DEF SetIsAnswered, Own
=============================================================================
