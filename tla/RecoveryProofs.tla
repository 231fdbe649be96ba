---------------------------- MODULE RecoveryProofs ----------------------------
(***************************************************************************)
(* The recovery tool, for any positions, error codes and, but for the      *)
(* success it reports, any number of calls that an answer may be late.     *)
(*                                                                         *)
(* An answer has no mark of its call.  What the proofs use in its place is *)
(* the order of the line: ages fall strictly from the head of the buffer   *)
(* to the end of the line, and the motor serves the line in order.  So     *)
(* when a call takes its own answer, nothing is on its way any more, and   *)
(* what the motor said is still true of it.                                *)
(***************************************************************************)
EXTENDS EncoderRecovery, SequenceTheorems, TLAPS

-----------------------------------------------------------------------------
(* Types *)

Word16 == {w \in Int : 0 <= w /\ w < 65536}
Int32 == {v \in Int : -(32768 * 65536) <= v /\ v < 32768 * 65536}
Byte == {b \in Int : 0 <= b /\ b < 256}

Reads == {Read("version"), Read("error"), Read("enable"), Read("position")}

Writes ==
    {Write("enable", 0), Write("enable", 1), Write("clear", 1), Write("zero", 1),
     Write("save", 1), Write("mode", 3)}
        \cup {Write(reg, v) : reg \in {"low", "high"}, v \in Word16}

Exchanges == [cmd : Reads \cup Writes, age : 0 .. MaxLate, bytes : Seq(Byte) \cup {None}]

Answers == [bytes : Seq(Byte), age : 0 .. MaxLate]

MotorStates == [position : Int32, target : Int, enabled : BOOLEAN, error : Codes]

Places ==
    {"ping", "where", "status", "disable", "clear", "recheck", "ask", "there", "zero",
     "zeroed", "disableAgain", "save", "mode", "hold", "low", "high", "enable",
     "verify", "isOn", "look", "close"}

Off ==
    /\ line = <<>> /\ buffer = <<>> /\ ~waiting
    /\ known = Nothing /\ outcome = "none" /\ ~crossed /\ ~held

ProgramTypes ==
    /\ rpc \in Places \cup {"off"}
    /\ rpc = "off" => Off
    /\ rpc # "off" => motor \in MotorStates
    /\ waiting \in BOOLEAN /\ crossed \in BOOLEAN /\ held \in BOOLEAN
    /\ known \in [error : Int \cup {None}, pos : Int \cup {None}, encoder : BOOLEAN,
                  lost : BOOLEAN, enabled : BOOLEAN]
    /\ rpc \in {"low", "high"} => known.pos \in Int
    /\ rpc # "close" => outcome = "none"
    /\ rpc \in {"ask", "close"} => ~waiting

\* The line is served in its order, and a write has a short answer.
InOrder(requests) ==
    /\ requests \in Seq(Exchanges)
    /\ \A i, j \in DOMAIN requests : i < j => requests[i].age > requests[j].age
    /\ \A i, j \in DOMAIN requests :
         i < j /\ requests[j].bytes # None => requests[i].bytes # None
    /\ \A i \in DOMAIN requests :
         requests[i].cmd \in Writes /\ requests[i].bytes # None => Len(requests[i].bytes) = 1

\* What is in the buffer is older than what is in the line.
Older(replies, requests) ==
    /\ replies \in Seq(Answers)
    /\ \A i, j \in DOMAIN replies : i < j => replies[i].age > replies[j].age
    /\ \A i \in DOMAIN replies, j \in DOMAIN requests : replies[i].age > requests[j].age

OrderInv == InOrder(line) /\ Older(buffer, line)

TypeInv == ProgramTypes /\ OrderInv

-----------------------------------------------------------------------------
(* What is on its way *)

Refused == <<0>>
Applied == <<1>>

\* The call in progress has sent cmd, and its answer is one of answers.
OwnFrames(requests, replies, cmd, answers) ==
    /\ \A i \in DOMAIN requests :
         requests[i].age = 0 =>
             requests[i].cmd = cmd /\ requests[i].bytes \in answers \cup {None}
    /\ \A i \in DOMAIN replies : replies[i].age = 0 => replies[i].bytes \in answers

Own(cmd, answers) == OwnFrames(line, buffer, cmd, answers)

\* No other call's frames are on their way.
NoOthers ==
    /\ \A i \in DOMAIN line : line[i].age = 0
    /\ \A i \in DOMAIN buffer : buffer[i].age = 0

\* The motor meets no write any more.
OnlyReads == \A i \in DOMAIN line : line[i].cmd \in Reads

-----------------------------------------------------------------------------
(* For ZeroForAReason *)

Early == {"ping", "where", "status"}

StatusInv ==
    /\ rpc \in Early => motor.error = firstError /\ OnlyReads
    /\ rpc = "status" /\ waiting => Own(Read("error"), {Refused, Bytes(firstError)})

SuspectInv ==
    /\ known.encoder => SaysEncoder(firstError) \/ crossed
    /\ known.lost => SaysLost(firstError) \/ crossed
    /\ rpc \in {"ask", "there", "zero"} => known.encoder \/ known.lost

ZeroInv == StatusInv /\ SuspectInv

-----------------------------------------------------------------------------
(* For HoldsStill *)

Late == {"enable", "verify", "isOn", "look", "close"}

\* The answers to a write that makes P true.
AnswersIf(P) == IF P THEN {Refused, Applied} ELSE {Refused}

HoldInv ==
    /\ held => rpc \in {"low", "high"} \cup Late
    /\ rpc = "hold" /\ waiting =>
         Own(Read("position"),
             {Refused, Bytes(Low(motor.position)) \o Bytes(High(motor.position))})
    /\ held /\ rpc \in {"low", "high"} =>
         /\ known.pos = motor.position
         /\ IF waiting THEN NoOthers ELSE line = <<>>
    /\ held /\ rpc = "low" /\ waiting =>
         Own(Write("low", Low(known.pos)),
             AnswersIf(Low(motor.target) = Low(motor.position)))
    /\ held /\ rpc = "high" => Low(motor.target) = Low(motor.position)
    /\ held /\ rpc = "high" /\ waiting =>
         Own(Write("high", High(known.pos)), AnswersIf(motor.target = motor.position))
    /\ held /\ rpc \in Late =>
         /\ motor.target = motor.position
         /\ \A i \in DOMAIN line : line[i].cmd \in Reads \cup {Write("enable", 1)}

-----------------------------------------------------------------------------
(* For SuccessIsReal *)

\* An answer as long as that to a write.
Brief(f) == Len(f.bytes) = 1

\* What was read of the error is still true.
ErrorKnown == known.error # None => known.error = motor.error /\ OnlyReads

SuccessInv ==
    /\ rpc = (IF waiting THEN "enable" ELSE "verify") =>
         \A i \in DOMAIN line : line[i].age = 0 => line[i].cmd \in Writes
    /\ rpc = "verify" /\ waiting =>
         /\ Own(Read("error"), {Refused, Bytes(motor.error)})
         /\ \A i \in DOMAIN line : line[i].age > 0 => line[i].cmd \in Writes
         /\ \A i \in DOMAIN buffer : buffer[i].age > 0 => Brief(buffer[i])
    /\ rpc \in {"isOn", "look"} => ErrorKnown
    /\ rpc = "isOn" /\ known.error # None =>
         IF waiting
         THEN /\ NoOthers
              /\ Own(Read("enable"), {Refused, Bytes(IF motor.enabled THEN 1 ELSE 0)})
         ELSE line = <<>>
    /\ rpc = "look" /\ known.error # None => (known.enabled => motor.enabled)
    /\ outcome = "success" => motor.enabled /\ motor.error = 0 /\ OnlyReads

-----------------------------------------------------------------------------
(* Numbers *)

\* A word is read from the bytes it was written to.
LEMMA WordOfBytes ==
    ASSUME NEW w \in Word16
    PROVE  /\ Bytes(w) \in Seq(Byte) /\ Len(Bytes(w)) = 2
           /\ Bytes(w)[1] + 256 * Bytes(w)[2] = w
<1>1. w \in Int /\ 0 <= w /\ w < 65536
  BY SMT DEF Word16
<1>2. PICK low \in Int : low = w % 256
  BY <1>1, SMT
<1>3. PICK high \in Int : high = w \div 256
  BY <1>1, SMT
<1>4. w = 256 * high + low /\ 0 <= low /\ low < 256
  BY <1>1, <1>2, <1>3, SMT
<1>5. 0 <= high /\ high < 256
  BY <1>1, <1>4, SMT
<1>6. low \in Byte /\ high \in Byte
  BY <1>4, <1>5, SMT DEF Byte
<1>7. Bytes(w) = <<low, high>>
  BY <1>2, <1>3 DEF Bytes
<1>8. /\ <<low, high>> \in Seq(Byte) /\ Len(<<low, high>>) = 2
      /\ <<low, high>>[1] = low /\ <<low, high>>[2] = high
  BY <1>6
<1>9. low + 256 * high = w
  BY <1>1, <1>4, SMT
<1> QED
  BY <1>7, <1>8, <1>9

\* A position is joined from its halves, and halves can be written.
LEMMA HalvesAreWords ==
    ASSUME NEW v \in Int
    PROVE  Low(v) \in Word16 /\ High(v) \in Word16
<1>1. PICK h \in Int : h = v \div 65536
  BY SMT
<1>2. PICK l \in Int : l = v % 65536 /\ 0 <= l /\ l < 65536
  BY SMT
<1>3. PICK k \in Int : k = h % 65536 /\ 0 <= k /\ k < 65536
  BY SMT
<1>4. Low(v) = l /\ High(v) = k
  BY <1>1, <1>2, <1>3 DEF Low, High
<1> QED
  BY <1>2, <1>3, <1>4, SMT DEF Word16

LEMMA LowOfJoin ==
    ASSUME NEW l \in Word16, NEW h \in Word16
    PROVE  Parse32(l, h) \in Int /\ Low(Parse32(l, h)) = l
<1>1. l \in Int /\ 0 <= l /\ l < 65536 /\ h \in Int
  BY SMT DEF Word16
<1>2. PICK k \in Int : k = IF h >= 32768 THEN h - 65536 ELSE h
  BY <1>1, SMT
<1>3. Parse32(l, h) = k * 65536 + l
  BY <1>2 DEF Parse32
<1>4. PICK v \in Int : v = k * 65536 + l
  BY <1>1, <1>2, SMT
<1>5. v % 65536 = l
  BY <1>1, <1>2, <1>4, SMT
<1> QED
  BY <1>3, <1>4, <1>5 DEF Low

LEMMA JoinHalves ==
    ASSUME NEW v \in Int32
    PROVE  Parse32(Low(v), High(v)) = v
<1>1. v \in Int
  BY SMT DEF Int32
<1>2. PICK high \in Int : high = v \div 65536
  BY <1>1, SMT
<1>3. PICK low \in Int : low = v % 65536
  BY <1>1, SMT
<1>4. v = 65536 * high + low
  BY <1>1, <1>2, <1>3, SMT
<1>5. 0 <= low /\ low < 65536
  BY <1>1, <1>3, SMT
<1>6. -32768 <= high /\ high < 32768
  BY <1>4, <1>5, SMT DEF Int32
<1>7. /\ high % 65536 = IF high >= 0 THEN high ELSE high + 65536
      /\ high % 65536 \in Int
  BY <1>6, SMT
<1>8. Low(v) = low /\ High(v) = high % 65536
  BY <1>2, <1>3, SMT DEF Low, High
<1>9. Parse32(low, high % 65536) = high * 65536 + low
  BY <1>6, <1>7, SMT DEF Parse32
<1> QED
  BY <1>4, <1>8, <1>9, SMT

\* The four bytes of a position.
LEMMA PositionOfBytes ==
    ASSUME NEW v \in Int32
    PROVE  LET b == Bytes(Low(v)) \o Bytes(High(v))
           IN  /\ b \in Seq(Byte) /\ Len(b) = 4
               /\ Parse32(b[1] + 256 * b[2], b[3] + 256 * b[4]) = v
<1>1. v \in Int
  BY SMT DEF Int32
<1>2. PICK x : x = Bytes(Low(v))
  OBVIOUS
<1>3. PICK y : y = Bytes(High(v))
  OBVIOUS
<1>4. /\ x \in Seq(Byte) /\ Len(x) = 2 /\ x[1] + 256 * x[2] = Low(v)
      /\ y \in Seq(Byte) /\ Len(y) = 2 /\ y[1] + 256 * y[2] = High(v)
  BY <1>1, <1>2, <1>3, HalvesAreWords, WordOfBytes
<1>5. /\ x \o y \in Seq(Byte) /\ Len(x \o y) = Len(x) + Len(y)
      /\ \A i \in 1 .. Len(x) + Len(y) :
           (x \o y)[i] = IF i <= Len(x) THEN x[i] ELSE y[i - Len(x)]
  <2>1. x \in Seq(Byte) /\ y \in Seq(Byte)
    BY <1>4
  <2> QED
    BY <2>1, ConcatProperties, Zenon
<1>6. /\ Len(x \o y) = 4
      /\ (x \o y)[1] = x[1] /\ (x \o y)[2] = x[2]
      /\ (x \o y)[3] = y[1] /\ (x \o y)[4] = y[2]
  <2>1. PICK z : z = x \o y
    OBVIOUS
  <2>2. /\ Len(z) = Len(x) + Len(y)
        /\ \A i \in 1 .. Len(x) + Len(y) : z[i] = IF i <= Len(x) THEN x[i] ELSE y[i - Len(x)]
    BY <1>5, <2>1, Zenon
  <2>3. Len(x) = 2 /\ Len(y) = 2 /\ 2 + 2 = 4
    BY <1>4
  <2>4. Len(z) = 4 /\ \A i \in 1 .. 4 : z[i] = IF i <= 2 THEN x[i] ELSE y[i - 2]
    BY <2>2, <2>3, Zenon
  <2>5. z[1] = x[1] /\ z[2] = x[2] /\ z[3] = y[1] /\ z[4] = y[2]
    BY <2>4, SMT
  <2> QED
    BY <2>1, <2>4, <2>5, Zenon
<1>7. Parse32(x[1] + 256 * x[2], y[1] + 256 * y[2]) = v
  BY <1>4, JoinHalves
<1>8. Parse32((x \o y)[1] + 256 * (x \o y)[2], (x \o y)[3] + 256 * (x \o y)[4]) = v
  BY <1>6, <1>7
<1> QED
  BY <1>2, <1>3, <1>5, <1>6, <1>8

-----------------------------------------------------------------------------
(* The motor *)

\* Of the constants, without the numbers.
LEMMA Constants ==
    MaxLate \in Nat /\ 0 \in Codes /\ None \notin Int /\ None \notin Seq(Int)
BY ControllerAssumption, SMT

\* What a write makes of the motor is a motor, and which part of it changes.
LEMMA ApplyMotor ==
    ASSUME motor \in MotorStates, NEW cmd \in Writes,
           Apply(cmd.reg, cmd.value)
    PROVE  motor' \in MotorStates
<1>1. 0 \in Codes
  BY Constants
<1>2. 0 \in Int32
  BY SMT DEF Int32
<1>3. CASE cmd.reg = "enable"
  BY <1>3 DEF Apply, MotorStates
<1>4. CASE cmd.reg \in {"clear", "zero"}
  BY <1>1, <1>2, <1>4 DEF Apply, MotorStates
<1>5. CASE cmd.reg \in {"save", "mode"}
  BY <1>5 DEF Apply
<1>6. CASE cmd.reg \in {"low", "high"}
  <2>1. motor.target \in Int /\ cmd.value \in Word16
    BY <1>6 DEF MotorStates, Writes, Write
  <2>2. /\ Parse32(cmd.value, High(motor.target)) \in Int
        /\ Parse32(Low(motor.target), cmd.value) \in Int
    BY <2>1, HalvesAreWords, LowOfJoin
  <2> QED
    BY <1>6, <2>2 DEF Apply, MotorStates
<1> QED
  BY <1>3, <1>4, <1>5, <1>6 DEF Writes, Write

\* What the motor answers to a read.
LEMMA AnswerBytes ==
    ASSUME motor \in MotorStates, NEW cmd \in Reads
    PROVE  Answer(cmd.reg) \in Seq(Byte)
<1>1. motor.error \in Word16
  BY ControllerAssumption, SMT DEF MotorStates, Word16
<1>2. motor.position \in Int32
  BY DEF MotorStates
<1>3. 0 \in Word16 /\ 1 \in Word16 /\ 261 \in Word16
  BY SMT DEF Word16
<1>4. cmd.reg \in {"version", "error", "enable", "position"}
  BY DEF Reads, Read
<1> QED
  BY <1>1, <1>2, <1>3, <1>4, WordOfBytes, PositionOfBytes DEF Answer

-----------------------------------------------------------------------------
(* What a step makes of the line and the buffer *)

LEMMA NoneIsNoAnswer ==
    /\ None \notin Seq(Byte) /\ None \notin Int
    /\ Refused \in Seq(Byte) /\ Len(Refused) = 1
    /\ Applied \in Seq(Byte) /\ Len(Applied) = 1
<1>1. Byte \subseteq Int /\ 0 \in Byte /\ 1 \in Byte
  BY SMT DEF Byte
<1>2. ASSUME NEW b \in Seq(Byte) PROVE b \in Seq(Int)
  <2>1. Len(b) \in Nat /\ b \in [1 .. Len(b) -> Byte]
    OBVIOUS
  <2>2. b \in [1 .. Len(b) -> Int]
    BY <1>1, <2>1
  <2> QED
    BY <2>1, <2>2, SMT
<1>3. /\ <<0>> \in Seq(Byte) /\ Len(<<0>>) = 1
      /\ <<1>> \in Seq(Byte) /\ Len(<<1>>) = 1
  BY <1>1
<1> QED
  BY <1>2, <1>3, Constants DEF Refused, Applied

LEMMA RemovedEntries ==
    ASSUME NEW S, NEW s \in Seq(S), NEW i \in DOMAIN s
    PROVE  /\ RemoveAt(s, i) \in Seq(S)
           /\ Len(RemoveAt(s, i)) = Len(s) - 1
           /\ \A j \in 1 .. Len(s) - 1 :
                RemoveAt(s, i)[j] = IF j < i THEN s[j] ELSE s[j + 1]
<1> DEFINE front == SubSeq(s, 1, i - 1)
           rest == SubSeq(s, i + 1, Len(s))
<1>1. i \in 1 .. Len(s) /\ Len(s) \in Nat
  OBVIOUS
<1>2. /\ front \in Seq(S) /\ Len(front) = i - 1
      /\ \A j \in 1 .. i - 1 : front[j] = s[j]
  <2>1. \A j \in 1 .. i - 1 : s[j] \in S
    BY <1>1
  <2> QED
    BY <1>1, <2>1, SubSeqProperties
<1>3. /\ rest \in Seq(S) /\ Len(rest) = Len(s) - i
      /\ \A j \in 1 .. Len(s) - i : rest[j] = s[i + j]
  <2>1. \A j \in i + 1 .. Len(s) : s[j] \in S
    BY <1>1
  <2>2. /\ rest \in Seq(S)
        /\ Len(rest) = IF i + 1 <= Len(s) THEN Len(s) - (i + 1) + 1 ELSE 0
        /\ \A j \in 1 .. Len(s) - (i + 1) + 1 : rest[j] = s[(i + 1) + j - 1]
    BY <1>1, <2>1, SubSeqProperties
  <2> QED
    BY <1>1, <2>2, SMT
<1> HIDE DEF front, rest
<1>4. /\ front \o rest \in Seq(S)
      /\ Len(front \o rest) = Len(front) + Len(rest)
      /\ \A j \in 1 .. Len(front) + Len(rest) :
           (front \o rest)[j] = IF j <= Len(front) THEN front[j] ELSE rest[j - Len(front)]
  BY <1>2, <1>3, ConcatProperties, Zenon
<1>5. \A j \in 1 .. Len(s) - 1 :
        (front \o rest)[j] = IF j < i THEN s[j] ELSE s[j + 1]
  <2> SUFFICES ASSUME NEW j \in 1 .. Len(s) - 1
               PROVE  (front \o rest)[j] = IF j < i THEN s[j] ELSE s[j + 1]
    OBVIOUS
  <2>1. (front \o rest)[j] = IF j <= i - 1 THEN front[j] ELSE rest[j - (i - 1)]
    <3>1. j \in 1 .. Len(front) + Len(rest)
      BY <1>1, <1>2, <1>3
    <3>2. (front \o rest)[j] = IF j <= Len(front) THEN front[j] ELSE rest[j - Len(front)]
      BY <1>4, <3>1, Zenon
    <3> QED
      BY <1>2, <3>2, Zenon
  <2>2. CASE j < i
    BY <1>1, <1>2, <2>1, <2>2
  <2>3. CASE ~(j < i)
    <3>1. j - (i - 1) \in 1 .. Len(s) - i /\ i + (j - (i - 1)) = j + 1
      BY <1>1, <2>3
    <3> QED
      BY <1>1, <1>3, <2>1, <2>3, <3>1
  <2> QED
    BY <2>2, <2>3
<1>6. RemoveAt(s, i) = front \o rest
  BY DEF RemoveAt, front, rest
<1>7. Len(front) + Len(rest) = Len(s) - 1
  BY <1>1, <1>2, <1>3
<1> QED
  BY <1>4, <1>5, <1>6, <1>7

\* Another call begins: each entry that is left is one call older.
LEMMA AgedEntries ==
    ASSUME InOrder(line)
    PROVE  /\ InOrder(Aged)
           /\ \A j \in DOMAIN Aged : Aged[j].age > 0
           /\ \A j \in DOMAIN Aged : \E k \in DOMAIN line :
                /\ Aged[j].cmd = line[k].cmd /\ Aged[j].bytes = line[k].bytes
                /\ Aged[j].age = line[k].age + 1
           /\ line = <<>> => Aged = <<>>
<1> DEFINE older == [i \in DOMAIN line |-> [line[i] EXCEPT !.age = @ + 1]]
           Wide == [cmd : Reads \cup Writes, age : Nat, bytes : Seq(Byte) \cup {None}]
<1>0. MaxLate \in Nat
  BY Constants
<1>1. /\ line \in Seq(Exchanges) /\ Len(line) \in Nat
      /\ DOMAIN line = 1 .. Len(line)
      /\ \A k \in 1 .. Len(line) :
           /\ line[k] \in Exchanges /\ line[k].age \in Nat /\ line[k].age <= MaxLate
           /\ line[k].cmd \in Reads \cup Writes /\ line[k].bytes \in Seq(Byte) \cup {None}
      /\ \A k \in 2 .. Len(line) : line[k].age < line[1].age
  <2>1. /\ line \in Seq(Exchanges) /\ Len(line) \in Nat
        /\ DOMAIN line = 1 .. Len(line)
        /\ \A i, j \in DOMAIN line : i < j => line[i].age > line[j].age
    BY DEF InOrder
  <2>2. \A k \in 1 .. Len(line) : line[k] \in Exchanges
    BY <2>1
  <2>3. \A k \in 1 .. Len(line) :
          /\ line[k].age \in Nat /\ line[k].age <= MaxLate
          /\ line[k].cmd \in Reads \cup Writes /\ line[k].bytes \in Seq(Byte) \cup {None}
    BY <1>0, <2>2 DEF Exchanges
  <2>4. \A k \in 2 .. Len(line) : line[k].age < line[1].age
    BY <2>1, <2>3
  <2> QED
    BY <2>1, <2>2, <2>3, <2>4
<1>2. /\ older \in Seq(Wide) /\ Len(older) = Len(line)
      /\ \A k \in 1 .. Len(line) :
           /\ older[k].cmd = line[k].cmd /\ older[k].bytes = line[k].bytes
           /\ older[k].age = line[k].age + 1
  <2>1. ASSUME NEW k \in 1 .. Len(line)
        PROVE  /\ older[k] \in Wide
               /\ older[k].cmd = line[k].cmd /\ older[k].bytes = line[k].bytes
               /\ older[k].age = line[k].age + 1
    <3>1. line[k] \in Exchanges /\ line[k].age \in Nat
      BY <1>1
    <3>2. older[k] = [line[k] EXCEPT !.age = line[k].age + 1]
      BY <1>1
    <3> HIDE DEF older
    <3>3. line[k].age + 1 \in Nat
      BY <3>1, SMT
    <3> QED
      BY <3>1, <3>2, <3>3 DEF Exchanges
  <2>2. older \in [1 .. Len(line) -> Wide]
    <3>1. DOMAIN older = 1 .. Len(line) /\ older = [k \in 1 .. Len(line) |-> older[k]]
      BY <1>1
    <3> HIDE DEF older
    <3> QED
      BY <2>1, <3>1
  <2> HIDE DEF older
  <2> HIDE DEF Wide
  <2>3. older \in Seq(Wide) /\ Len(older) = Len(line)
    <3>1. PICK n \in Nat : n = Len(line)
      BY <1>1
    <3>2. older \in [1 .. n -> Wide]
      BY <2>2, <3>1
    <3> QED
      BY <3>1, <3>2
  <2> QED
    BY <2>1, <2>3
<1>3. PICK d \in {0, 1} :
        /\ Aged = IF d = 1 THEN Tail(older) ELSE older
        /\ d = 1 => line # <<>>
        /\ d = 0 => line = <<>> \/ line[1].age # MaxLate
  BY DEF Aged
<1> HIDE DEF older
<1>4. /\ Aged \in Seq(Wide) /\ Len(Aged) = Len(line) - d
      /\ \A j \in 1 .. Len(Aged) : j + d \in 1 .. Len(line) /\ Aged[j] = older[j + d]
  <2>1. CASE d = 0
    BY <2>1, <1>1, <1>2, <1>3
  <2>2. CASE d = 1
    <3>1. line # <<>> /\ older # <<>> /\ Len(line) >= 1
      BY <2>2, <1>1, <1>2, <1>3
    <3>2. /\ Tail(older) \in Seq(Wide) /\ Len(Tail(older)) = Len(older) - 1
          /\ \A j \in 1 .. Len(Tail(older)) : Tail(older)[j] = older[j + 1]
      BY <1>2, <3>1, HeadTailProperties
    <3> QED
      BY <2>2, <1>1, <1>2, <1>3, <3>1, <3>2
  <2> QED
    BY <1>3, <2>1, <2>2
<1>5. \A j \in 1 .. Len(Aged) :
        /\ j + d \in 1 .. Len(line)
        /\ Aged[j].cmd = line[j + d].cmd /\ Aged[j].bytes = line[j + d].bytes
        /\ Aged[j].age = line[j + d].age + 1
  BY <1>2, <1>4
<1>6. \A j \in 1 .. Len(Aged) : Aged[j].age \in 1 .. MaxLate
  <2> SUFFICES ASSUME NEW j \in 1 .. Len(Aged)
               PROVE  Aged[j].age \in 1 .. MaxLate
    OBVIOUS
  <2>1. PICK k \in 1 .. Len(line) : k = j + d /\ Aged[j].age = line[k].age + 1
    BY <1>5
  <2>2. j \in Nat /\ j >= 1 /\ line[k].age \in Nat /\ line[1].age \in Nat
    BY <1>1, <1>4, <2>1
  <2>3. line[k].age < MaxLate
    <3>1. CASE k = 1
      <4>1. d = 0 /\ line # <<>>
        BY <1>1, <2>1, <2>2, <3>1
      <4> QED
        BY <1>0, <1>1, <1>3, <2>2, <3>1, <4>1
    <3>2. CASE k # 1
      BY <1>0, <1>1, <2>1, <2>2, <3>2
    <3> QED
      BY <3>1, <3>2
  <2> QED
    BY <1>0, <2>1, <2>2, <2>3
<1>7. Aged \in Seq(Exchanges) /\ DOMAIN Aged = 1 .. Len(Aged)
  <2>1. \A j \in 1 .. Len(Aged) : Aged[j] \in Wide /\ Aged[j].age \in 0 .. MaxLate
    <3> HIDE DEF Wide
    <3>1. \A j \in 1 .. Len(Aged) : Aged[j] \in Wide
      BY <1>4, ElementOfSeq
    <3>2. 1 .. MaxLate \subseteq 0 .. MaxLate
      BY <1>0
    <3> QED
      BY <1>6, <3>1, <3>2, Zenon
  <2>2. \A j \in 1 .. Len(Aged) : Aged[j] \in Exchanges
    BY <2>1 DEF Exchanges
  <2> HIDE DEF Wide
  <2>3. /\ Len(Aged) \in Nat /\ DOMAIN Aged = 1 .. Len(Aged)
        /\ Aged \in [1 .. Len(Aged) -> Wide]
    BY <1>4, LenProperties
  <2>4. Aged \in [1 .. Len(Aged) -> Exchanges]
    BY <2>2, <2>3
  <2> QED
    BY <2>3, <2>4, SMT
<1>8. InOrder(Aged)
  <2>1. ASSUME NEW i \in DOMAIN Aged, NEW j \in DOMAIN Aged, i < j
        PROVE  /\ Aged[i].age > Aged[j].age
               /\ Aged[j].bytes # None => Aged[i].bytes # None
    <3>1. PICK m \in DOMAIN line :
            m = i + d /\ Aged[i].age = line[m].age + 1 /\ Aged[i].bytes = line[m].bytes
      BY <1>1, <1>5, <1>7
    <3>2. PICK n \in DOMAIN line :
            n = j + d /\ Aged[j].age = line[n].age + 1 /\ Aged[j].bytes = line[n].bytes
      BY <1>1, <1>5, <1>7
    <3>3. m < n
      BY <1>1, <1>7, <2>1, <3>1, <3>2
    <3>4. /\ line[m].age > line[n].age
          /\ line[n].bytes # None => line[m].bytes # None
      BY <3>3 DEF InOrder
    <3> QED
      BY <1>1, <3>1, <3>2, <3>4
  <2>2. ASSUME NEW i \in DOMAIN Aged, Aged[i].cmd \in Writes, Aged[i].bytes # None
        PROVE  Len(Aged[i].bytes) = 1
    <3>1. PICK m \in DOMAIN line : Aged[i].cmd = line[m].cmd /\ Aged[i].bytes = line[m].bytes
      BY <1>1, <1>5, <1>7
    <3> QED
      BY <2>2, <3>1 DEF InOrder
  <2> QED
    BY <1>7, <2>1, <2>2 DEF InOrder
<1>9. line = <<>> => Aged = <<>>
  <2>1. ASSUME line = <<>> PROVE Aged = <<>>
    <3>1. Len(line) = 0
      BY <2>1
    <3>2. d = 0 /\ Len(Aged) = 0
      BY <2>1, <1>3, <1>4, <3>1
    <3> QED
      BY <1>7, <3>2
  <2> QED
    BY <2>1
<1>10. \A j \in DOMAIN Aged : \E k \in DOMAIN line :
         /\ Aged[j].cmd = line[k].cmd /\ Aged[j].bytes = line[k].bytes
         /\ Aged[j].age = line[k].age + 1
  BY <1>1, <1>5, <1>7
<1>11. \A j \in DOMAIN Aged : Aged[j].age > 0
  BY <1>0, <1>6, <1>7
<1> QED
  BY <1>8, <1>9, <1>10, <1>11

New(cmd) == [cmd |-> cmd, age |-> 0, bytes |-> None]

\* A request is the last entry of the line, and the only one of age 0.
LEMMA SendEntries ==
    ASSUME OrderInv, NEW cmd \in Reads \cup Writes, SendCommand(cmd)
    PROVE  /\ OrderInv'
           /\ buffer' = <<>> /\ waiting' = TRUE /\ motor' = motor
           /\ \A i \in DOMAIN line' :
                \/ line'[i] = New(cmd)
                \/ \E k \in DOMAIN line :
                     /\ line'[i].cmd = line[k].cmd /\ line'[i].bytes = line[k].bytes
                     /\ line'[i].age = line[k].age + 1 /\ line'[i].age > 0
           /\ line = <<>> => \A i \in DOMAIN line' : line'[i] = New(cmd)
<1>1. /\ line' = Append(Aged, New(cmd))
      /\ buffer' = <<>> /\ waiting' = TRUE /\ motor' = motor
  BY DEF SendCommand, New
<1>2. /\ InOrder(Aged)
      /\ \A j \in DOMAIN Aged : Aged[j].age > 0
      /\ \A j \in DOMAIN Aged : \E k \in DOMAIN line :
           /\ Aged[j].cmd = line[k].cmd /\ Aged[j].bytes = line[k].bytes
           /\ Aged[j].age = line[k].age + 1
      /\ line = <<>> => Aged = <<>>
  BY AgedEntries DEF OrderInv
<1>3. /\ New(cmd) \in Exchanges /\ New(cmd).age = 0
      /\ New(cmd).bytes = None /\ New(cmd).cmd = cmd
  BY Constants DEF New, Exchanges
<1>4. /\ Aged \in Seq(Exchanges) /\ Len(Aged) \in Nat /\ DOMAIN Aged = 1 .. Len(Aged)
  BY <1>2 DEF InOrder
<1>5. /\ line' \in Seq(Exchanges) /\ DOMAIN line' = 1 .. Len(Aged) + 1
      /\ \A i \in 1 .. Len(Aged) : line'[i] = Aged[i]
      /\ line'[Len(Aged) + 1] = New(cmd)
  BY <1>1, <1>3, <1>4, AppendProperties
<1>6. \A i \in DOMAIN line' : (i \in DOMAIN Aged /\ line'[i] = Aged[i]) \/ line'[i] = New(cmd)
  BY <1>4, <1>5
<1>7. InOrder(line')
  <2>1. ASSUME NEW i \in DOMAIN line', NEW j \in DOMAIN line', i < j
        PROVE  /\ line'[i].age > line'[j].age
               /\ line'[j].bytes # None => line'[i].bytes # None
    <3>1. i \in DOMAIN Aged /\ line'[i] = Aged[i] /\ Aged[i].age > 0
      BY <1>2, <1>4, <1>5, <2>1
    <3>2. CASE j \in DOMAIN Aged
      <4>1. line'[j] = Aged[j]
        BY <1>4, <1>5, <3>2
      <4> QED
        BY <1>2, <2>1, <3>1, <3>2, <4>1 DEF InOrder
    <3>3. CASE j \notin DOMAIN Aged
      BY <1>3, <1>4, <1>5, <1>6, <3>1, <3>3
    <3> QED
      BY <3>2, <3>3
  <2>2. \A i \in DOMAIN line' :
          line'[i].cmd \in Writes /\ line'[i].bytes # None => Len(line'[i].bytes) = 1
    BY <1>2, <1>3, <1>6 DEF InOrder
  <2> QED
    BY <1>5, <2>1, <2>2 DEF InOrder
<1>8. Older(buffer', line')
  BY <1>1 DEF Older
<1>9. ASSUME line = <<>>, NEW i \in DOMAIN line'
      PROVE  line'[i] = New(cmd)
  BY <1>2, <1>4, <1>6, <1>9
<1>10. OrderInv'
  BY <1>7, <1>8 DEF OrderInv
<1> QED
  BY <1>1, <1>2, <1>6, <1>9, <1>10

\* An entry is lost, and nothing else changes.
LEMMA LoseEntries ==
    ASSUME OrderInv, Lose
    PROVE  /\ OrderInv'
           /\ buffer' = buffer /\ waiting' = waiting /\ motor' = motor
           /\ \A i \in DOMAIN line' : \E k \in DOMAIN line : line'[i] = line[k]
<1>1. PICK m \in DOMAIN line : line' = RemoveAt(line, m)
  BY DEF Lose
<1>2. buffer' = buffer /\ waiting' = waiting /\ motor' = motor
  BY DEF Lose
<1>3. line \in Seq(Exchanges) /\ Len(line) \in Nat /\ DOMAIN line = 1 .. Len(line)
  BY DEF OrderInv, InOrder
<1>4. /\ line' \in Seq(Exchanges) /\ Len(line') = Len(line) - 1
      /\ \A j \in 1 .. Len(line) - 1 : line'[j] = IF j < m THEN line[j] ELSE line[j + 1]
  BY <1>1, <1>3, RemovedEntries
<1>5. DOMAIN line' = 1 .. Len(line) - 1
  BY <1>3, <1>4
<1>6. \A j \in DOMAIN line' : \E k \in DOMAIN line :
        line'[j] = line[k] /\ k = IF j < m THEN j ELSE j + 1
  BY <1>3, <1>4, <1>5
<1>7. InOrder(line')
  <2>1. ASSUME NEW i \in DOMAIN line', NEW j \in DOMAIN line', i < j
        PROVE  /\ line'[i].age > line'[j].age
               /\ line'[j].bytes # None => line'[i].bytes # None
    <3>1. PICK k \in DOMAIN line : line'[i] = line[k] /\ k = IF i < m THEN i ELSE i + 1
      BY <1>6
    <3>2. PICK l \in DOMAIN line : line'[j] = line[l] /\ l = IF j < m THEN j ELSE j + 1
      BY <1>6
    <3>3. k < l
      BY <1>3, <1>5, <2>1, <3>1, <3>2
    <3> QED
      BY <3>1, <3>2, <3>3 DEF OrderInv, InOrder
  <2>2. \A i \in DOMAIN line' :
          line'[i].cmd \in Writes /\ line'[i].bytes # None => Len(line'[i].bytes) = 1
    BY <1>6 DEF OrderInv, InOrder
  <2> QED
    BY <1>4, <2>1, <2>2 DEF InOrder
<1>8. Older(buffer', line')
  BY <1>2, <1>6 DEF OrderInv, Older
<1> QED
  BY <1>2, <1>6, <1>7, <1>8 DEF OrderInv

\* An answer goes from the line to the buffer.
LEMMA ArriveEntries ==
    ASSUME OrderInv, Arrive
    PROVE  /\ OrderInv'
           /\ waiting' = waiting /\ motor' = motor
           /\ \A i \in DOMAIN line' : \E k \in DOMAIN line : line'[i] = line[k]
           /\ \A i \in DOMAIN buffer' :
                \/ \E k \in DOMAIN buffer : buffer'[i] = buffer[k]
                \/ \E k \in DOMAIN line :
                     /\ line[k].bytes # None
                     /\ buffer'[i].bytes = line[k].bytes /\ buffer'[i].age = line[k].age
           /\ line # <<>>
<1> DEFINE answer == [bytes |-> line[1].bytes, age |-> line[1].age]
<1>1. /\ line # <<>> /\ line[1].bytes # None
      /\ buffer' = Append(buffer, answer)
      /\ line' = Tail(line)
      /\ waiting' = waiting /\ motor' = motor
  BY DEF Arrive
<1>2. /\ line \in Seq(Exchanges) /\ Len(line) \in Nat /\ Len(line) >= 1
      /\ DOMAIN line = 1 .. Len(line)
  BY <1>1 DEF OrderInv, InOrder
<1>3. answer \in Answers /\ answer.age = line[1].age /\ answer.bytes = line[1].bytes
  <2>1. line[1] \in Exchanges
    BY <1>2
  <2> QED
    BY <1>1, <2>1 DEF Exchanges, Answers
<1> HIDE DEF answer
<1>4. /\ line' \in Seq(Exchanges) /\ Len(line') = Len(line) - 1
      /\ \A j \in 1 .. Len(line') : line'[j] = line[j + 1]
  BY <1>1, <1>2, HeadTailProperties
<1>5. DOMAIN line' = 1 .. Len(line) - 1
  BY <1>2, <1>4
<1>6. \A j \in DOMAIN line' : \E k \in DOMAIN line : line'[j] = line[k] /\ k = j + 1
  BY <1>2, <1>4, <1>5
<1>7. /\ buffer \in Seq(Answers) /\ Len(buffer) \in Nat /\ DOMAIN buffer = 1 .. Len(buffer)
  BY DEF OrderInv, Older
<1>8. /\ buffer' \in Seq(Answers) /\ DOMAIN buffer' = 1 .. Len(buffer) + 1
      /\ \A i \in 1 .. Len(buffer) : buffer'[i] = buffer[i]
      /\ buffer'[Len(buffer) + 1] = answer
  BY <1>1, <1>3, <1>7, AppendProperties
<1>9. InOrder(line')
  <2>1. ASSUME NEW i \in DOMAIN line', NEW j \in DOMAIN line', i < j
        PROVE  /\ line'[i].age > line'[j].age
               /\ line'[j].bytes # None => line'[i].bytes # None
    <3>1. PICK k \in DOMAIN line : line'[i] = line[k] /\ k = i + 1
      BY <1>6
    <3>2. PICK l \in DOMAIN line : line'[j] = line[l] /\ l = j + 1
      BY <1>6
    <3>3. k < l
      BY <1>2, <1>5, <2>1, <3>1, <3>2
    <3> QED
      BY <3>1, <3>2, <3>3 DEF OrderInv, InOrder
  <2>2. \A i \in DOMAIN line' :
          line'[i].cmd \in Writes /\ line'[i].bytes # None => Len(line'[i].bytes) = 1
    BY <1>6 DEF OrderInv, InOrder
  <2> QED
    BY <1>4, <2>1, <2>2 DEF InOrder
<1>10. Older(buffer', line')
  <2>1. ASSUME NEW i \in DOMAIN buffer', NEW j \in DOMAIN buffer', i < j
        PROVE  buffer'[i].age > buffer'[j].age
    <3>1. i \in DOMAIN buffer /\ buffer'[i] = buffer[i]
      BY <1>7, <1>8, <2>1
    <3>2. CASE j \in DOMAIN buffer
      BY <1>7, <1>8, <2>1, <3>1, <3>2 DEF OrderInv, Older
    <3>3. CASE j \notin DOMAIN buffer
      <4>1. buffer'[j] = answer
        BY <1>7, <1>8, <3>3
      <4>2. 1 \in DOMAIN line
        BY <1>2
      <4> QED
        BY <1>3, <3>1, <4>1, <4>2 DEF OrderInv, Older
    <3> QED
      BY <3>2, <3>3
  <2>2. ASSUME NEW i \in DOMAIN buffer', NEW j \in DOMAIN line'
        PROVE  buffer'[i].age > line'[j].age
    <3>1. PICK k \in DOMAIN line : line'[j] = line[k] /\ k = j + 1
      BY <1>6
    <3>2. CASE i \in DOMAIN buffer
      BY <1>7, <1>8, <3>1, <3>2 DEF OrderInv, Older
    <3>3. CASE i \notin DOMAIN buffer
      <4>1. buffer'[i] = answer
        BY <1>7, <1>8, <3>3
      <4>2. 1 \in DOMAIN line /\ 1 < k
        BY <1>2, <1>5, <3>1
      <4> QED
        BY <1>3, <3>1, <4>1, <4>2 DEF OrderInv, InOrder
    <3> QED
      BY <3>2, <3>3
  <2> QED
    BY <1>8, <2>1, <2>2 DEF Older
<1>11. \A i \in DOMAIN buffer' :
         \/ \E k \in DOMAIN buffer : buffer'[i] = buffer[k]
         \/ \E k \in DOMAIN line :
              /\ line[k].bytes # None
              /\ buffer'[i].bytes = line[k].bytes /\ buffer'[i].age = line[k].age
  <2>1. 1 \in DOMAIN line
    BY <1>2
  <2> QED
    BY <1>1, <1>3, <1>7, <1>8, <2>1
<1>12. \A i \in DOMAIN line' : \E k \in DOMAIN line : line'[i] = line[k]
  BY <1>6
<1> QED
  BY <1>1, <1>9, <1>10, <1>11, <1>12 DEF OrderInv

\* A call returns.  If it has an answer that is its own, nothing is on its way.
LEMMA ReturnEntries ==
    ASSUME OrderInv, NEW f, Returns(f)
    PROVE  /\ OrderInv'
           /\ waiting' = FALSE /\ motor' = motor
           /\ \A i \in DOMAIN line' : \E k \in DOMAIN line :
                /\ line'[i].cmd = line[k].cmd
                /\ waiting => line'[i] = line[k]
                /\ ~waiting => line'[i].age > 0
           /\ line = <<>> => line' = <<>>
           /\ f # None =>
                /\ waiting
                /\ f \in Answers
                /\ \E k \in DOMAIN buffer : f = buffer[k]
                /\ f.age = 0 => line' = <<>>
<1>1. waiting' = FALSE /\ motor' = motor
  BY DEF Returns
<1>2. CASE ~waiting /\ f = None /\ buffer' = <<>> /\ line' = Aged
  <2>1. /\ InOrder(Aged)
        /\ \A j \in DOMAIN Aged : Aged[j].age > 0
        /\ \A j \in DOMAIN Aged : \E k \in DOMAIN line : Aged[j].cmd = line[k].cmd
        /\ line = <<>> => Aged = <<>>
    BY AgedEntries DEF OrderInv
  <2>2. Older(buffer', line')
    BY <1>2 DEF Older
  <2> QED
    BY <1>1, <1>2, <2>1, <2>2 DEF OrderInv
<1>3. CASE waiting /\ buffer = <<>> /\ f = None /\ UNCHANGED <<buffer, line>>
  BY <1>1, <1>3 DEF OrderInv
<1>4. CASE waiting /\ buffer # <<>> /\ f = Head(buffer) /\ buffer' = Tail(buffer)
             /\ line' = line
  <2>1. /\ buffer \in Seq(Answers) /\ Len(buffer) \in Nat /\ Len(buffer) >= 1
        /\ DOMAIN buffer = 1 .. Len(buffer)
    BY <1>4 DEF OrderInv, Older
  <2>2. /\ buffer' \in Seq(Answers) /\ Len(buffer') = Len(buffer) - 1
        /\ \A j \in 1 .. Len(buffer') : buffer'[j] = buffer[j + 1]
    BY <1>4, <2>1, HeadTailProperties
  <2>3. DOMAIN buffer' = 1 .. Len(buffer) - 1
    BY <2>1, <2>2
  <2>4. \A j \in DOMAIN buffer' : \E k \in DOMAIN buffer :
          buffer'[j] = buffer[k] /\ k = j + 1
    BY <2>1, <2>2, <2>3
  <2>5. ASSUME NEW i \in DOMAIN buffer', NEW j \in DOMAIN buffer', i < j
        PROVE  buffer'[i].age > buffer'[j].age
    <3>1. PICK k \in DOMAIN buffer : buffer'[i] = buffer[k] /\ k = i + 1
      BY <2>4
    <3>2. PICK l \in DOMAIN buffer : buffer'[j] = buffer[l] /\ l = j + 1
      BY <2>4
    <3>3. k < l
      BY <2>1, <2>3, <2>5, <3>1, <3>2
    <3> QED
      BY <3>1, <3>2, <3>3 DEF OrderInv, Older
  <2>6. OrderInv'
    BY <1>4, <2>2, <2>4, <2>5 DEF OrderInv, Older
  <2>7. f = buffer[1] /\ 1 \in DOMAIN buffer /\ f \in Answers
    BY <1>4, <2>1
  <2>8. ASSUME f.age = 0 PROVE line = <<>>
    <3>1. ASSUME line # <<>> PROVE FALSE
      <4>1. line \in Seq(Exchanges) /\ 1 \in DOMAIN line
        BY <3>1 DEF OrderInv, InOrder
      <4>2. line[1] \in Exchanges /\ MaxLate \in Nat
        BY <4>1, Constants
      <4>3. line[1].age \in Nat
        BY <4>2 DEF Exchanges
      <4> QED
        BY <2>7, <2>8, <4>1, <4>3 DEF OrderInv, Older
    <3> QED
      BY <3>1
  <2> QED
    BY <1>1, <1>4, <2>6, <2>7, <2>8
<1> QED
  BY <1>2, <1>3, <1>4 DEF Returns

\* The motor serves an entry, and the motor's state changes only by a write.
LEMMA ServeEntries ==
    ASSUME OrderInv, motor \in MotorStates, Serve
    PROVE  /\ OrderInv' /\ motor' \in MotorStates
           /\ buffer' = buffer /\ waiting' = waiting
           /\ DOMAIN line' = DOMAIN line
           /\ \E i \in DOMAIN line :
                /\ line[i].bytes = None
                /\ \A j \in DOMAIN line : j # i => line'[j] = line[j]
                /\ line'[i].cmd = line[i].cmd /\ line'[i].age = line[i].age
                /\ \/ /\ line[i].cmd \in Reads
                      /\ line'[i].bytes = Answer(line[i].cmd.reg)
                      /\ motor' = motor
                   \/ /\ line[i].cmd \in Writes
                      /\ line'[i].bytes = Applied
                      /\ Apply(line[i].cmd.reg, line[i].cmd.value)
                   \/ line'[i].bytes = Refused /\ motor' = motor
<1>1. PICK i \in DOMAIN line :
        /\ line[i].bytes = None
        /\ \A j \in 1 .. i - 1 : line[j].bytes # None
        /\ \E bytes :
             /\ line' = [line EXCEPT ![i].bytes = bytes]
             /\ \/ /\ line[i].cmd.value = None /\ bytes = Answer(line[i].cmd.reg)
                   /\ motor' = motor
                \/ /\ line[i].cmd.value # None /\ bytes = <<1>>
                   /\ Apply(line[i].cmd.reg, line[i].cmd.value)
                \/ bytes = <<0>> /\ motor' = motor
  BY DEF Serve
<1>2. PICK bytes :
        /\ line' = [line EXCEPT ![i].bytes = bytes]
        /\ \/ /\ line[i].cmd.value = None /\ bytes = Answer(line[i].cmd.reg)
              /\ motor' = motor
           \/ /\ line[i].cmd.value # None /\ bytes = Applied
              /\ Apply(line[i].cmd.reg, line[i].cmd.value)
           \/ bytes = Refused /\ motor' = motor
  BY <1>1 DEF Applied, Refused
<1>3. /\ line \in Seq(Exchanges) /\ Len(line) \in Nat /\ DOMAIN line = 1 .. Len(line)
      /\ line[i] \in Exchanges
  BY DEF OrderInv, InOrder
<1>4. line[i].cmd \in Reads \/ line[i].cmd \in Writes
  BY <1>3 DEF Exchanges
<1>5. /\ line[i].cmd \in Reads => line[i].cmd.value = None
      /\ line[i].cmd \in Writes => line[i].cmd.value # None
  <2>1. ASSUME line[i].cmd \in Writes PROVE line[i].cmd.value # None
    <3>1. line[i].cmd.value \in Int
      <4>1. Word16 \subseteq Int
        BY DEF Word16
      <4> HIDE DEF Word16
      <4> QED
        BY <2>1, <4>1 DEF Writes, Write
    <3> QED
      BY <3>1, Constants
  <2> QED
    BY <2>1 DEF Reads, Read
<1>6. \/ /\ line[i].cmd \in Reads /\ bytes = Answer(line[i].cmd.reg) /\ motor' = motor
      \/ /\ line[i].cmd \in Writes /\ bytes = Applied
         /\ Apply(line[i].cmd.reg, line[i].cmd.value)
      \/ bytes = Refused /\ motor' = motor
  BY <1>2, <1>4, <1>5
<1>7. motor' \in MotorStates
  BY <1>6, ApplyMotor
<1>8. /\ bytes \in Seq(Byte) /\ bytes # None
      /\ line[i].cmd \in Writes => Len(bytes) = 1
  <2>1. bytes \in Seq(Byte)
    BY <1>6, AnswerBytes, NoneIsNoAnswer
  <2>2. ASSUME line[i].cmd \in Writes PROVE bytes \in {Applied, Refused}
    BY <1>2, <1>5, <2>2
  <2> QED
    BY <2>1, <2>2, NoneIsNoAnswer
<1>9. /\ [line[i] EXCEPT !.bytes = bytes] \in Exchanges
      /\ [line[i] EXCEPT !.bytes = bytes].bytes = bytes
      /\ [line[i] EXCEPT !.bytes = bytes].cmd = line[i].cmd
      /\ [line[i] EXCEPT !.bytes = bytes].age = line[i].age
  BY <1>3, <1>8 DEF Exchanges
<1>10. /\ line' \in Seq(Exchanges) /\ DOMAIN line' = DOMAIN line
       /\ line'[i] = [line[i] EXCEPT !.bytes = bytes]
       /\ \A j \in DOMAIN line : j # i => line'[j] = line[j]
  <2>1. line' = [line EXCEPT ![i] = [line[i] EXCEPT !.bytes = bytes]]
    BY <1>2
  <2> QED
    BY <1>3, <1>9, <2>1, ExceptSeq
<1>11. InOrder(line')
  <2>1. ASSUME NEW k \in DOMAIN line', NEW l \in DOMAIN line', k < l
        PROVE  /\ line'[k].age > line'[l].age
               /\ line'[l].bytes # None => line'[k].bytes # None
    <3>1. line'[k].age = line[k].age /\ line'[l].age = line[l].age
      BY <1>9, <1>10
    <3>2. line[k].age > line[l].age
      BY <1>10, <2>1 DEF OrderInv, InOrder
    <3>3. CASE k = i
      BY <1>8, <1>9, <1>10, <3>1, <3>2, <3>3
    <3>4. CASE k # i /\ l # i
      BY <1>10, <2>1, <3>1, <3>2, <3>4 DEF OrderInv, InOrder
    <3>5. CASE k # i /\ l = i
      <4>1. k \in 1 .. i - 1
        BY <1>3, <1>10, <2>1, <3>5
      <4> QED
        BY <1>1, <1>10, <3>1, <3>2, <3>5, <4>1
    <3> QED
      BY <3>3, <3>4, <3>5
  <2>2. \A k \in DOMAIN line' :
          line'[k].cmd \in Writes /\ line'[k].bytes # None => Len(line'[k].bytes) = 1
    BY <1>8, <1>9, <1>10 DEF OrderInv, InOrder
  <2> QED
    BY <1>10, <2>1, <2>2 DEF InOrder
<1>12. buffer' = buffer /\ waiting' = waiting
  BY DEF Serve
<1>13. Older(buffer', line')
  <2>1. \A j \in DOMAIN line' : j \in DOMAIN line /\ line'[j].age = line[j].age
    BY <1>9, <1>10
  <2> QED
    BY <1>12, <2>1 DEF OrderInv, Older
<1> QED
  BY <1>1, <1>6, <1>7, <1>9, <1>10, <1>11, <1>12, <1>13 DEF OrderInv

-----------------------------------------------------------------------------
(* The frames of the call in progress *)

LEMMA ReadsAreNoWrites ==
    ASSUME NEW cmd \in Reads
    PROVE  cmd \notin Writes
<1>1. cmd.value = None
  BY DEF Reads, Read
<1>2. ASSUME cmd \in Writes PROVE cmd.value \in Int
  <2>1. Word16 \subseteq Int
    BY DEF Word16
  <2> HIDE DEF Word16
  <2> QED
    BY <1>2, <2>1 DEF Writes, Write
<1> QED
  BY <1>1, <1>2, Constants

LEMMA AgesAreNumbers ==
    ASSUME OrderInv
    PROVE  /\ \A i \in DOMAIN line : line[i] \in Exchanges /\ line[i].age \in Nat
           /\ \A i \in DOMAIN buffer : buffer[i] \in Answers /\ buffer[i].age \in Nat
<1>1. MaxLate \in Nat
  BY Constants
<1>2. \A i \in DOMAIN line : line[i] \in Exchanges
  BY DEF OrderInv, InOrder
<1>3. \A i \in DOMAIN buffer : buffer[i] \in Answers
  BY DEF OrderInv, Older
<1> QED
  BY <1>1, <1>2, <1>3 DEF Exchanges, Answers

\* Once the motor has served the call's own request, it has nothing to serve.
LEMMA ServeOwn ==
    ASSUME OrderInv, motor \in MotorStates, Serve,
           NEW cmd, NEW answers, NEW new, Own(cmd, answers),
           Refused \in new,
           cmd \in Reads /\ motor' = motor => Answer(cmd.reg) \in new,
           cmd \in Writes /\ Apply(cmd.reg, cmd.value) => Applied \in new
    PROVE  OwnFrames(line', buffer', cmd, new)
<1>1. PICK i \in DOMAIN line :
        /\ line[i].bytes = None
        /\ \A j \in DOMAIN line : j # i => line'[j] = line[j]
        /\ line'[i].cmd = line[i].cmd /\ line'[i].age = line[i].age
        /\ \/ /\ line[i].cmd \in Reads
              /\ line'[i].bytes = Answer(line[i].cmd.reg)
              /\ motor' = motor
           \/ /\ line[i].cmd \in Writes
              /\ line'[i].bytes = Applied
              /\ Apply(line[i].cmd.reg, line[i].cmd.value)
           \/ line'[i].bytes = Refused /\ motor' = motor
  BY ServeEntries
<1>2. DOMAIN line' = DOMAIN line /\ buffer' = buffer
  BY ServeEntries
<1>3. line[i].age \in Nat /\ line[i] \in Exchanges
  BY AgesAreNumbers
<1>4. ASSUME NEW j \in DOMAIN line, line'[j].age = 0
      PROVE  line'[j].cmd = cmd /\ line'[j].bytes \in new \cup {None}
  <2>1. CASE j = i
    <3>1. line[i].cmd = cmd
      BY <1>1, <1>4, <2>1 DEF Own, OwnFrames
    <3> QED
      BY <1>1, <2>1, <3>1
  <2>2. CASE j # i
    <3>1. line'[j] = line[j]
      BY <1>1, <2>2
    <3>2. line[j].cmd = cmd
      BY <1>4, <3>1 DEF Own, OwnFrames
    <3>3. DOMAIN line \subseteq Int
      BY DEF OrderInv, InOrder
    <3>4. i < j
      BY <1>3, <1>4, <2>2, <3>1, <3>3 DEF OrderInv, InOrder
    <3>5. line[j].bytes = None
      BY <1>1, <3>4 DEF OrderInv, InOrder
    <3> QED
      BY <3>1, <3>2, <3>5
  <2> QED
    BY <2>1, <2>2
<1>5. ASSUME NEW j \in DOMAIN buffer
      PROVE  buffer[j].age # 0
  BY <1>3, AgesAreNumbers DEF OrderInv, Older
<1> QED
  BY <1>2, <1>4, <1>5 DEF OwnFrames

LEMMA MoveOwn ==
    ASSUME OrderInv, Lose \/ Arrive, NEW cmd, NEW answers, Own(cmd, answers)
    PROVE  OwnFrames(line', buffer', cmd, answers)
<1>1. CASE Lose
  BY <1>1, LoseEntries DEF Own, OwnFrames
<1>2. CASE Arrive
  BY <1>2, ArriveEntries DEF Own, OwnFrames
<1> QED
  BY <1>1, <1>2

LEMMA SendOwn ==
    ASSUME OrderInv, NEW cmd \in Reads \cup Writes, SendCommand(cmd),
           NEW answers
    PROVE  OwnFrames(line', buffer', cmd, answers)
<1>1. buffer' = <<>>
  BY SendEntries
<1>2. \A i \in DOMAIN line' : line'[i] = New(cmd) \/ line'[i].age > 0
  BY SendEntries
<1>3. New(cmd).cmd = cmd /\ New(cmd).bytes = None
  BY DEF New
<1> QED
  BY <1>1, <1>2, <1>3 DEF OwnFrames

\* While the motor meets reads only, its state stays.
LEMMA ReadsMotorStep ==
    ASSUME OrderInv, motor \in MotorStates, OnlyReads,
           Serve \/ Lose \/ Arrive
    PROVE  OnlyReads' /\ motor' = motor
<1>1. CASE Serve
  BY <1>1, ServeEntries, ReadsAreNoWrites DEF OnlyReads
<1>2. CASE Lose
  BY <1>2, LoseEntries DEF OnlyReads
<1>3. CASE Arrive
  BY <1>3, ArriveEntries DEF OnlyReads
<1> QED
  BY <1>1, <1>2, <1>3

LEMMA ReadsCall ==
    ASSUME OrderInv, OnlyReads
    PROVE  /\ \A cmd \in Reads : SendCommand(cmd) => OnlyReads'
           /\ \A f : Returns(f) => OnlyReads'
<1>1. ASSUME NEW cmd \in Reads, SendCommand(cmd) PROVE OnlyReads'
  <2>1. New(cmd).cmd = cmd
    BY DEF New
  <2>2. \A i \in DOMAIN line' :
          line'[i] = New(cmd) \/ \E k \in DOMAIN line : line'[i].cmd = line[k].cmd
    BY <1>1, SendEntries
  <2> QED
    BY <2>1, <2>2 DEF OnlyReads
<1>2. ASSUME NEW f, Returns(f) PROVE OnlyReads'
  BY <1>2, ReturnEntries DEF OnlyReads
<1> QED
  BY <1>1, <1>2

\* No step of the motor brings another call's frame.
LEMMA NoOthersMotorStep ==
    ASSUME OrderInv, motor \in MotorStates, NoOthers,
           Serve \/ Lose \/ Arrive
    PROVE  NoOthers'
<1>1. CASE Serve
  BY <1>1, ServeEntries DEF NoOthers
<1>2. CASE Lose
  BY <1>2, LoseEntries DEF NoOthers
<1>3. CASE Arrive
  BY <1>3, ArriveEntries DEF NoOthers
<1> QED
  BY <1>1, <1>2, <1>3

LEMMA NoOthersSend ==
    ASSUME OrderInv, NEW cmd \in Reads \cup Writes, SendCommand(cmd),
           line = <<>>
    PROVE  NoOthers'
<1>1. buffer' = <<>> /\ \A i \in DOMAIN line' : line'[i] = New(cmd)
  BY SendEntries
<1> QED
  BY <1>1 DEF NoOthers, New

-----------------------------------------------------------------------------
(* Types *)

\* What main sends at each place.
LEMMA Commands ==
    ASSUME ProgramTypes, rpc \notin {"off", "ask", "close"}
    PROVE  /\ NextCommand \in Reads \cup Writes
           /\ rpc \in Early \cup {"hold", "verify", "isOn", "look"} => NextCommand \in Reads
           /\ rpc \in {"status", "verify"} => NextCommand = Read("error")
           /\ rpc \in {"hold", "look"} => NextCommand = Read("position")
           /\ rpc = "isOn" => NextCommand = Read("enable")
           /\ rpc = "low" => NextCommand = Write("low", Low(known.pos))
           /\ rpc = "high" => NextCommand = Write("high", High(known.pos))
           /\ rpc = "enable" => NextCommand = Write("enable", 1)
<1>1. CASE rpc = "ping"
  BY <1>1 DEF NextCommand, Reads
<1>2. CASE rpc \in {"where", "there", "hold", "look"}
  BY <1>2 DEF NextCommand, Reads, Early
<1>3. CASE rpc \in {"status", "recheck", "zeroed", "verify"}
  BY <1>3 DEF NextCommand, Reads, Early
<1>4. CASE rpc \in {"disable", "disableAgain", "clear", "zero", "save", "mode", "enable"}
  BY <1>4 DEF NextCommand, Writes, Early
<1>5. CASE rpc \in {"low", "high"}
  <2>1. Low(known.pos) \in Word16 /\ High(known.pos) \in Word16
    BY <1>5, HalvesAreWords DEF ProgramTypes
  <2>2. /\ rpc = "low" => NextCommand = Write("low", Low(known.pos))
        /\ rpc = "high" => NextCommand = Write("high", High(known.pos))
    BY <1>5 DEF NextCommand
  <2> QED
    BY <1>5, <2>1, <2>2 DEF Writes, Early
<1>6. CASE rpc = "isOn"
  BY <1>6 DEF NextCommand, Reads
<1> QED
  BY <1>1, <1>2, <1>3, <1>4, <1>5, <1>6 DEF ProgramTypes, Places

\* What main reads in an answer.
LEMMA AnswerTypes ==
    ASSUME NEW f, f = None \/ f \in Answers
    PROVE  /\ ErrorIn(f) \in Int \cup {None}
           /\ PositionIn(f) \in Int \cup {None}
           /\ EnabledIn(f) \in BOOLEAN
<1>1. CASE Short(f, 2)
  <2>1. f = None \/ (f.bytes \in Seq(Byte) /\ Len(f.bytes) < 4)
    BY <1>1 DEF Short, Answers
  <2>2. Short(f, 4)
    BY <2>1 DEF Short
  <2> QED
    BY <1>1, <2>2 DEF ErrorIn, PositionIn, EnabledIn
<1>2. CASE ~Short(f, 2)
  <2>1. /\ f.bytes \in Seq(Byte) /\ Len(f.bytes) \in Nat /\ Len(f.bytes) >= 2
        /\ DOMAIN f.bytes = 1 .. Len(f.bytes)
    BY <1>2 DEF Short, Answers
  <2>2. \A i \in 1 .. Len(f.bytes) : f.bytes[i] \in Int
    <3>1. Byte \subseteq Int
      BY DEF Byte
    <3>2. \A i \in 1 .. Len(f.bytes) : f.bytes[i] \in Byte
      BY <2>1, ElementOfSeq
    <3> QED
      BY <3>1, <3>2
  <2>3. Word(f, 1) \in Int
    BY <2>1, <2>2 DEF Word
  <2>4. ASSUME ~Short(f, 4) PROVE Parse32(Word(f, 1), Word(f, 3)) \in Int
    <3>1. Len(f.bytes) >= 4
      BY <2>1, <2>4 DEF Short
    <3>2. Word(f, 3) \in Int
      BY <2>1, <2>2, <3>1 DEF Word
    <3>3. \A low, high \in Int : Parse32(low, high) \in Int
      BY SMT DEF Parse32
    <3> QED
      BY <2>3, <3>2, <3>3
  <2> QED
    BY <1>2, <2>3, <2>4 DEF ErrorIn, PositionIn, EnabledIn
<1> QED
  BY <1>1, <1>2

LEMMA PositionsFit ==
    Angles \subseteq Int32
<1> SUFFICES ASSUME NEW p \in Angles PROVE p \in Int32
  OBVIOUS
<1>1. p \in Int /\ -32768 <= p \div 65536 /\ p \div 65536 < 32768
  BY ControllerAssumption
<1>2. PICK high \in Int : high = p \div 65536
  BY <1>1, SMT
<1>3. 65536 * high <= p /\ p < 65536 * high + 65536
  BY <1>1, <1>2, SMT
<1> QED
  BY <1>1, <1>2, <1>3, SMT DEF Int32

LEMMA BeginTypes ==
    ASSUME TypeInv, BeginRecovery
    PROVE  TypeInv'
<1>1. motor' \in MotorStates
  <2>1. Angles \subseteq Int32 /\ Int32 \subseteq Int
    BY PositionsFit DEF Int32
  <2> HIDE DEF Int32
  <2> QED
    BY <2>1 DEF BeginRecovery, Motors, MotorStates
<1>2. ProgramTypes'
  BY <1>1 DEF TypeInv, ProgramTypes, BeginRecovery, Off, Nothing, Places
<1>3. OrderInv'
  BY DEF TypeInv, OrderInv, BeginRecovery
<1> QED
  BY <1>2, <1>3 DEF TypeInv

LEMMA RequestTypes ==
    ASSUME TypeInv, Request
    PROVE  TypeInv'
<1>1. SendCommand(NextCommand) /\ UNCHANGED programVars /\ rpc \notin {"off", "ask", "close"}
  BY DEF Request
<1>2. NextCommand \in Reads \cup Writes
  BY <1>1, Commands DEF TypeInv
<1>3. OrderInv' /\ waiting' = TRUE /\ motor' = motor
  BY <1>1, <1>2, SendEntries DEF TypeInv
<1>4. ProgramTypes'
  BY <1>1, <1>3 DEF TypeInv, ProgramTypes, programVars
<1> QED
  BY <1>3, <1>4 DEF TypeInv

LEMMA MotorTypes ==
    ASSUME TypeInv, MotorStep
    PROVE  TypeInv'
<1>1. line # <<>>
  <2>1. Serve => line # <<>>
    BY DEF Serve
  <2>2. Lose => line # <<>>
    BY DEF Lose
  <2>3. Arrive => line # <<>>
    BY DEF Arrive
  <2> QED
    BY <2>1, <2>2, <2>3 DEF MotorStep
<1>2. rpc # "off" /\ motor \in MotorStates
  BY <1>1 DEF TypeInv, ProgramTypes, Off
<1>3. OrderInv' /\ motor' \in MotorStates /\ waiting' = waiting
  BY <1>2, ServeEntries, LoseEntries, ArriveEntries DEF MotorStep, TypeInv
<1>4. UNCHANGED programVars
  BY DEF MotorStep
<1>5. ProgramTypes'
  BY <1>2, <1>3, <1>4 DEF TypeInv, ProgramTypes, programVars
<1> QED
  BY <1>3, <1>5 DEF TypeInv

LEMMA AskTypes ==
    ASSUME TypeInv, Ask
    PROVE  TypeInv'
<1>1. motor \in MotorStates /\ ~waiting
  BY DEF TypeInv, ProgramTypes, Ask
<1>2. motor' \in MotorStates
  <2>1. Angles \subseteq Int32
    BY PositionsFit
  <2> QED
    BY <1>1, <2>1 DEF Ask, MotorStates
<1>3. ProgramTypes'
  BY <1>2 DEF TypeInv, ProgramTypes, Ask, Places
<1>4. OrderInv'
  BY DEF TypeInv, OrderInv, Ask
<1> QED
  BY <1>3, <1>4 DEF TypeInv

LEMMA EndTypes ==
    ASSUME EndRecovery
    PROVE  TypeInv'
<1>1. ProgramTypes'
  BY DEF ProgramTypes, EndRecovery, Off, Nothing
<1>2. OrderInv'
  BY DEF EndRecovery, OrderInv, InOrder, Older
<1> QED
  BY <1>1, <1>2 DEF TypeInv

\* A result: its frame, and where main goes.
LEMMA ResultTypes ==
    ASSUME TypeInv, Result
    PROVE  TypeInv'
<1>1. PICK f \in Results : Returns(f) /\ Continue(f)
  BY DEF Result
<1>2. /\ OrderInv' /\ waiting' = FALSE /\ motor' = motor
      /\ f = None \/ f \in Answers
  BY <1>1, ReturnEntries DEF TypeInv
<1>3. /\ ErrorIn(f) \in Int \cup {None} /\ PositionIn(f) \in Int \cup {None}
      /\ EnabledIn(f) \in BOOLEAN
  BY <1>2, AnswerTypes
<1>4. /\ rpc \in Places /\ rpc \notin {"ask", "close"} /\ motor \in MotorStates
      /\ outcome = "none"
      /\ crossed' \in BOOLEAN /\ held' \in BOOLEAN
      /\ firstError' = firstError
  <2>1. held \in BOOLEAN /\ crossed \in BOOLEAN
    BY DEF TypeInv, ProgramTypes
  <2>2. PICK g :
          LET own == IF g = None THEN FALSE ELSE g.age = 0
          IN  held' = CASE rpc = "hold" -> own /\ known'.pos # None
                        [] rpc \in {"low", "high"} -> held /\ own /\ g.bytes = <<1>>
                        [] OTHER -> held
    BY DEF Result
  <2>3. held' \in BOOLEAN
    <3>1. CASE rpc = "hold"
      BY <2>2, <3>1
    <3>2. CASE rpc \in {"low", "high"}
      BY <2>2, <3>2
    <3>3. CASE rpc \notin {"hold", "low", "high"}
      BY <2>1, <2>2, <3>3
    <3> QED
      BY <3>1, <3>2, <3>3
  <2>4. crossed' \in BOOLEAN
    BY <2>1 DEF Result
  <2> QED
    BY <2>3, <2>4 DEF Result, TypeInv, ProgramTypes
<1>5. known \in [error : Int \cup {None}, pos : Int \cup {None}, encoder : BOOLEAN,
                 lost : BOOLEAN, enabled : BOOLEAN]
  BY DEF TypeInv, ProgramTypes
<1>6. /\ known' \in [error : Int \cup {None}, pos : Int \cup {None}, encoder : BOOLEAN,
                     lost : BOOLEAN, enabled : BOOLEAN]
      /\ rpc' \in Places
      /\ rpc' \in {"low", "high"} => known'.pos \in Int
      /\ rpc' # "close" => outcome' = "none"
  <2>1. CASE Ignore(f)
    BY <1>4, <1>5, <2>1 DEF Ignore, Onward, Places, TypeInv, ProgramTypes
  <2>2. CASE Where(f)
    BY <1>3, <1>4, <1>5, <2>2 DEF Where, Places
  <2>3. CASE Status(f)
    <3>1. SaysEncoder(ErrorIn(f)) \in BOOLEAN
      BY SMT DEF SaysEncoder
    <3>2. SaysLost(ErrorIn(f)) \in BOOLEAN
      BY SMT DEF SaysLost
    <3> QED
      BY <1>3, <1>4, <1>5, <2>3, <3>1, <3>2 DEF Status, Places
  <2>4. CASE Recheck(f)
    BY <1>3, <1>4, <1>5, <2>4 DEF Recheck, Left, Places
  <2>5. CASE Zero(f)
    BY <1>4, <1>5, <2>5 DEF Zero, Places
  <2>6. CASE Zeroed(f)
    BY <1>3, <1>4, <1>5, <2>6 DEF Zeroed, Places
  <2>7. CASE Hold(f)
    BY <1>3, <1>4, <1>5, <2>7 DEF Hold, Places
  <2>8. CASE Verify(f)
    BY <1>3, <1>4, <1>5, <2>8 DEF Verify, Places
  <2>9. CASE IsOn(f)
    BY <1>3, <1>4, <1>5, <2>9 DEF IsOn, Places
  <2>10. CASE Look(f)
    BY <1>3, <1>4, <1>5, <2>10 DEF Look, Places
  <2> QED
    BY <1>1, <2>1, <2>2, <2>3, <2>4, <2>5, <2>6, <2>7, <2>8, <2>9, <2>10 DEF Continue
<1>7. ProgramTypes'
  BY <1>2, <1>4, <1>6 DEF ProgramTypes, Places
<1> QED
  BY <1>2, <1>7 DEF TypeInv

LEMMA TypesStep ==
    ASSUME TypeInv, [RecoveryNext]_recoveryVars
    PROVE  TypeInv'
<1>1. CASE UNCHANGED recoveryVars
  BY <1>1 DEF recoveryVars, controllerVars, programVars, TypeInv, ProgramTypes, OrderInv,
              Off
<1> QED
  BY <1>1, BeginTypes, RequestTypes, ResultTypes, AskTypes, MotorTypes, EndTypes
  DEF RecoveryNext, Run

-----------------------------------------------------------------------------
(* What main makes of its own answers *)

LEMMA ErrorAnswer ==
    ASSUME NEW code \in Codes, NEW f,
           f.bytes \in {Refused, Bytes(code)}
    PROVE  ErrorIn(f) \in {None, code}
<1>1. code \in Word16
  BY ControllerAssumption, SMT DEF Word16
<1>2. CASE f.bytes = Refused
  BY <1>2 DEF ErrorIn, Short, Refused
<1>3. CASE f.bytes = Bytes(code)
  BY <1>1, <1>3, WordOfBytes DEF ErrorIn, Word
<1> QED
  BY <1>2, <1>3

LEMMA EnabledAnswer ==
    ASSUME NEW enabled \in BOOLEAN, NEW f,
           f.bytes \in {Refused, Bytes(IF enabled THEN 1 ELSE 0)}, EnabledIn(f)
    PROVE  enabled
<1>1. ~Short(f, 2) /\ Word(f, 1) = 1
  BY DEF EnabledIn
<1>2. f.bytes # Refused
  <2>1. ASSUME f.bytes = Refused PROVE Short(f, 2)
    BY <2>1 DEF Short, Refused
  <2> QED
    BY <1>1, <2>1
<1>3. 0 \in Word16
  BY SMT DEF Word16
<1>4. ASSUME ~enabled PROVE FALSE
  <2>1. f.bytes = Bytes(0)
    BY <1>2, <1>4
  <2>2. Word(f, 1) = 0
    BY <1>3, <2>1, WordOfBytes DEF Word
  <2> QED
    BY <1>1, <2>2
<1> QED
  BY <1>4

LEMMA PositionAnswer ==
    ASSUME NEW p \in Int32, NEW f,
           f.bytes \in {Refused, Bytes(Low(p)) \o Bytes(High(p))}
    PROVE  PositionIn(f) \in {None, p}
<1>1. CASE f.bytes = Refused
  BY <1>1 DEF PositionIn, Short, Refused
<1>2. CASE f.bytes = Bytes(Low(p)) \o Bytes(High(p))
  <2>1. Parse32(f.bytes[1] + 256 * f.bytes[2], f.bytes[3] + 256 * f.bytes[4]) = p
    BY <1>2, PositionOfBytes
  <2>2. Parse32(Word(f, 1), Word(f, 3)) = p
    BY <2>1 DEF Word
  <2> QED
    BY <2>2 DEF PositionIn
<1> QED
  BY <1>1, <1>2

LEMMA BriefAnswer ==
    ASSUME NEW f, Brief(f)
    PROVE  ErrorIn(f) = None
BY DEF Brief, ErrorIn, Short

-----------------------------------------------------------------------------
(* ZeroForAReason *)

LEMMA ZeroBegin ==
    ASSUME TypeInv, BeginRecovery
    PROVE  ZeroInv'
<1>1. Off
  BY DEF TypeInv, ProgramTypes, BeginRecovery
<1>2. /\ rpc' = "ping" /\ motor'.error = firstError' /\ line' = <<>>
      /\ known' = Nothing
  BY <1>1 DEF BeginRecovery, Off
<1> QED
  BY <1>2 DEF ZeroInv, StatusInv, SuspectInv, OnlyReads, Nothing

LEMMA ZeroRequest ==
    ASSUME TypeInv, ZeroInv, Request
    PROVE  ZeroInv'
<1>1. SendCommand(NextCommand) /\ UNCHANGED programVars /\ rpc \notin {"off", "ask", "close"}
  BY DEF Request
<1>2. /\ NextCommand \in Reads \cup Writes
      /\ rpc \in Early => NextCommand \in Reads
      /\ rpc = "status" => NextCommand = Read("error")
  BY <1>1, Commands DEF TypeInv
<1>3. motor' = motor
  BY <1>1 DEF SendCommand
<1>4. rpc \in Early => OnlyReads'
  BY <1>1, <1>2, ReadsCall DEF TypeInv, ZeroInv, StatusInv
<1>5. rpc = "status" => OwnFrames(line', buffer', Read("error"), {Refused, Bytes(firstError)})
  BY <1>1, <1>2, SendOwn DEF TypeInv
<1> QED
  BY <1>1, <1>3, <1>4, <1>5 DEF programVars, ZeroInv, StatusInv, SuspectInv, Own

LEMMA MotorRuns ==
    ASSUME TypeInv, MotorStep
    PROVE  rpc # "off" /\ motor \in MotorStates
<1>1. Serve => line # <<>>
  BY DEF Serve
<1>2. Lose => line # <<>>
  BY DEF Lose
<1>3. Arrive => line # <<>>
  BY DEF Arrive
<1> QED
  BY <1>1, <1>2, <1>3 DEF MotorStep, TypeInv, ProgramTypes, Off

\* A call that reads its own answer, while the motor serves it and what is late.
LEMMA ReadOwn ==
    ASSUME TypeInv, MotorStep, NEW cmd \in Reads, NEW answers,
           Own(cmd, answers), Refused \in answers,
           motor' = motor => Answer(cmd.reg) \in answers
    PROVE  OwnFrames(line', buffer', cmd, answers)
<1>1. motor \in MotorStates /\ OrderInv
  BY MotorRuns DEF TypeInv
<1>2. CASE Serve
  BY <1>1, <1>2, ServeOwn, ReadsAreNoWrites
<1>3. CASE Lose \/ Arrive
  BY <1>1, <1>3, MoveOwn
<1> QED
  BY <1>2, <1>3 DEF MotorStep

LEMMA ZeroMotor ==
    ASSUME TypeInv, ZeroInv, MotorStep
    PROVE  ZeroInv'
<1>1. UNCHANGED programVars /\ waiting' = waiting /\ (Serve \/ Lose \/ Arrive)
  BY DEF MotorStep, Serve, Lose, Arrive
<1>2. motor \in MotorStates
  BY MotorRuns
<1>3. rpc \in Early => OnlyReads' /\ motor' = motor
  BY <1>1, <1>2, ReadsMotorStep DEF TypeInv, ZeroInv, StatusInv
<1>4. ASSUME rpc = "status", waiting
      PROVE  OwnFrames(line', buffer', Read("error"), {Refused, Bytes(firstError)})
  <2>1. Own(Read("error"), {Refused, Bytes(firstError)}) /\ motor.error = firstError
    BY <1>4 DEF ZeroInv, StatusInv, Early
  <2>2. Read("error") \in Reads /\ Answer(Read("error").reg) = Bytes(motor.error)
    BY DEF Reads, Read, Answer
  <2> QED
    BY <2>1, <2>2, ReadOwn
<1> QED
  BY <1>1, <1>3, <1>4 DEF programVars, ZeroInv, StatusInv, SuspectInv, Own

LEMMA ZeroResult ==
    ASSUME TypeInv, ZeroInv, Result
    PROVE  ZeroInv'
<1>1. PICK f \in Results :
        /\ Returns(f) /\ Continue(f)
        /\ crossed' = (crossed \/ (f # None /\ ~(IF f = None THEN FALSE ELSE f.age = 0)))
        /\ firstError' = firstError
        /\ rpc \notin {"off", "ask", "close"}
  BY DEF Result
<1>2. /\ waiting' = FALSE /\ motor' = motor
      /\ f # None => waiting /\ f \in Answers /\ \E k \in DOMAIN buffer : f = buffer[k]
  BY <1>1, ReturnEntries DEF TypeInv
<1>3. crossed => crossed'
  BY <1>1
<1>4. rpc' \in Early => rpc \in Early
  <2>1. CASE Ignore(f)
    BY <2>1 DEF Ignore, Onward, Early
  <2>2. CASE ~Ignore(f)
    BY <1>1, <2>2 DEF Continue, Early, Where, Status, Recheck, Zero, Zeroed, Hold, Verify,
                      IsOn, Look
  <2> QED
    BY <2>1, <2>2
<1>5. StatusInv'
  BY <1>1, <1>2, <1>4, ReadsCall DEF TypeInv, ZeroInv, StatusInv
<1>6. CASE Status(f)
  <2>1. rpc = "status" /\ rpc' \notin {"ask", "there", "zero"}
    BY <1>6 DEF Status
  <2>2. /\ known'.encoder => SaysEncoder(ErrorIn(f))
        /\ known'.lost => SaysLost(ErrorIn(f))
    BY <1>6 DEF Status, TypeInv, ProgramTypes
  <2>3. SuspectInv' <=>
          /\ known'.encoder => SaysEncoder(firstError) \/ crossed'
          /\ known'.lost => SaysLost(firstError) \/ crossed'
    BY <1>1, <2>1 DEF SuspectInv
  <2>4. CASE f = None
    <3>1. ErrorIn(f) = None
      BY <2>4 DEF ErrorIn, Short
    <3>2. ~SaysEncoder(None) /\ ~SaysLost(None)
      BY DEF SaysEncoder, SaysLost
    <3> QED
      BY <1>5, <2>2, <2>3, <3>1, <3>2 DEF ZeroInv
  <2>5. CASE f # None /\ f.age # 0
    BY <1>1, <1>5, <2>5, <2>3 DEF ZeroInv
  <2>6. CASE f # None /\ f.age = 0
    <3>1. motor.error = firstError /\ motor.error \in Codes
      BY <2>1 DEF TypeInv, ProgramTypes, MotorStates, ZeroInv, StatusInv, Early
    <3>2. f.bytes \in {Refused, Bytes(firstError)}
      BY <1>2, <2>1, <2>6 DEF ZeroInv, StatusInv, Own, OwnFrames
    <3>3. ErrorIn(f) \in {None, firstError}
      BY <3>1, <3>2, ErrorAnswer
    <3>4. ~SaysEncoder(None) /\ ~SaysLost(None)
      BY DEF SaysEncoder, SaysLost
    <3> QED
      BY <1>5, <2>2, <2>3, <3>3, <3>4 DEF ZeroInv
  <2> QED
    BY <2>4, <2>5, <2>6
<1>7. CASE ~Status(f)
  <2>1. known \in [error : Int \cup {None}, pos : Int \cup {None}, encoder : BOOLEAN,
                   lost : BOOLEAN, enabled : BOOLEAN]
    BY DEF TypeInv, ProgramTypes
  <2>2. known'.encoder => known.encoder
    BY <1>1, <1>7, <2>1 DEF Continue, Ignore, Where, Recheck, Left, Zero, Zeroed, Hold, Verify,
                            IsOn, Look
  <2>3. known'.lost => known.lost
    BY <1>1, <1>7, <2>1 DEF Continue, Ignore, Where, Recheck, Left, Zero, Zeroed, Hold, Verify,
                            IsOn, Look
  <2>4. rpc' \in {"ask", "there", "zero"} => known'.encoder \/ known'.lost
    <3>1. CASE Recheck(f)
      BY <3>1 DEF Recheck
    <3>2. CASE Where(f)
      BY <2>1, <3>2 DEF Where, ZeroInv, SuspectInv
    <3>3. CASE ~Recheck(f) /\ ~Where(f)
      BY <1>1, <1>7, <3>3 DEF Continue, Ignore, Onward, Zero, Zeroed, Hold, Verify, IsOn, Look
    <3> QED
      BY <3>1, <3>2, <3>3
  <2> QED
    BY <1>1, <1>3, <1>5, <2>2, <2>3, <2>4 DEF ZeroInv, SuspectInv
<1> QED
  BY <1>6, <1>7

LEMMA ZeroStep ==
    ASSUME TypeInv, ZeroInv, [RecoveryNext]_recoveryVars
    PROVE  ZeroInv'
<1>1. CASE Ask
  BY <1>1 DEF Ask, ZeroInv, StatusInv, SuspectInv, Early
<1>2. CASE EndRecovery
  BY <1>2 DEF EndRecovery, ZeroInv, StatusInv, SuspectInv, Early, Nothing
<1>3. CASE UNCHANGED recoveryVars
  BY <1>3 DEF recoveryVars, controllerVars, programVars, ZeroInv, StatusInv, SuspectInv,
              OnlyReads, Own
<1> QED
  BY <1>1, <1>2, <1>3, ZeroBegin, ZeroRequest, ZeroResult, ZeroMotor DEF RecoveryNext, Run

-----------------------------------------------------------------------------
(* HoldsStill *)

\* The low half of a position becomes that of the target.
LEMMA LowApplied ==
    ASSUME motor \in MotorStates, NEW p \in Int32, Apply("low", Low(p))
    PROVE  /\ motor'.position = motor.position /\ motor'.enabled = motor.enabled
           /\ Low(motor'.target) = Low(p)
<1>1. motor' = [motor EXCEPT !.target = Parse32(Low(p), High(motor.target))]
  BY DEF Apply
<1>2. motor.target \in Int /\ p \in Int
  BY SMT DEF MotorStates, Int32
<1>3. Low(Parse32(Low(p), High(motor.target))) = Low(p)
  BY <1>2, HalvesAreWords, LowOfJoin
<1> QED
  BY <1>1, <1>3 DEF MotorStates

\* After the low half, the high half makes the target the position.
LEMMA HighApplied ==
    ASSUME motor \in MotorStates, NEW p \in Int32, Apply("high", High(p)),
           Low(motor.target) = Low(p)
    PROVE  /\ motor'.position = motor.position /\ motor'.enabled = motor.enabled
           /\ motor'.target = p
<1>1. motor' = [motor EXCEPT !.target = Parse32(Low(p), High(p))]
  BY DEF Apply
<1>2. Parse32(Low(p), High(p)) = p
  BY JoinHalves
<1> QED
  BY <1>1, <1>2 DEF MotorStates

LEMMA EnableApplied ==
    ASSUME motor \in MotorStates, Apply("enable", 1)
    PROVE  motor'.position = motor.position /\ motor'.target = motor.target
BY DEF Apply, MotorStates

LEMMA HoldBegin ==
    ASSUME TypeInv, BeginRecovery
    PROVE  HoldInv'
<1>1. Off
  BY DEF TypeInv, ProgramTypes, BeginRecovery
<1>2. ~held' /\ rpc' = "ping"
  BY <1>1 DEF BeginRecovery, Off
<1> QED
  BY <1>2 DEF HoldInv

LEMMA HoldRequest ==
    ASSUME TypeInv, HoldInv, Request
    PROVE  HoldInv'
<1>1. /\ SendCommand(NextCommand) /\ UNCHANGED programVars /\ rpc \notin {"off", "ask", "close"}
      /\ ~waiting /\ waiting' = TRUE /\ motor' = motor
  BY DEF Request, SendCommand
<1>2. /\ NextCommand \in Reads \cup Writes
      /\ rpc \in {"verify", "isOn", "look"} => NextCommand \in Reads
      /\ rpc = "hold" => NextCommand = Read("position")
      /\ rpc = "low" => NextCommand = Write("low", Low(known.pos))
      /\ rpc = "high" => NextCommand = Write("high", High(known.pos))
      /\ rpc = "enable" => NextCommand = Write("enable", 1)
  BY <1>1, Commands DEF TypeInv
<1>3. \A answers : OwnFrames(line', buffer', NextCommand, answers)
  BY <1>1, <1>2, SendOwn DEF TypeInv
<1>4. line = <<>> => NoOthers'
  BY <1>1, <1>2, NoOthersSend DEF TypeInv
<1>5. ASSUME held, rpc \in Late
      PROVE  \A i \in DOMAIN line' : line'[i].cmd \in Reads \cup {Write("enable", 1)}
  <2>1. \A i \in DOMAIN line : line[i].cmd \in Reads \cup {Write("enable", 1)}
    BY <1>5 DEF HoldInv
  <2>2. NextCommand \in Reads \cup {Write("enable", 1)}
    BY <1>1, <1>2, <1>5 DEF Late
  <2>3. New(NextCommand).cmd = NextCommand
    BY DEF New
  <2>4. \A i \in DOMAIN line' :
          line'[i] = New(NextCommand) \/ \E k \in DOMAIN line : line'[i].cmd = line[k].cmd
    BY <1>1, <1>2, SendEntries DEF TypeInv
  <2> QED
    BY <2>1, <2>2, <2>3, <2>4
<1>6. UNCHANGED <<rpc, known, held>>
  BY <1>1 DEF programVars
<1>7. held /\ rpc \in {"low", "high"} => known.pos = motor.position /\ line = <<>>
  BY <1>1 DEF HoldInv
<1> QED
  BY <1>1, <1>2, <1>3, <1>4, <1>5, <1>6, <1>7 DEF HoldInv, Own

\* What a step of the motor does to the motor when the target is being set.
LEMMA HoldServe ==
    ASSUME TypeInv, HoldInv, MotorStep, held
    PROVE  /\ rpc \in {"low", "high"} =>
                /\ waiting /\ NoOthers'
                /\ motor'.position = motor.position /\ motor'.enabled = motor.enabled
           /\ rpc = "high" => Low(motor'.target) = Low(motor'.position)
           /\ rpc \in Late =>
                /\ motor'.position = motor.position /\ motor'.target = motor.target
                /\ \A i \in DOMAIN line' : line'[i].cmd \in Reads \cup {Write("enable", 1)}
<1>1. motor \in MotorStates /\ OrderInv /\ (Serve \/ Lose \/ Arrive)
  BY MotorRuns DEF MotorStep, TypeInv
<1>2. Lose \/ Arrive => motor' = motor
  BY DEF Lose, Arrive
<1>3. line # <<>>
  <2>1. Serve => line # <<>>
    BY DEF Serve
  <2>2. Lose => line # <<>>
    BY DEF Lose
  <2>3. Arrive => line # <<>>
    BY DEF Arrive
  <2> QED
    BY <1>1, <2>1, <2>2, <2>3
<1>4. Serve =>
        \E i \in DOMAIN line :
          \/ motor' = motor
          \/ line[i].cmd \in Writes /\ Apply(line[i].cmd.reg, line[i].cmd.value)
  BY <1>1, ServeEntries
<1>5. ASSUME rpc \in {"low", "high"}
      PROVE  /\ waiting /\ NoOthers'
             /\ motor'.position = motor.position /\ motor'.enabled = motor.enabled
             /\ rpc = "high" => Low(motor'.target) = Low(motor'.position)
  <2>1. known.pos = motor.position /\ waiting /\ NoOthers
    BY <1>3, <1>5 DEF HoldInv
  <2>2. NoOthers'
    BY <1>1, <2>1, NoOthersMotorStep
  <2>3. motor.position \in Int32
    BY <1>1 DEF MotorStates
  <2>4. rpc = "high" => Low(motor.target) = Low(motor.position)
    BY DEF HoldInv
  <2>5. CASE motor' = motor
    BY <2>1, <2>2, <2>4, <2>5
  <2>6. ASSUME NEW i \in DOMAIN line, Apply(line[i].cmd.reg, line[i].cmd.value)
        PROVE  /\ motor'.position = motor.position /\ motor'.enabled = motor.enabled
               /\ rpc = "high" => Low(motor'.target) = Low(motor'.position)
    <3>1. line[i].age = 0
      BY <2>1 DEF NoOthers
    <3>2. CASE rpc = "low"
      <4>1. line[i].cmd = Write("low", Low(motor.position))
        BY <2>1, <3>1, <3>2 DEF HoldInv, Own, OwnFrames
      <4>2. Apply("low", Low(motor.position))
        BY <2>6, <4>1 DEF Write
      <4> QED
        BY <1>1, <2>3, <3>2, <4>2, LowApplied
    <3>3. CASE rpc = "high"
      <4>1. line[i].cmd = Write("high", High(motor.position))
        BY <2>1, <3>1, <3>3 DEF HoldInv, Own, OwnFrames
      <4>2. Apply("high", High(motor.position))
        BY <2>6, <4>1 DEF Write
      <4>3. /\ motor'.position = motor.position /\ motor'.enabled = motor.enabled
            /\ motor'.target = motor.position
        BY <1>1, <2>3, <2>4, <3>3, <4>2, HighApplied
      <4> QED
        BY <4>3
    <3> QED
      BY <1>5, <3>2, <3>3
  <2> QED
    BY <1>1, <1>2, <1>4, <2>1, <2>2, <2>5, <2>6
<1>6. ASSUME rpc \in Late
      PROVE  /\ motor'.position = motor.position /\ motor'.target = motor.target
             /\ \A i \in DOMAIN line' : line'[i].cmd \in Reads \cup {Write("enable", 1)}
  <2>1. \A i \in DOMAIN line : line[i].cmd \in Reads \cup {Write("enable", 1)}
    BY <1>6 DEF HoldInv
  <2>2. \A i \in DOMAIN line' : \E k \in DOMAIN line : line'[i].cmd = line[k].cmd
    BY <1>1, ServeEntries, LoseEntries, ArriveEntries
  <2>3. ASSUME NEW i \in DOMAIN line, line[i].cmd \in Writes,
               Apply(line[i].cmd.reg, line[i].cmd.value)
        PROVE  motor'.position = motor.position /\ motor'.target = motor.target
    <3>1. line[i].cmd = Write("enable", 1)
      BY <2>1, <2>3, ReadsAreNoWrites
    <3>2. Apply("enable", 1)
      BY <2>3, <3>1 DEF Write
    <3> QED
      BY <1>1, <3>2, EnableApplied
  <2>4. motor'.position = motor.position /\ motor'.target = motor.target
    BY <1>1, <1>2, <1>4, <2>3
  <2> QED
    BY <2>1, <2>2, <2>4
<1> QED
  BY <1>5, <1>6

LEMMA HoldMotor ==
    ASSUME TypeInv, HoldInv, MotorStep
    PROVE  HoldInv'
<1>1. motor \in MotorStates /\ OrderInv /\ (Serve \/ Lose \/ Arrive)
  BY MotorRuns DEF MotorStep, TypeInv
<1>2. Lose \/ Arrive => motor' = motor
  BY DEF Lose, Arrive
<1>3. UNCHANGED <<rpc, known, held, waiting>>
  BY DEF MotorStep, programVars, Serve, Lose, Arrive
<1>4. ASSUME rpc = "hold", waiting
      PROVE  OwnFrames(line', buffer', Read("position"),
               {Refused, Bytes(Low(motor'.position)) \o Bytes(High(motor'.position))})
  <2>1. Own(Read("position"),
            {Refused, Bytes(Low(motor.position)) \o Bytes(High(motor.position))})
    BY <1>4 DEF HoldInv
  <2>2. /\ Read("position") \in Reads /\ Read("position") \notin Writes
        /\ Answer(Read("position").reg)
             = Bytes(Low(motor.position)) \o Bytes(High(motor.position))
    <3>1. Read("position") \in Reads /\ Read("position").reg = "position"
      BY DEF Reads, Read
    <3> QED
      BY <3>1, ReadsAreNoWrites DEF Answer
  <2>3. CASE Serve
    BY <1>1, <2>1, <2>2, <2>3, ServeOwn
  <2>4. CASE Lose \/ Arrive
    BY <1>1, <1>2, <2>1, <2>4, MoveOwn
  <2> QED
    BY <1>1, <2>3, <2>4
<1>5. ASSUME held, rpc \in {"low", "high"}
      PROVE  /\ waiting /\ known.pos = motor.position /\ motor.position \in Int32
             /\ Low(known.pos) \in Word16 /\ High(known.pos) \in Word16
  <2>1. motor.position \in Int32 /\ motor.position \in Int
    BY <1>1 DEF MotorStates, Int32
  <2> QED
    BY <1>5, <2>1, HoldServe, HalvesAreWords DEF HoldInv
<1>6. ASSUME held, rpc = "low"
      PROVE  OwnFrames(line', buffer', Write("low", Low(known.pos)),
                       AnswersIf(Low(motor'.target) = Low(motor'.position)))
  <2> DEFINE cmd == Write("low", Low(known.pos))
  <2>1. Own(cmd, AnswersIf(Low(motor.target) = Low(motor.position)))
    BY <1>5, <1>6 DEF HoldInv
  <2>2. /\ cmd \in Writes /\ cmd.reg = "low" /\ cmd.value = Low(motor.position)
        /\ cmd \notin Reads
    <3>1. cmd \in Writes /\ cmd.reg = "low" /\ cmd.value = Low(motor.position)
      BY <1>5, <1>6 DEF Writes, Write
    <3> HIDE DEF cmd
    <3> QED
      BY <3>1, ReadsAreNoWrites
  <2> HIDE DEF cmd
  <2>3. CASE Serve
    <3>1. Apply(cmd.reg, cmd.value) => Low(motor'.target) = Low(motor'.position)
      BY <1>1, <1>5, <1>6, <2>2, LowApplied
    <3>2. /\ Refused \in AnswersIf(Low(motor'.target) = Low(motor'.position))
          /\ Apply(cmd.reg, cmd.value) =>
               Applied \in AnswersIf(Low(motor'.target) = Low(motor'.position))
      BY <3>1 DEF AnswersIf
    <3>3. OwnFrames(line', buffer', cmd,
                    AnswersIf(Low(motor'.target) = Low(motor'.position)))
      BY <1>1, <2>1, <2>2, <2>3, <3>2, ServeOwn
    <3> QED
      BY <3>3 DEF cmd
  <2>4. CASE Lose \/ Arrive
    <3>1. OwnFrames(line', buffer', cmd, AnswersIf(Low(motor.target) = Low(motor.position)))
      BY <1>1, <2>1, <2>4, MoveOwn
    <3> QED
      BY <1>2, <2>4, <3>1 DEF cmd
  <2> QED
    BY <1>1, <2>3, <2>4
<1>7. ASSUME held, rpc = "high"
      PROVE  OwnFrames(line', buffer', Write("high", High(known.pos)),
                       AnswersIf(motor'.target = motor'.position))
  <2> DEFINE cmd == Write("high", High(known.pos))
  <2>1. /\ Own(cmd, AnswersIf(motor.target = motor.position))
        /\ Low(motor.target) = Low(motor.position)
    BY <1>5, <1>7 DEF HoldInv
  <2>2. /\ cmd \in Writes /\ cmd.reg = "high" /\ cmd.value = High(motor.position)
        /\ cmd \notin Reads
    <3>1. cmd \in Writes /\ cmd.reg = "high" /\ cmd.value = High(motor.position)
      BY <1>5, <1>7 DEF Writes, Write
    <3> HIDE DEF cmd
    <3> QED
      BY <3>1, ReadsAreNoWrites
  <2> HIDE DEF cmd
  <2>3. CASE Serve
    <3>1. Apply(cmd.reg, cmd.value) => motor'.target = motor'.position
      BY <1>1, <1>5, <1>7, <2>1, <2>2, HighApplied
    <3>2. /\ Refused \in AnswersIf(motor'.target = motor'.position)
          /\ Apply(cmd.reg, cmd.value) =>
               Applied \in AnswersIf(motor'.target = motor'.position)
      BY <3>1 DEF AnswersIf
    <3>3. OwnFrames(line', buffer', cmd, AnswersIf(motor'.target = motor'.position))
      BY <1>1, <2>1, <2>2, <2>3, <3>2, ServeOwn
    <3> QED
      BY <3>3 DEF cmd
  <2>4. CASE Lose \/ Arrive
    <3>1. OwnFrames(line', buffer', cmd, AnswersIf(motor.target = motor.position))
      BY <1>1, <2>1, <2>4, MoveOwn
    <3> QED
      BY <1>2, <2>4, <3>1 DEF cmd
  <2> QED
    BY <1>1, <2>3, <2>4
<1>8. ASSUME held, rpc \in Late
      PROVE  motor'.target = motor'.position
  BY <1>8, HoldServe DEF HoldInv
<1> QED
  BY <1>3, <1>4, <1>5, <1>6, <1>7, <1>8, HoldServe DEF HoldInv, Own

LEMMA HoldResult ==
    ASSUME TypeInv, HoldInv, Result
    PROVE  HoldInv'
<1>1. PICK f \in Results :
        /\ Returns(f) /\ Continue(f)
        /\ held' = CASE rpc = "hold" ->
                          (IF f = None THEN FALSE ELSE f.age = 0) /\ known'.pos # None
                     [] rpc \in {"low", "high"} ->
                          held /\ (IF f = None THEN FALSE ELSE f.age = 0) /\ f.bytes = <<1>>
                     [] OTHER -> held
        /\ rpc \notin {"off", "ask", "close"}
  BY DEF Result
<1>2. /\ waiting' = FALSE /\ motor' = motor
      /\ f # None =>
           /\ waiting
           /\ \E k \in DOMAIN buffer : f = buffer[k]
           /\ f.age = 0 => line' = <<>>
  BY <1>1, ReturnEntries DEF TypeInv
<1>3. CASE ~held'
  BY <1>2, <1>3 DEF HoldInv
<1>4. CASE held' /\ rpc = "hold"
  <2>1. Hold(f)
    BY <1>1, <1>4 DEF Continue, Ignore, Onward, Where, Status, Recheck, Zero, Zeroed, Verify,
                      IsOn, Look
  <2>2. known'.pos = PositionIn(f) /\ known'.pos # None /\ rpc' = "low"
    BY <1>1, <1>4, <2>1 DEF Hold, TypeInv, ProgramTypes
  <2>3. f # None /\ f.age = 0
    BY <1>1, <1>4
  <2>4. f.bytes \in {Refused, Bytes(Low(motor.position)) \o Bytes(High(motor.position))}
    BY <1>2, <1>4, <2>3 DEF HoldInv, Own, OwnFrames
  <2>5. motor.position \in Int32
    BY <1>1 DEF TypeInv, ProgramTypes, MotorStates
  <2>6. known'.pos = motor.position
    BY <2>2, <2>4, <2>5, PositionAnswer
  <2> QED
    BY <1>2, <2>2, <2>3, <2>6 DEF HoldInv, Late
<1>5. CASE held' /\ rpc \in {"low", "high"}
  <2>1. held /\ f # None /\ f.age = 0 /\ f.bytes = Applied
    BY <1>1, <1>5 DEF Applied
  <2>2. Ignore(f)
    BY <1>1, <1>5 DEF Continue, Where, Status, Recheck, Zero, Zeroed, Hold, Verify, IsOn, Look
  <2>3. known' = known /\ rpc' = IF rpc = "low" THEN "high" ELSE "enable"
    BY <1>5, <2>2 DEF Ignore, Onward
  <2>4. Applied # Refused
    BY DEF Applied, Refused
  <2>5. ASSUME rpc = "low" PROVE Low(motor.target) = Low(motor.position)
    <3>1. Applied \in AnswersIf(Low(motor.target) = Low(motor.position))
      BY <1>2, <2>1, <2>5 DEF HoldInv, Own, OwnFrames
    <3> QED
      BY <2>4, <3>1 DEF AnswersIf
  <2>6. ASSUME rpc = "high" PROVE motor.target = motor.position
    <3>1. Applied \in AnswersIf(motor.target = motor.position)
      BY <1>2, <2>1, <2>6 DEF HoldInv, Own, OwnFrames
    <3> QED
      BY <2>4, <3>1 DEF AnswersIf
  <2>7. known.pos = motor.position
    BY <1>5, <2>1 DEF HoldInv
  <2> QED
    BY <1>2, <1>5, <2>1, <2>3, <2>5, <2>6, <2>7 DEF HoldInv, Late
<1>6. CASE held' /\ rpc \notin {"hold", "low", "high"}
  <2>1. held /\ rpc \in Late
    BY <1>1, <1>6 DEF HoldInv
  <2>2. rpc' \in Late
    <3>1. CASE Ignore(f)
      BY <2>1, <3>1 DEF Late, Ignore, Onward
    <3>2. CASE ~Ignore(f)
      BY <1>1, <2>1, <3>2 DEF Late, Continue, Where, Status, Recheck, Zero, Zeroed, Hold,
                              Verify, IsOn, Look
    <3> QED
      BY <3>1, <3>2
  <2>3. \A i \in DOMAIN line' : \E k \in DOMAIN line : line'[i].cmd = line[k].cmd
    BY <1>1, ReturnEntries DEF TypeInv
  <2>4. /\ motor.target = motor.position
        /\ \A i \in DOMAIN line : line[i].cmd \in Reads \cup {Write("enable", 1)}
    BY <2>1 DEF HoldInv
  <2> QED
    BY <1>2, <2>2, <2>3, <2>4 DEF HoldInv, Late
<1> QED
  BY <1>3, <1>4, <1>5, <1>6

LEMMA HoldStep ==
    ASSUME TypeInv, HoldInv, [RecoveryNext]_recoveryVars
    PROVE  HoldInv'
<1>1. CASE Ask
  BY <1>1 DEF Ask, HoldInv, Late
<1>2. CASE EndRecovery
  BY <1>2 DEF EndRecovery, HoldInv, Late
<1>3. CASE UNCHANGED recoveryVars
  BY <1>3 DEF recoveryVars, controllerVars, programVars, HoldInv, NoOthers, Own
<1> QED
  BY <1>1, <1>2, <1>3, HoldBegin, HoldRequest, HoldResult, HoldMotor DEF RecoveryNext, Run

\* Only a step of the motor enables it while held.
LEMMA HoldAction ==
    ASSUME TypeInv, HoldInv, [RecoveryNext]_recoveryVars,
           held, held', ~motor.enabled, motor'.enabled
    PROVE  motor.target = motor.position
<1>1. rpc \in {"low", "high"} \cup Late
  BY DEF HoldInv
<1>2. CASE MotorStep
  <2>1. rpc \in Late
    BY <1>1, <1>2, HoldServe
  <2> QED
    BY <2>1 DEF HoldInv
<1>3. CASE Request \/ Result \/ UNCHANGED recoveryVars
  <2>1. motor' = motor
    BY <1>3 DEF Request, SendCommand, Result, Returns, recoveryVars, controllerVars
  <2> QED
    BY <2>1
<1>4. CASE BeginRecovery \/ Ask \/ EndRecovery
  BY <1>1, <1>4 DEF BeginRecovery, Ask, EndRecovery, Late
<1> QED
  BY <1>2, <1>3, <1>4 DEF RecoveryNext, Run

-----------------------------------------------------------------------------
(* SuccessIsReal *)

LEMMA SuccessBegin ==
    ASSUME TypeInv, BeginRecovery
    PROVE  SuccessInv'
<1>1. Off
  BY DEF TypeInv, ProgramTypes, BeginRecovery
<1>2. rpc' = "ping" /\ outcome' = "none"
  BY <1>1 DEF BeginRecovery, Off
<1> QED
  BY <1>2 DEF SuccessInv

LEMMA SuccessRequest ==
    ASSUME MaxLate <= 1, TypeInv, SuccessInv, Request
    PROVE  SuccessInv'
<1>1. /\ SendCommand(NextCommand) /\ UNCHANGED programVars /\ rpc \notin {"off", "ask", "close"}
      /\ ~waiting /\ waiting' = TRUE /\ motor' = motor /\ buffer' = <<>>
  BY DEF Request, SendCommand
<1>2. /\ NextCommand \in Reads \cup Writes
      /\ rpc \in {"isOn", "look"} => NextCommand \in Reads
      /\ rpc = "verify" => NextCommand = Read("error")
      /\ rpc = "isOn" => NextCommand = Read("enable")
      /\ rpc = "enable" => NextCommand = Write("enable", 1)
  BY <1>1, Commands DEF TypeInv
<1>3. \A answers : OwnFrames(line', buffer', NextCommand, answers)
  BY <1>1, <1>2, SendOwn DEF TypeInv
<1>4. /\ \A i \in DOMAIN line' :
           \/ line'[i] = New(NextCommand)
           \/ \E k \in DOMAIN line :
                /\ line'[i].cmd = line[k].cmd
                /\ line'[i].age = line[k].age + 1 /\ line'[i].age > 0
      /\ OrderInv'
  BY <1>1, <1>2, SendEntries DEF TypeInv
<1>5. /\ New(NextCommand).cmd = NextCommand /\ New(NextCommand).age = 0
  BY DEF New
<1>6. UNCHANGED <<rpc, known, outcome>> /\ outcome = "none"
  BY <1>1 DEF programVars, TypeInv, ProgramTypes
<1>7. ASSUME rpc = "enable", NEW i \in DOMAIN line', line'[i].age = 0
      PROVE  line'[i].cmd \in Writes
  BY <1>2, <1>4, <1>5, <1>7 DEF Writes
<1>8. ASSUME rpc = "verify", NEW i \in DOMAIN line', line'[i].age > 0
      PROVE  line'[i].cmd \in Writes
  <2>1. PICK k \in DOMAIN line :
          line'[i].cmd = line[k].cmd /\ line'[i].age = line[k].age + 1
    BY <1>4, <1>5, <1>8
  <2>2. line[k].age \in Nat
    BY AgesAreNumbers DEF TypeInv
  <2>3. line'[i].age <= MaxLate /\ MaxLate \in Nat
    <3>1. MaxLate \in Nat
      BY Constants
    <3>2. line'[i] \in Exchanges
      BY <1>4 DEF OrderInv, InOrder
    <3> QED
      BY <3>1, <3>2 DEF Exchanges
  <2>4. line[k].age = 0
    BY <2>1, <2>2, <2>3
  <2> QED
    BY <1>1, <1>8, <2>1, <2>4 DEF SuccessInv
<1>9. ASSUME rpc \in {"isOn", "look"}, known.error # None
      PROVE  known.error = motor.error /\ OnlyReads'
  <2>1. known.error = motor.error /\ OnlyReads
    BY <1>9 DEF SuccessInv, ErrorKnown
  <2> QED
    BY <1>1, <1>2, <1>9, <2>1, ReadsCall DEF TypeInv
<1>10. rpc = "isOn" /\ known.error # None => NoOthers'
  BY <1>1, <1>2, NoOthersSend DEF SuccessInv, TypeInv
<1>11. rpc = "look" /\ known.error # None => (known.enabled => motor.enabled)
  BY DEF SuccessInv
<1> QED
  BY <1>1, <1>2, <1>3, <1>6, <1>7, <1>8, <1>9, <1>10, <1>11
  DEF SuccessInv, ErrorKnown, Own

LEMMA SuccessMotor ==
    ASSUME TypeInv, SuccessInv, MotorStep
    PROVE  SuccessInv'
<1>1. motor \in MotorStates /\ OrderInv /\ (Serve \/ Lose \/ Arrive)
  BY MotorRuns DEF MotorStep, TypeInv
<1>2. Lose \/ Arrive => motor' = motor
  BY DEF Lose, Arrive
<1>3. UNCHANGED <<rpc, known, outcome, waiting>>
  BY DEF MotorStep, programVars, Serve, Lose, Arrive
<1>4. \A i \in DOMAIN line' : \E k \in DOMAIN line :
        line'[i].cmd = line[k].cmd /\ line'[i].age = line[k].age
  BY <1>1, ServeEntries, LoseEntries, ArriveEntries
<1>5. \A i \in DOMAIN buffer' :
        \/ \E k \in DOMAIN buffer : buffer'[i] = buffer[k]
        \/ \E k \in DOMAIN line :
             /\ line[k].bytes # None
             /\ buffer'[i].bytes = line[k].bytes /\ buffer'[i].age = line[k].age
  BY <1>1, ServeEntries, LoseEntries, ArriveEntries
<1>6. ASSUME rpc = "verify", waiting
      PROVE  OwnFrames(line', buffer', Read("error"), {Refused, Bytes(motor'.error)})
  <2>1. Own(Read("error"), {Refused, Bytes(motor.error)})
    BY <1>6 DEF SuccessInv
  <2>2. /\ Read("error") \in Reads /\ Read("error") \notin Writes
        /\ Answer(Read("error").reg) = Bytes(motor.error)
    <3>1. Read("error") \in Reads /\ Read("error").reg = "error"
      BY DEF Reads, Read
    <3> QED
      BY <3>1, ReadsAreNoWrites DEF Answer
  <2>3. CASE Serve
    BY <1>1, <2>1, <2>2, <2>3, ServeOwn
  <2>4. CASE Lose \/ Arrive
    BY <1>1, <1>2, <2>1, <2>4, MoveOwn
  <2> QED
    BY <1>1, <2>3, <2>4
<1>7. ASSUME rpc = "verify", waiting, NEW i \in DOMAIN buffer', buffer'[i].age > 0
      PROVE  Brief(buffer'[i])
  <2>1. CASE \E k \in DOMAIN buffer : buffer'[i] = buffer[k]
    BY <1>7, <2>1 DEF SuccessInv
  <2>2. ASSUME NEW k \in DOMAIN line, line[k].bytes # None,
               buffer'[i].bytes = line[k].bytes, buffer'[i].age = line[k].age
        PROVE  Brief(buffer'[i])
    <3>1. line[k].cmd \in Writes
      BY <1>7, <2>2 DEF SuccessInv
    <3>2. Len(line[k].bytes) = 1
      BY <1>1, <2>2, <3>1 DEF OrderInv, InOrder
    <3> QED
      BY <2>2, <3>2 DEF Brief
  <2> QED
    BY <1>5, <2>1, <2>2
<1>8. ASSUME OnlyReads PROVE OnlyReads' /\ motor' = motor
  BY <1>1, <1>8, ReadsMotorStep
<1>9. ASSUME rpc = "isOn", known.error # None, waiting
      PROVE  /\ NoOthers'
             /\ OwnFrames(line', buffer', Read("enable"),
                          {Refused, Bytes(IF motor.enabled THEN 1 ELSE 0)})
  <2>1. /\ NoOthers
        /\ Own(Read("enable"), {Refused, Bytes(IF motor.enabled THEN 1 ELSE 0)})
    BY <1>9 DEF SuccessInv
  <2>2. /\ Read("enable") \in Reads
        /\ Answer(Read("enable").reg) = Bytes(IF motor.enabled THEN 1 ELSE 0)
    BY DEF Reads, Read, Answer
  <2> QED
    BY <1>1, <2>1, <2>2, NoOthersMotorStep, ReadOwn
<1>10. line # <<>>
  <2>1. Serve => line # <<>>
    BY DEF Serve
  <2>2. Lose => line # <<>>
    BY DEF Lose
  <2>3. Arrive => line # <<>>
    BY DEF Arrive
  <2> QED
    BY <1>1, <2>1, <2>2, <2>3
<1>11. /\ rpc \in {"isOn", "look"} => ErrorKnown
       /\ rpc = "isOn" /\ known.error # None => waiting
       /\ rpc = "look" /\ known.error # None => (known.enabled => motor.enabled)
       /\ outcome = "success" => motor.enabled /\ motor.error = 0 /\ OnlyReads
  BY <1>10 DEF SuccessInv
<1>12. rpc = (IF waiting THEN "enable" ELSE "verify") =>
         \A i \in DOMAIN line' : line'[i].age = 0 => line'[i].cmd \in Writes
  BY <1>4 DEF SuccessInv
<1>13. rpc = "verify" /\ waiting =>
         \A i \in DOMAIN line' : line'[i].age > 0 => line'[i].cmd \in Writes
  BY <1>4 DEF SuccessInv
<1> QED
  BY <1>3, <1>6, <1>7, <1>8, <1>9, <1>11, <1>12, <1>13 DEF SuccessInv, ErrorKnown, Own

LEMMA SuccessResult ==
    ASSUME TypeInv, SuccessInv, Result
    PROVE  SuccessInv'
<1>1. PICK f \in Results :
        /\ Returns(f) /\ Continue(f)
        /\ rpc \notin {"off", "ask", "close"}
  BY DEF Result
<1>2. /\ waiting' = FALSE /\ motor' = motor
      /\ f # None =>
           /\ waiting /\ f \in Answers
           /\ \E k \in DOMAIN buffer : f = buffer[k]
           /\ f.age = 0 => line' = <<>>
      /\ line = <<>> => line' = <<>>
      /\ \A i \in DOMAIN line' : \E k \in DOMAIN line :
           /\ waiting => line'[i] = line[k]
           /\ ~waiting => line'[i].age > 0
  BY <1>1, ReturnEntries DEF TypeInv
<1>3. OnlyReads => OnlyReads'
  BY <1>1, ReadsCall DEF TypeInv
<1>4. /\ known \in [error : Int \cup {None}, pos : Int \cup {None}, encoder : BOOLEAN,
                    lost : BOOLEAN, enabled : BOOLEAN]
      /\ motor \in MotorStates /\ outcome = "none"
  BY <1>1 DEF TypeInv, ProgramTypes
<1>5. CASE Verify(f)
  <2>1. rpc = "verify" /\ rpc' = "isOn" /\ known'.error = ErrorIn(f) /\ outcome' = "none"
    BY <1>4, <1>5 DEF Verify
  <2>2. ASSUME ErrorIn(f) # None
        PROVE  ErrorIn(f) = motor.error /\ line' = <<>>
    <3>1. f # None
      BY <2>2 DEF ErrorIn, Short
    <3>2. f.age \in Nat
      BY <1>2, <3>1, Constants DEF Answers
    <3>3. f.age = 0
      BY <1>2, <2>1, <2>2, <3>1, <3>2, BriefAnswer DEF SuccessInv
    <3>4. f.bytes \in {Refused, Bytes(motor.error)}
      BY <1>2, <2>1, <3>1, <3>3 DEF SuccessInv, Own, OwnFrames
    <3>5. motor.error \in Codes
      BY <1>4 DEF MotorStates
    <3> QED
      BY <1>2, <2>2, <3>1, <3>3, <3>4, <3>5, ErrorAnswer
  <2> QED
    BY <1>2, <2>1, <2>2 DEF SuccessInv, ErrorKnown, OnlyReads
<1>6. CASE IsOn(f)
  <2>1. /\ rpc = "isOn" /\ rpc' = "look" /\ outcome' = "none"
        /\ known'.error = known.error /\ known'.enabled = EnabledIn(f)
    BY <1>4, <1>6 DEF IsOn
  <2>2. ASSUME known.error # None, EnabledIn(f) PROVE motor.enabled
    <3>1. f # None
      BY <2>2 DEF EnabledIn, Short
    <3>2. /\ NoOthers
          /\ Own(Read("enable"), {Refused, Bytes(IF motor.enabled THEN 1 ELSE 0)})
      BY <1>2, <2>1, <2>2, <3>1 DEF SuccessInv
    <3>3. f.bytes \in {Refused, Bytes(IF motor.enabled THEN 1 ELSE 0)}
      BY <1>2, <3>1, <3>2 DEF NoOthers, Own, OwnFrames
    <3>4. motor.enabled \in BOOLEAN
      BY <1>4 DEF MotorStates
    <3> QED
      BY <2>2, <3>3, <3>4, EnabledAnswer
  <2>3. known.error # None => known.error = motor.error /\ OnlyReads
    BY <2>1 DEF SuccessInv, ErrorKnown
  <2> QED
    BY <1>2, <1>3, <2>1, <2>2, <2>3 DEF SuccessInv, ErrorKnown
<1>7. CASE Look(f)
  <2>1. /\ rpc = "look" /\ rpc' = "close"
        /\ outcome' = IF known.enabled /\ known.error = 0 THEN "success" ELSE "partial"
    BY <1>7 DEF Look
  <2>2. ASSUME outcome' = "success"
        PROVE  motor.enabled /\ motor.error = 0 /\ OnlyReads
    <3>1. known.enabled /\ known.error = 0
      BY <2>1, <2>2
    <3>2. known.error # None
      BY <3>1, NoneIsNoAnswer
    <3> QED
      BY <2>1, <3>1, <3>2 DEF SuccessInv, ErrorKnown
  <2> QED
    BY <1>2, <1>3, <2>1, <2>2 DEF SuccessInv
<1>8. CASE Ignore(f)
  <2>1. rpc' \notin {"isOn", "look"} /\ outcome' = "none" /\ (rpc' = "verify" => rpc = "enable")
    BY <1>4, <1>8 DEF Ignore, Onward
  <2>2. rpc' = "verify" => \A i \in DOMAIN line' : line'[i].age = 0 => line'[i].cmd \in Writes
    BY <1>2, <2>1 DEF SuccessInv
  <2> QED
    BY <1>2, <2>1, <2>2 DEF SuccessInv
<1>9. CASE ~Verify(f) /\ ~IsOn(f) /\ ~Look(f) /\ ~Ignore(f)
  <2>1. rpc' \notin {"verify", "isOn", "look"} /\ outcome' # "success"
    BY <1>1, <1>4, <1>9 DEF Continue, Where, Status, Recheck, Zero, Zeroed, Hold
  <2> QED
    BY <1>2, <2>1 DEF SuccessInv
<1> QED
  BY <1>5, <1>6, <1>7, <1>8, <1>9

LEMMA SuccessStep ==
    ASSUME MaxLate <= 1, TypeInv, SuccessInv, [RecoveryNext]_recoveryVars
    PROVE  SuccessInv'
<1>1. CASE Ask
  <2>1. rpc' = "there" /\ outcome' = "none"
    BY <1>1 DEF Ask, TypeInv, ProgramTypes
  <2> QED
    BY <2>1 DEF SuccessInv
<1>2. CASE EndRecovery
  BY <1>2 DEF EndRecovery, SuccessInv
<1>3. CASE UNCHANGED recoveryVars
  BY <1>3 DEF recoveryVars, controllerVars, programVars, SuccessInv, NoOthers, Own,
              OnlyReads, ErrorKnown
<1> QED
  BY <1>1, <1>2, <1>3, SuccessBegin, SuccessRequest, SuccessResult, SuccessMotor
  DEF RecoveryNext, Run

-----------------------------------------------------------------------------
(* Theorems *)

\* What the program knows of the line and of its own variables, always holds.
THEOREM RecoveryTypes ==
    RecoverySpec => []TypeInv
<1>1. RecoveryInit => TypeInv
  <2>1. ASSUME RecoveryInit PROVE ProgramTypes
    BY <2>1 DEF RecoveryInit, ProgramTypes, Off, Nothing
  <2>2. ASSUME RecoveryInit PROVE OrderInv
    BY <2>2 DEF RecoveryInit, OrderInv, InOrder, Older
  <2> QED
    BY <2>1, <2>2 DEF TypeInv
<1>2. TypeInv /\ [RecoveryNext]_recoveryVars => TypeInv'
  BY TypesStep
<1> QED
  BY <1>1, <1>2, PTL DEF RecoverySpec

\* The user is asked to set the zero position again only after an encoder
\* error, or after an answer to another call was taken, however late answers are.
THEOREM RecoveryZeroForAReason ==
    RecoverySpec => []ZeroForAReason
<1>1. RecoveryInit => ZeroInv
  BY DEF RecoveryInit, ZeroInv, StatusInv, SuspectInv, Early, Nothing
<1>2. TypeInv /\ ZeroInv /\ [RecoveryNext]_recoveryVars => ZeroInv'
  BY ZeroStep
<1>3. ZeroInv => ZeroForAReason
  BY DEF ZeroInv, SuspectInv, ZeroForAReason
<1> QED
  BY <1>1, <1>2, <1>3, RecoveryTypes, PTL DEF RecoverySpec

\* Enabling the motor does not set it in motion, if it took its position for
\* its target: proved for all positions of 32 bits, in two halves of 16.
THEOREM RecoveryHoldsStill ==
    RecoverySpec => HoldsStill
<1>1. RecoveryInit => HoldInv
  BY DEF RecoveryInit, HoldInv
<1>2. TypeInv /\ HoldInv /\ [RecoveryNext]_recoveryVars => HoldInv'
  BY HoldStep
<1>3. TypeInv /\ HoldInv /\ [RecoveryNext]_recoveryVars
        => [held /\ held' /\ ~motor.enabled /\ motor'.enabled =>
              motor.target = motor.position]_recoveryVars
  BY HoldAction
<1> QED
  BY <1>1, <1>2, <1>3, RecoveryTypes, PTL DEF RecoverySpec, HoldsStill

\* A reported success is one, if an answer is at most one call late: the lengths
\* of the answers tell those of neighbouring calls apart, and no others.
THEOREM RecoverySuccessIsReal ==
    ASSUME MaxLate <= 1
    PROVE  RecoverySpec => []SuccessIsReal
<1>1. RecoveryInit => SuccessInv
  BY DEF RecoveryInit, SuccessInv
<1>2. TypeInv /\ SuccessInv /\ [RecoveryNext]_recoveryVars => SuccessInv'
  BY SuccessStep
<1>3. SuccessInv => SuccessIsReal
  BY DEF SuccessInv, SuccessIsReal
<1> QED
  BY <1>1, <1>2, <1>3, RecoveryTypes, PTL DEF RecoverySpec

=============================================================================
