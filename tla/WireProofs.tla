------------------------------ MODULE WireProofs ------------------------------
(***************************************************************************)
(* Theorems about WireDriver and the frames of Protocol, for all motors,   *)
(* registers, values, legal calls and retry counts.                        *)
(***************************************************************************)
EXTENDS WireDriver, FiniteSetTheorems, SequenceTheorems, TLAPS

Started == outcome # "none"

TypeInv ==
    /\ peer \in {"motor", "simulation"} /\ initialized \in BOOLEAN
    /\ retry_count \in RetryCounts /\ count \in 0 .. Period - 1
    /\ pc \in {"idle", "access", "request", "reply", "silence"}
    /\ outcome \in {"none", "busy", "ok", "failed"}
    /\ pc # "idle" <=> outcome = "busy"
    /\ retry \in Nat
    /\ pc \in {"request", "reply", "silence"} => ~Rejected /\ retry < retry_count
    /\ ~Started => task = << >> /\ step = 1 /\ retry = 0 /\ misses = {} /\ sample = NoVals
                     /\ done = {} /\ refused = FALSE
    /\ Started => /\ task \in (IF peer = "motor" THEN MotorCalls ELSE SimulatedCalls)
                  /\ step \in 1 .. Len(task)
                  /\ DOMAIN got = DOMAIN task
    /\ sample \in Seq(Vals) \cup {NoVals}
    /\ done \subseteq DOMAIN task
    /\ peer = "motor" => regs \in [BusIds -> [Regs -> Vals]]

\* What has been asked is the current access.
RequestInv == pc = "request" => frame = RequestFrame(Cur)

-----------------------------------------------------------------------------
(* A motor's reply, to the current access *)

\* No parser takes the frame.
Unreadable(f, s) == ~ReadParses(f, s.motor, s.reg) /\ ~WriteParses(f, s.motor)

\* The frame has the values, and zeros may follow them.
Carries(f, s, values) ==
    /\ s.cmd = "read"
    /\ ReadParses(f, s.motor, s.reg)
    /\ ReadValues(f) \in Seq(Word16)
    /\ Len(ReadValues(f)) >= s.count
    /\ SubSeq(ReadValues(f), 1, s.count) = values

Acknowledges(f, s) == s.cmd = "write" /\ WriteParses(f, s.motor)

\* Each attempt so far, the one under way included or not, has missed its answer.
ReplyInv ==
    peer = "motor" =>
        /\ pc \in {"access", "request"} => misses = 0 .. retry - 1
        /\ pc = "silence" => misses = 0 .. retry
        /\ pc = "reply" =>
             \/ misses = 0 .. retry /\ Unreadable(frame, Cur)
             \/ /\ misses = 0 .. retry - 1
                /\ \/ sample # NoVals /\ Carries(frame, Cur, sample)
                   \/ /\ Acknowledges(frame, Cur)
                      /\ IF WriteAcknowledged(frame) THEN step \in done ELSE refused

-----------------------------------------------------------------------------
(* What the call has behind it *)

\* The accesses from the current one on have not returned anything.
AheadInv ==
    outcome = "busy" => \A s \in DOMAIN task : s >= step => got[s] = NoVals

Past(s) == outcome = "ok" \/ (outcome = "busy" /\ s < step)

ReadsOnly == \A s \in DOMAIN task : task[s].cmd = "read"
Distinct == \A s, u \in DOMAIN task : s # u => task[s].reg # task[u].reg

Holds(s) == Content(s.motor % 32, s.reg, s.count)

PastInv ==
    peer = "motor" =>
        \A s \in DOMAIN task :
            /\ got[s] # NoVals =>
                 /\ got[s] \in Seq(Word16)
                 /\ Len(got[s]) >= task[s].count
                 /\ ReadsOnly => AskedFor(s) = Holds(task[s])
            /\ task[s].must /\ Past(s) =>
                 IF task[s].cmd = "read" THEN got[s] # NoVals ELSE s \in done

SampleInv ==
    peer = "motor" /\ ReadsOnly /\ sample # NoVals => sample = Holds(Cur)

DoneInv ==
    peer = "motor" =>
        \A s \in done :
            /\ task[s].cmd = "write"
            /\ Distinct => regs[task[s].motor % 32][task[s].reg] = task[s].val

-----------------------------------------------------------------------------
(* The simulation *)

SimulationInv ==
    peer = "simulation" =>
        /\ pc = "reply" => count = 0 /\ Len(frame.data) \in 0 .. 4
        /\ pc # "idle" /\ step > 1 /\ Cur.must =>
             /\ pc # "reply"
             /\ count = IF pc = "silence" THEN retry + 1 ELSE retry
        /\ \A s \in DOMAIN task : task[s].must /\ Past(s) => s = 1 /\ task[s].need <= 1

-----------------------------------------------------------------------------
(* Bytes *)

LEMMA SeqOf ==
    ASSUME NEW n \in Nat, NEW S, NEW f \in [1 .. n -> S]
    PROVE  f \in Seq(S) /\ Len(f) = n
OBVIOUS

LEMMA SeqHas ==
    ASSUME NEW S, NEW f \in Seq(S)
    PROVE  \E n \in Nat : n = Len(f) /\ DOMAIN f = 1 .. n /\ \A i \in 1 .. n : f[i] \in S
BY LenProperties

\* A frame's padding leaves its bytes where they are.
LEMMA Padding ==
    ASSUME NEW bytes \in Seq(Byte), Len(bytes) <= 64
    PROVE  /\ Padded(bytes) \in Seq(Byte)
           /\ Len(Padded(bytes)) >= Len(bytes)
           /\ \A i \in 1 .. Len(bytes) : Padded(bytes)[i] = bytes[i]
<1> DEFINE least(n) == n >= Len(bytes) /\ \A k \in FrameLengths : k >= Len(bytes) => n <= k
<1>1. PICK size \in Nat : size = Len(bytes) /\ size <= 64
  BY SeqHas
<1>2. \E n \in FrameLengths : least(n)
  <2>2. CASE size <= 8
    BY <1>1, <2>2, SMT DEF FrameLengths
  <2>3. CASE size > 8 /\ size <= 16
    BY <1>1, <2>3, SMT DEF FrameLengths
  <2>4. CASE size > 16 /\ size <= 24
    BY <1>1, <2>4, SMT DEF FrameLengths
  <2>5. CASE size > 24
    BY <1>1, <2>5, SMT DEF FrameLengths
  <2> QED
    BY <1>1, <2>2, <2>3, <2>4, <2>5
<1>3. PICK n \in FrameLengths :
        n >= Len(bytes) /\ Padded(bytes) = bytes \o [i \in 1 .. n - Len(bytes) |-> 0]
  BY <1>2 DEF Padded
<1>4. n \in Nat
  BY <1>3, SMT DEF FrameLengths
<1> DEFINE zeros == [i \in 1 .. n - Len(bytes) |-> 0]
<1>5. PICK z \in Nat : z = n - Len(bytes)
  BY <1>1, <1>3, <1>4
<1>6. zeros \in Seq(Byte) /\ Len(zeros) = z
  <2>1. zeros \in [1 .. z -> Byte]
    BY <1>5, SMT DEF Byte
  <2> QED
    BY <2>1, SeqOf
<1>7. Padded(bytes) = bytes \o zeros
  BY <1>3
<1> HIDE DEF zeros
<1> QED
  BY <1>1, <1>5, <1>6, <1>7, ConcatProperties

LEMMA MaxWord == UINT16_MAX \in Nat /\ UINT16_MAX = 65535
BY DEF UINT16_MAX

\* The two bytes of a value, low byte first, make the value.
LEMMA TwoBytes ==
    ASSUME NEW v \in Word16
    PROVE  v % 256 \in Byte /\ v \div 256 \in Byte /\ (v % 256) + 256 * (v \div 256) = v
<1>1. v \in Nat /\ v <= UINT16_MAX
  BY MaxWord DEF Word16
<1>2. v <= 65535
  BY <1>1, MaxWord
<1>3. PICK n \in Nat : n = v /\ n <= 65535
  BY <1>1, <1>2
<1>4. n % 256 \in 0 .. 255
  BY SMT
<1>5. n \div 256 \in 0 .. 255
  BY <1>3, SMT
<1>6. (n % 256) + 256 * (n \div 256) = n
  BY SMT
<1> QED
  BY <1>3, <1>4, <1>5, <1>6 DEF Byte

LEMMA WordOf ==
    ASSUME NEW low \in Byte, NEW high \in Byte
    PROVE  low + 256 * high \in Word16
<1>1. low \in Nat /\ low <= 255 /\ high \in Nat /\ high <= 255
  BY SMT DEF Byte
<1>2. low + 256 * high \in Nat /\ low + 256 * high <= 65535
  BY <1>1, SMT
<1>3. low + 256 * high <= UINT16_MAX
  BY <1>2, MaxWord
<1>4. UINT16_MAX \in Nat
  BY MaxWord
<1> QED
  BY <1>2, <1>3, <1>4 DEF Word16

LEMMA HalfOf ==
    ASSUME NEW size \in Nat, NEW n \in Nat, size >= 2 * n + 2
    PROVE  \E k \in Nat : k = (size - 2) \div 2 /\ k >= n /\ 2 * k + 2 <= size
<1>1. PICK k : k = (size - 2) \div 2
  OBVIOUS
<1>2. k \in Nat /\ k >= n /\ 2 * k + 2 <= size
  BY <1>1, SMT
<1> QED
  BY <1>1, <1>2

\* Byte 2i - 1 of some values is the low byte of the i-th, byte 2i the high one.
LEMMA BytesOfValues ==
    ASSUME NEW values \in Seq(Word16)
    PROVE  /\ \A j \in 1 .. 2 * Len(values) : ByteOf(values, j) \in Byte
           /\ \A i \in 1 .. Len(values) :
                ByteOf(values, 2 * i - 1) + 256 * ByteOf(values, 2 * i) = values[i]
<1>1. ASSUME NEW j \in 1 .. 2 * Len(values) PROVE ByteOf(values, j) \in Byte
  <2>1. (j + 1) \div 2 \in 1 .. Len(values)
    BY SMT
  <2>2. values[(j + 1) \div 2] \in Word16
    BY <2>1
  <2> QED
    BY <2>2, TwoBytes DEF ByteOf
<1>2. ASSUME NEW i \in 1 .. Len(values)
      PROVE  ByteOf(values, 2 * i - 1) + 256 * ByteOf(values, 2 * i) = values[i]
  <2>1. /\ (2 * i - 1 + 1) \div 2 = i /\ (2 * i + 1) \div 2 = i
        /\ (2 * i - 1) % 2 = 1 /\ (2 * i) % 2 # 1
    BY SMT
  <2>2. ByteOf(values, 2 * i - 1) = values[i] % 256 /\ ByteOf(values, 2 * i) = values[i] \div 256
    BY <2>1 DEF ByteOf
  <2> QED
    BY <2>2, TwoBytes
<1> QED
  BY <1>1, <1>2

\* The reply of a motor to a read of the register reg, without the padding.
ReadBytes(reg, values) ==
    <<CMD_READ, reg>> \o [i \in 1 .. 2 * Len(values) |-> ByteOf(values, i)]

LEMMA ReadBytesType ==
    ASSUME NEW reg \in Byte, NEW values \in Seq(Word16)
    PROVE  /\ ReadBytes(reg, values) \in Seq(Byte)
           /\ Len(ReadBytes(reg, values)) = 2 * Len(values) + 2
           /\ ReadBytes(reg, values)[1] = CMD_READ /\ ReadBytes(reg, values)[2] = reg
           /\ \A i \in 1 .. 2 * Len(values) :
                ReadBytes(reg, values)[i + 2] = ByteOf(values, i)
<1>1. PICK n \in Nat : n = Len(values)
  BY SeqHas
<1>2. PICK content : content = [i \in 1 .. 2 * n |-> ByteOf(values, i)]
  OBVIOUS
<1>3. /\ content \in Seq(Byte) /\ Len(content) = 2 * n
      /\ \A i \in 1 .. 2 * n : content[i] = ByteOf(values, i)
  <2>1. content \in [1 .. 2 * n -> Byte]
    BY <1>1, <1>2, BytesOfValues
  <2>2. 2 * n \in Nat
    BY <1>1
  <2>3. content \in Seq(Byte) /\ Len(content) = 2 * n
    BY <2>1, <2>2, SeqOf
  <2> QED
    BY <1>2, <2>3
<1>4. PICK head : head = <<CMD_READ, reg>>
  OBVIOUS
<1>5. /\ head \in Seq(Byte) /\ Len(head) = 2 /\ head[1] = CMD_READ /\ head[2] = reg
      /\ ReadBytes(reg, values) = head \o content
  <2>1. CMD_READ \in Byte
    BY SMT DEF CMD_READ, Byte
  <2>2. head \in Seq(Byte) /\ Len(head) = 2 /\ head[1] = CMD_READ /\ head[2] = reg
    BY <1>4, <2>1
  <2> QED
    BY <1>1, <1>2, <1>4, <2>2 DEF ReadBytes
<1>6. PICK bytes : bytes = head \o content
  OBVIOUS
<1>7. /\ bytes \in Seq(Byte) /\ Len(bytes) = 2 + 2 * n
      /\ \A i \in 1 .. 2 + 2 * n : bytes[i] = IF i <= 2 THEN head[i] ELSE content[i - 2]
  <2>1. head \in Seq(Byte) /\ content \in Seq(Byte)
    BY <1>3, <1>5
  <2>2. /\ bytes \in Seq(Byte) /\ Len(bytes) = Len(head) + Len(content)
        /\ \A i \in 1 .. Len(head) + Len(content) :
             bytes[i] = IF i <= Len(head) THEN head[i] ELSE content[i - Len(head)]
    BY <1>6, <2>1, ConcatProperties
  <2> QED
    BY <1>3, <1>5, <2>2
<1>8. \A i \in 1 .. 2 * n : bytes[i + 2] = content[i]
  <2> SUFFICES ASSUME NEW i \in 1 .. 2 * n PROVE bytes[i + 2] = content[i]
    OBVIOUS
  <2>1. i + 2 \in 1 .. 2 + 2 * n /\ ~(i + 2 <= 2) /\ i + 2 - 2 = i
    BY <1>1
  <2> QED
    BY <1>7, <2>1
<1>9. bytes[1] = CMD_READ /\ bytes[2] = reg
  <2>1. 1 \in 1 .. 2 + 2 * n /\ 2 \in 1 .. 2 + 2 * n
    BY <1>1
  <2> QED
    BY <1>5, <1>7, <2>1
<1> QED
  BY <1>1, <1>3, <1>5, <1>6, <1>7, <1>8, <1>9

ReadData(reg, values) == Padded(ReadBytes(reg, values))

\* data is what parseReadResponse looks for in an answer with these values.
Encodes(data, reg, values) ==
    /\ data \in Seq(Byte) /\ Len(data) >= 2 * Len(values) + 2
    /\ data[1] = CMD_READ /\ data[2] = reg
    /\ \A i \in 1 .. Len(values) : data[2 * i + 1] + 256 * data[2 * i + 2] = values[i]

LEMMA Payload ==
    ASSUME NEW reg \in Byte, NEW values \in Seq(Word16), Len(values) <= 31
    PROVE  Encodes(ReadData(reg, values), reg, values)
<1> DEFINE data == ReadData(reg, values)
<1>1. PICK n \in Nat : n = Len(values) /\ n <= 31
  BY SeqHas
<1>2. PICK bytes \in Seq(Byte) :
        /\ bytes = ReadBytes(reg, values) /\ Len(bytes) = 2 * n + 2
        /\ bytes[1] = CMD_READ /\ bytes[2] = reg
        /\ \A i \in 1 .. 2 * n : bytes[i + 2] = ByteOf(values, i)
  BY <1>1, ReadBytesType
<1>3. /\ data \in Seq(Byte) /\ Len(data) >= 2 * n + 2
      /\ \A i \in 1 .. 2 * n + 2 : data[i] = bytes[i]
  <2>1. Len(bytes) <= 64
    BY <1>1, <1>2
  <2> QED
    BY <1>2, <2>1, Padding DEF ReadData
<1> HIDE DEF data
<1>4. data[1] = CMD_READ /\ data[2] = reg
  <2>1. 1 \in 1 .. 2 * n + 2 /\ 2 \in 1 .. 2 * n + 2
    BY <1>1
  <2> QED
    BY <1>2, <1>3, <2>1
<1>5. ASSUME NEW i \in 1 .. n PROVE data[2 * i + 1] + 256 * data[2 * i + 2] = values[i]
  <2>1. /\ 2 * i - 1 \in 1 .. 2 * n /\ 2 * i \in 1 .. 2 * n
        /\ 2 * i + 1 \in 1 .. 2 * n + 2 /\ 2 * i + 2 \in 1 .. 2 * n + 2
        /\ 2 * i + 1 = 2 * i - 1 + 2
    BY <1>1
  <2>2. data[2 * i + 1] = ByteOf(values, 2 * i - 1) /\ data[2 * i + 2] = ByteOf(values, 2 * i)
    BY <1>2, <1>3, <2>1
  <2> QED
    BY <1>1, <2>2, BytesOfValues
<1>6. Encodes(data, reg, values)
  BY <1>1, <1>3, <1>4, <1>5 DEF Encodes
<1> QED
  BY <1>6 DEF data

\* parseReadResponse gets the values back, and perhaps more behind them.
LEMMA ParsedValues ==
    ASSUME NEW f, NEW reg, NEW values \in Seq(Word16), Encodes(f.data, reg, values)
    PROVE  /\ ReadValues(f) \in Seq(Word16)
           /\ Len(ReadValues(f)) >= Len(values)
           /\ SubSeq(ReadValues(f), 1, Len(values)) = values
<1> DEFINE data == f.data
<1>1. PICK n \in Nat : n = Len(values)
  BY SeqHas
<1>2. PICK size \in Nat :
        size = Len(data) /\ DOMAIN data = 1 .. size /\ \A i \in 1 .. size : data[i] \in Byte
  BY SeqHas DEF Encodes
<1>3. PICK k \in Nat : k = (size - 2) \div 2 /\ k >= n /\ 2 * k + 2 <= size
  <2>1. size >= 2 * n + 2
    BY <1>1, <1>2 DEF Encodes
  <2> QED
    BY <1>1, <1>2, <2>1, HalfOf
<1>4. ReadValues(f) = [i \in 1 .. k |-> data[2 * i + 1] + 256 * data[2 * i + 2]]
  BY <1>2, <1>3 DEF ReadValues
<1>5. \A i \in 1 .. n : data[2 * i + 1] + 256 * data[2 * i + 2] = values[i]
  BY <1>1 DEF Encodes
<1> HIDE DEF data
<1>6. ASSUME NEW i \in 1 .. k PROVE data[2 * i + 1] + 256 * data[2 * i + 2] \in Word16
  <2>1. 2 * i + 1 \in 1 .. size /\ 2 * i + 2 \in 1 .. size
    BY <1>3
  <2>2. PICK low \in Byte, high \in Byte : low = data[2 * i + 1] /\ high = data[2 * i + 2]
    BY <1>2, <2>1
  <2> QED
    BY <2>2, WordOf
<1>7. PICK parsed : parsed = ReadValues(f)
  OBVIOUS
<1>8. parsed \in Seq(Word16) /\ Len(parsed) = k
  <2>1. parsed \in [1 .. k -> Word16]
    BY <1>4, <1>6, <1>7
  <2> QED
    BY <2>1, SeqOf
<1>9. \A i \in 1 .. n : parsed[i] = values[i]
  BY <1>1, <1>3, <1>4, <1>5, <1>7
<1>10. /\ SubSeq(parsed, 1, n) \in Seq(Word16)
       /\ Len(SubSeq(parsed, 1, n)) = n
       /\ \A i \in 1 .. n : SubSeq(parsed, 1, n)[i] = parsed[i]
  <2>1. \A i \in 1 .. n : parsed[i] \in Word16
    BY <1>3, <1>8, ElementOfSeq
  <2>2. /\ SubSeq(parsed, 1, n) \in Seq(Word16)
        /\ Len(SubSeq(parsed, 1, n)) = IF 1 <= n THEN n - 1 + 1 ELSE 0
        /\ \A i \in 1 .. n - 1 + 1 : SubSeq(parsed, 1, n)[i] = parsed[1 + i - 1]
    BY <2>1, SubSeqProperties
  <2> QED
    BY <2>2
<1>11. SubSeq(parsed, 1, n) = values
  <2>1. \A i \in 1 .. n : SubSeq(parsed, 1, n)[i] = values[i]
    BY <1>9, <1>10
  <2> QED
    BY <1>1, <1>10, <2>1, SeqEqual
<1> QED
  BY <1>1, <1>3, <1>7, <1>8, <1>11

LEMMA AccessType ==
    ASSUME NEW s \in Accesses
    PROVE  /\ s.cmd \in {"read", "write"} /\ s.reg \in Byte /\ s.val \in Word16
           /\ s.need \in Nat /\ s.count \in Nat /\ s.count <= 31
<1>1. PICK n \in 0 .. 31, k \in 0 .. 31 : n = s.count /\ k = s.need
  BY DEF Accesses
<1>2. s.cmd \in {"read", "write"} /\ s.reg \in Byte /\ s.val \in Word16
  BY DEF Accesses
<1> QED
  BY <1>1, <1>2

\* The answer to a read, however much it is padded, parses to the values.
LEMMA ReadReply ==
    ASSUME NEW s \in Accesses, s.cmd = "read", NEW values \in Seq(Word16),
           Len(values) = s.count, NEW f, f.id = ResponseId(s.motor),
           f.data = ReadData(s.reg, values)
    PROVE  Carries(f, s, values)
<1>1. s.reg \in Byte /\ Len(values) <= 31
  BY AccessType
<1>2. Encodes(f.data, s.reg, values)
  BY <1>1, Payload
<1>3. /\ ReadValues(f) \in Seq(Word16)
      /\ Len(ReadValues(f)) >= Len(values)
      /\ SubSeq(ReadValues(f), 1, Len(values)) = values
  BY <1>2, ParsedValues
<1>4. Len(f.data) >= 2
  <2>1. Len(values) \in Nat /\ Len(f.data) \in Nat
    BY <1>2, SeqHas DEF Encodes
  <2> QED
    BY <1>2, <2>1 DEF Encodes
<1>5. ReadParses(f, s.motor, s.reg)
  BY <1>2, <1>4 DEF ReadParses, ValidResponse, CMD_READ, CMD_ERR, Encodes
<1> QED
  BY <1>3, <1>5 DEF Carries

-----------------------------------------------------------------------------
(* The steps of a call *)

Rest == UNCHANGED <<setup, count, frame, task, motor, refused>>

\* An access ends, or is tried again.
Succeeds(vals) == AccessSucceeds(vals) /\ sample' = NoVals /\ Rest
Fails == AccessFails /\ sample' = NoVals /\ Rest
Retries == Again /\ UNCHANGED sample /\ Rest

Conclude == ConcludeSingle \/ ConcludeBlock \/ ConcludeWrite

LEMMA CallSteps ==
    /\ GiveUp => pc = "access" /\ Fails
    /\ Unanswered => pc = "silence" /\ Retries
    /\ Conclude => pc = "reply" /\ ((\E vals : Succeeds(vals)) \/ Fails \/ Retries)
<1>1. GiveUp => pc = "access" /\ Fails
  BY DEF GiveUp, Fails, Rest
<1>2. Unanswered => pc = "silence" /\ Retries
  BY DEF Unanswered, Retries, Rest
<1>3. ConcludeSingle => pc = "reply" /\ ((\E vals : Succeeds(vals)) \/ Retries)
  BY DEF ConcludeSingle, Succeeds, Retries, Rest
<1>4. ConcludeBlock => pc = "reply" /\ ((\E vals : Succeeds(vals)) \/ Fails \/ Retries)
  BY DEF ConcludeBlock, Succeeds, Fails, Retries, Rest
<1>5. ConcludeWrite => pc = "reply" /\ ((\E vals : Succeeds(vals)) \/ Fails \/ Retries)
  BY DEF ConcludeWrite, Succeeds, Fails, Retries, Rest
<1> QED
  BY <1>1, <1>2, <1>3, <1>4, <1>5 DEF Conclude

LEMMA Setup == [Next]_vars => UNCHANGED setup
BY DEF Next, Caller, StartCall, GiveUp, Transmit, Unanswered, ConcludeSingle, ConcludeBlock,
       ConcludeWrite, Motor, MotorReads, MotorWrites, MotorRefuses, MotorErrs, MotorSilent,
       Simulate, vars

\* The call is legal, and so is the access it is at.
LEMMA CallType ==
    ASSUME TypeInv, Started
    PROVE  /\ LegalCall(task) /\ Len(task) \in Nat /\ DOMAIN task = 1 .. Len(task)
           /\ \A s \in DOMAIN task : task[s] \in Accesses
           /\ step \in DOMAIN task /\ Cur \in Accesses
           /\ peer = "motor" => \A s \in DOMAIN task : Served(task[s])
<1>1. LegalCall(task)
  BY WireAssumption DEF TypeInv
<1>2. task \in Seq(Accesses)
  BY <1>1 DEF LegalCall
<1>3. /\ Len(task) \in Nat /\ DOMAIN task = 1 .. Len(task)
      /\ \A s \in DOMAIN task : task[s] \in Accesses
  BY <1>2, SeqHas
<1>4. step \in DOMAIN task
  BY <1>3 DEF TypeInv
<1>5. peer = "motor" => \A s \in DOMAIN task : Served(task[s])
  BY WireAssumption DEF TypeInv
<1> QED
  BY <1>1, <1>3, <1>4, <1>5 DEF Cur

\* A call goes on to its next access, or is over.
LEMMA Onward ==
    ASSUME TypeInv, pc # "idle", NextAccess
    PROVE  \/ /\ step = Len(task) /\ pc' = "idle" /\ outcome' = "ok"
              /\ UNCHANGED <<step, retry, misses>>
           \/ /\ step # Len(task) /\ pc' = "access" /\ outcome' = outcome
              /\ step' = step + 1 /\ step' \in 1 .. Len(task)
              /\ retry' = 0 /\ misses' = {}
<1>1. Started /\ Len(task) \in Nat /\ step \in 1 .. Len(task)
  BY CallType DEF TypeInv, Started
<1>2. step # Len(task) => step + 1 \in 1 .. Len(task)
  BY <1>1
<1> QED
  BY <1>2 DEF NextAccess, Return

-----------------------------------------------------------------------------
(* Types *)

LEMMA TypesInit == Init => TypeInv
<1> SUFFICES ASSUME Init PROVE TypeInv
  OBVIOUS
<1>1. count \in 0 .. Period - 1
  BY WireAssumption DEF Init
<1>2. peer = "motor" => regs \in [BusIds -> [Regs -> Vals]]
  BY WireAssumption DEF Init
<1> QED
  BY <1>1, <1>2 DEF Init, TypeInv, Started

LEMMA TypesStart == TypeInv /\ StartCall => TypeInv'
<1> SUFFICES ASSUME TypeInv, StartCall PROVE TypeInv'
  OBVIOUS
<1>1. task' \in (IF peer = "motor" THEN MotorCalls ELSE SimulatedCalls) /\ task' # << >>
  BY WireAssumption DEF StartCall, LegalCall
<1>2. 1 \in 1 .. Len(task') /\ DOMAIN got' = DOMAIN task'
  <2>1. task' \in Seq(Accesses)
    BY <1>1, WireAssumption DEF LegalCall
  <2>2. Len(task') \in Nat \ {0}
    BY <1>1, <2>1, EmptySeq
  <2> QED
    BY <2>2 DEF StartCall
<1>3. step = 1 /\ done = {} /\ ~Started
  BY DEF StartCall, TypeInv, Started
<1> QED
  BY <1>1, <1>2, <1>3 DEF StartCall, TypeInv, Started, setup, motor

LEMMA TypesProceed ==
    ASSUME TypeInv, pc # "idle", NextAccess, sample' = NoVals, Rest, DOMAIN got' = DOMAIN got
    PROVE  TypeInv'
<1>1. Started /\ Started'
  BY Onward DEF TypeInv, Started
<1>2. step' \in 1 .. Len(task) /\ retry' \in Nat
  BY <1>1, Onward DEF TypeInv
<1> QED
  BY <1>1, <1>2, Onward DEF TypeInv, Rest, setup, motor

LEMMA TypesCall ==
    ASSUME TypeInv, pc # "idle", (\E vals : Succeeds(vals)) \/ Fails \/ Retries
    PROVE  TypeInv'
<1>1. Started /\ step \in DOMAIN task /\ DOMAIN got = DOMAIN task
  BY CallType DEF TypeInv, Started
<1>2. ASSUME NEW vals, Succeeds(vals) PROVE TypeInv'
  BY <1>1, <1>2, TypesProceed DEF Succeeds, AccessSucceeds
<1>3. CASE Fails
  <2>1. CASE Return("failed")
    BY <1>1, <1>3, <2>1 DEF Fails, AccessFails, Return, TypeInv, Started, Rest, setup, motor
  <2>2. CASE NextAccess
    BY <1>3, <2>2, TypesProceed DEF Fails, AccessFails
  <2> QED
    BY <1>3, <2>1, <2>2 DEF Fails, AccessFails
<1>4. CASE Retries
  BY <1>1, <1>4 DEF Retries, Again, TypeInv, Started, Rest, setup, motor
<1> QED
  BY <1>2, <1>3, <1>4

\* What a motor that decodes the current request does.
LEMMA Decoded ==
    ASSUME TypeInv, RequestInv, pc = "request"
    PROVE  /\ Started /\ frame = RequestFrame(Cur) /\ frame.id = Cur.motor % 32
           /\ frame.data[1] = CMD_READ <=> Cur.cmd = "read"
           /\ frame.data[1] = CMD_WRITE <=> Cur.cmd = "write"
           /\ frame.data[2] = Cur.reg
           /\ Cur.cmd = "read" => frame.data[3] = Cur.count
           /\ Cur.cmd = "write" => frame.data[3] + 256 * frame.data[4] = Cur.val
<1>1. Started /\ Cur \in Accesses
  BY CallType DEF TypeInv, Started
<1>2. Cur.cmd \in {"read", "write"} /\ Cur.val \in Word16
  BY <1>1 DEF Accesses
<1>3. frame = RequestFrame(Cur)
  BY DEF RequestInv
<1>4. CMD_READ # CMD_WRITE
  BY DEF CMD_READ, CMD_WRITE
<1>5. CASE Cur.cmd = "read"
  <2>1. frame.id = Cur.motor % 32 /\ frame.data = <<CMD_READ, Cur.reg, Cur.count>>
    BY <1>3, <1>5 DEF RequestFrame, ReadFrame, FiveBits
  <2> QED
    BY <1>1, <1>3, <1>4, <1>5, <2>1
<1>6. CASE Cur.cmd = "write"
  <2>1. /\ frame.id = Cur.motor % 32
        /\ frame.data = <<CMD_WRITE, Cur.reg, Cur.val % 256, Cur.val \div 256>>
    BY <1>3, <1>6 DEF RequestFrame, WriteFrame, FiveBits
  <2>2. (Cur.val % 256) + 256 * (Cur.val \div 256) = Cur.val
    BY <1>2, TwoBytes
  <2> QED
    BY <1>1, <1>3, <1>4, <1>6, <2>1, <2>2
<1> QED
  BY <1>2, <1>5, <1>6

\* The registers a read names, in a motor's file.
LEMMA ContentType ==
    ASSUME TypeInv, peer = "motor", NEW s \in Accesses, Served(s)
    PROVE  /\ Holds(s) \in Seq(Vals) /\ Holds(s) \in Seq(Word16)
           /\ Len(Holds(s)) = s.count
           /\ Holds(s) # NoVals
<1>1. PICK n \in Nat : n = s.count
  BY AccessType
<1>2. PICK m \in BusIds : m = s.motor % 32
  BY DEF Served, BusIds
<1>3. \A i \in 1 .. n : s.reg + i - 1 \in Regs
  BY <1>1 DEF Served
<1>4. \A i \in 1 .. n : regs[m][s.reg + i - 1] \in Vals
  BY <1>2, <1>3 DEF TypeInv
<1>5. Holds(s) = [i \in 1 .. n |-> regs[m][s.reg + i - 1]]
  BY <1>1, <1>2 DEF Holds, Content
<1>6. Holds(s) \in [1 .. n -> Vals]
  BY <1>4, <1>5
<1>7. Holds(s) \in Seq(Vals) /\ Len(Holds(s)) = n
  BY <1>6, SeqOf
<1>8. Holds(s) \in Seq(Word16)
  BY <1>7, WireAssumption, SeqMonotonic
<1> QED
  BY <1>1, <1>7, <1>8, WireAssumption

LEMMA TypesMotor == TypeInv /\ RequestInv /\ Motor => TypeInv'
<1> SUFFICES ASSUME TypeInv, RequestInv, Motor PROVE TypeInv'
  OBVIOUS
<1>1. Started /\ step \in DOMAIN task /\ peer = "motor" /\ Cur \in Accesses /\ Served(Cur)
  <2>1. pc # "idle" /\ peer = "motor"
    BY DEF Motor, MotorReads, MotorWrites, MotorRefuses, MotorErrs, MotorSilent
  <2> QED
    BY <2>1, CallType DEF TypeInv, Started, Cur
<1>2. UNCHANGED <<setup, caller>> /\ pc' \in {"reply", "silence"} /\ UNCHANGED count
  BY DEF Motor, MotorReads, MotorWrites, MotorRefuses, MotorErrs, MotorSilent, Reply
<1>3. pc \in {"request", "reply"}
  BY DEF Motor, MotorReads, MotorWrites, MotorRefuses, MotorErrs, MotorSilent
<1>4. sample' \in Seq(Vals) \cup {NoVals}
  <2>1. CASE MotorReads
    BY <1>1, <2>1, Decoded, ContentType DEF MotorReads, Holds, Content
  <2>2. CASE ~MotorReads
    BY <2>2 DEF Motor, MotorWrites, MotorRefuses, MotorErrs, MotorSilent, TypeInv
  <2> QED
    BY <2>1, <2>2
<1>5. done' \subseteq DOMAIN task /\ regs' \in [BusIds -> [Regs -> Vals]]
  <2>1. CASE MotorWrites
    <3>1. Cur.cmd = "write" /\ Cur.reg \in Regs /\ Cur.val \in Vals
      BY <1>1, <2>1, Decoded DEF MotorWrites, Served
    <3>2. regs' = [regs EXCEPT ![Cur.motor % 32] =
                    [regs[Cur.motor % 32] EXCEPT ![Cur.reg] = Cur.val]]
      BY <2>1, <3>1, Decoded DEF MotorWrites
    <3>3. regs' \in [BusIds -> [Regs -> Vals]]
      BY <1>1, <3>1, <3>2 DEF TypeInv
    <3> QED
      BY <1>1, <2>1, <3>3 DEF MotorWrites, TypeInv
  <2>2. CASE ~MotorWrites
    BY <1>1, <2>2 DEF Motor, MotorReads, MotorRefuses, MotorErrs, MotorSilent, TypeInv, motor
  <2> QED
    BY <2>1, <2>2
<1>6. Started' /\ outcome' = outcome /\ outcome = "busy"
  BY <1>2, <1>3 DEF Started, caller, TypeInv
<1>7. ~Rejected /\ retry < retry_count /\ (Rejected' <=> Rejected)
  BY <1>2, <1>3 DEF TypeInv, Rejected, Single, Cur, setup, caller
<1> QED
  BY <1>1, <1>2, <1>4, <1>5, <1>6, <1>7 DEF TypeInv, setup, caller

LEMMA TypesStep == TypeInv /\ RequestInv /\ [Next]_vars => TypeInv'
<1> SUFFICES ASSUME TypeInv, RequestInv, [Next]_vars PROVE TypeInv'
  OBVIOUS
<1>1. CASE StartCall
  BY <1>1, TypesStart
<1>2. CASE GiveUp \/ Unanswered \/ Conclude
  BY <1>2, CallSteps, TypesCall
<1>3. CASE Transmit
  BY <1>3 DEF Transmit, TypeInv, Started, Rejected, Single, Cur, setup, caller, motor
<1>4. CASE Motor
  BY <1>4, TypesMotor
<1>5. CASE Simulate
  <2>1. count' \in 0 .. Period - 1
    BY <1>5, WireAssumption DEF Simulate, TypeInv
  <2>2. pc' \in {"reply", "silence"} /\ UNCHANGED <<setup, caller, motor, sample, misses, refused>>
    BY <1>5 DEF Simulate, Reply
  <2> QED
    BY <1>5, <2>1, <2>2
    DEF Simulate, TypeInv, Started, Rejected, Single, Cur, setup, caller, motor
<1>6. CASE UNCHANGED vars
  BY <1>6 DEF vars, TypeInv, Started, Rejected, Single, Cur, setup, caller, motor
<1> QED
  BY <1>1, <1>2, <1>3, <1>4, <1>5, <1>6 DEF Next, Caller, Conclude

LEMMA RequestStep == RequestInv /\ [Next]_vars => RequestInv'
<1> SUFFICES ASSUME RequestInv, [Next]_vars, pc' = "request" PROVE frame' = RequestFrame(Cur)'
  BY DEF RequestInv
<1>1. CASE Transmit
  BY <1>1 DEF Transmit, RequestFrame, Cur, caller
<1>2. CASE UNCHANGED vars
  BY <1>2 DEF RequestInv, RequestFrame, Cur, vars, caller
<1>3. ~(Conclude \/ GiveUp \/ Unanswered)
  <2>1. (\E vals : Succeeds(vals)) \/ Fails \/ Retries => pc' \in {"idle", "access"}
    BY DEF Succeeds, Fails, Retries, AccessSucceeds, AccessFails, NextAccess, Return, Again
  <2> QED
    BY <2>1, CallSteps
<1>4. ~(StartCall \/ Motor \/ Simulate)
  BY DEF StartCall, Motor, MotorReads, MotorWrites, MotorRefuses, MotorErrs, MotorSilent,
         Reply, Simulate
<1> QED
  BY <1>1, <1>2, <1>3, <1>4 DEF Next, Caller, Conclude

-----------------------------------------------------------------------------
(* Replies *)

\* A reply that the access is content with, and what the access returns then.
Suits(vals) ==
    \/ /\ Cur.cmd = "read" /\ ReadParses(frame, Cur.motor, Cur.reg)
       /\ \/ vals = ReadValues(frame) /\ Enough(vals)
          \/ Single(Cur) /\ ReadValues(frame) # << >> /\ vals = <<ReadValues(frame)[1]>>
    \/ Cur.cmd = "write" /\ WriteParses(frame, Cur.motor) /\ WriteAcknowledged(frame)
         /\ vals = NoVals

\* A reply that parses, and makes the access fail.
Disappoints ==
    \/ Cur.cmd = "read" /\ ReadParses(frame, Cur.motor, Cur.reg) /\ ~Enough(ReadValues(frame))
    \/ Cur.cmd = "write" /\ WriteParses(frame, Cur.motor) /\ ~WriteAcknowledged(frame)

\* A reply that makes the access try again.
Puzzles ==
    \/ Cur.cmd = "read" /\ ~ReadParses(frame, Cur.motor, Cur.reg)
    \/ Single(Cur) /\ ReadValues(frame) = << >>
    \/ Cur.cmd = "write" /\ ~WriteParses(frame, Cur.motor)

LEMMA Outcomes ==
    ASSUME Conclude
    PROVE  /\ pc = "reply"
           /\ \/ \E vals : Succeeds(vals) /\ Suits(vals)
              \/ Fails /\ Disappoints
              \/ Retries /\ Puzzles
<1>1. CASE ConcludeSingle
  <2>1. CASE ReadParses(frame, Cur.motor, Cur.reg) /\ ReadValues(frame) # << >>
    BY <1>1, <2>1 DEF ConcludeSingle, Succeeds, Rest, Suits, Single
  <2>2. CASE ~(ReadParses(frame, Cur.motor, Cur.reg) /\ ReadValues(frame) # << >>)
    BY <1>1, <2>2 DEF ConcludeSingle, Retries, Rest, Puzzles, Single
  <2> QED
    BY <1>1, <2>1, <2>2 DEF ConcludeSingle
<1>2. CASE ConcludeBlock
  BY <1>2 DEF ConcludeBlock, Succeeds, Fails, Retries, Rest, Suits, Disappoints, Puzzles
<1>3. CASE ConcludeWrite
  BY <1>3 DEF ConcludeWrite, Succeeds, Fails, Retries, Rest, Suits, Disappoints, Puzzles
<1> QED
  BY <1>1, <1>2, <1>3 DEF Conclude

LEMMA FirstOf ==
    ASSUME NEW values \in Seq(Word16), Len(values) >= 1
    PROVE  values # << >> /\ values[1] \in Word16 /\ SubSeq(values, 1, 1) = <<values[1]>>
<1>1. PICK n \in Nat : n = Len(values) /\ n >= 1 /\ \A i \in 1 .. n : values[i] \in Word16
  BY SeqHas
<1>2. values # << >> /\ values[1] \in Word16
  BY <1>1
<1>3. PICK s : s = SubSeq(values, 1, 1)
  OBVIOUS
<1>4. s = [i \in 1 .. 1 |-> values[i]]
  BY <1>3
<1>5. s \in Seq(Word16) /\ Len(s) = 1 /\ s[1] = values[1]
  BY <1>2, <1>4, SeqOf
<1>6. PICK one : one = <<values[1]>>
  OBVIOUS
<1>7. one \in Seq(Word16) /\ Len(one) = 1 /\ one[1] = values[1]
  BY <1>2, <1>6
<1>8. \A i \in 1 .. Len(s) : s[i] = one[i]
  BY <1>5, <1>7
<1>9. s = one
  BY <1>5, <1>7, <1>8, SeqEqual
<1> QED
  BY <1>2, <1>3, <1>6, <1>9

\* What an access gets out of the answer of a motor.
Brings(vals) ==
    IF Cur.cmd = "read"
    THEN /\ sample # NoVals /\ vals \in Seq(Word16)
         /\ Len(vals) >= Cur.count /\ SubSeq(vals, 1, Cur.count) = sample
    ELSE vals = NoVals /\ step \in done

LEMMA MotorOutcomes ==
    ASSUME TypeInv, ReplyInv, Conclude, peer = "motor"
    PROVE  /\ pc = "reply" /\ Started
           /\ \/ \E vals : Succeeds(vals) /\ Brings(vals)
              \/ Fails /\ Cur.cmd = "write" /\ refused
              \/ Retries /\ misses = 0 .. retry
<1>1. pc = "reply" /\ Started /\ Cur \in Accesses
  BY Outcomes, CallType DEF TypeInv, Started
<1>2. Cur.cmd \in {"read", "write"} /\ Cur.need \in Nat /\ Cur.count \in Nat
  BY <1>1 DEF Accesses
<1>3. Cur.need <= Cur.count /\ (Cur.need = 1 => Cur.count = 1)
  BY <1>1, CallType DEF LegalCall, Cur
<1>4. CASE misses = 0 .. retry /\ Unreadable(frame, Cur)
  BY <1>1, <1>2, <1>4, Outcomes DEF Unreadable, Suits, Disappoints
<1>5. CASE sample # NoVals /\ Carries(frame, Cur, sample)
  <2>1. PICK values \in Seq(Word16) :
          /\ values = ReadValues(frame) /\ Len(values) >= Cur.count
          /\ SubSeq(values, 1, Cur.count) = sample
    BY <1>5 DEF Carries
  <2>2. Enough(ReadValues(frame))
    BY <1>2, <1>3, <2>1 DEF Enough
  <2>3. Single(Cur) => values # << >> /\ values[1] \in Word16
                             /\ SubSeq(values, 1, 1) = <<values[1]>>
    <3>1. Single(Cur) => Len(values) >= 1
      BY <1>3, <2>1 DEF Single
    <3> QED
      BY <3>1, FirstOf
  <2>4. ASSUME NEW vals, Suits(vals) PROVE Brings(vals)
    <3>1. Cur.cmd = "read"
      BY <1>5 DEF Carries
    <3>2. CASE vals = values
      BY <1>5, <2>1, <3>1, <3>2 DEF Brings
    <3>3. CASE Single(Cur) /\ vals = <<values[1]>>
      <4>1. vals \in Seq(Word16) /\ Len(vals) = 1 /\ SubSeq(vals, 1, 1) = vals
        <5>1. vals \in Seq(Word16) /\ Len(vals) = 1
          BY <2>3, <3>3
        <5>2. SubSeq(vals, 1, Len(vals)) = vals
          BY <5>1, SubSeqFull
        <5> QED
          BY <5>1, <5>2
      <4> QED
        BY <1>3, <1>5, <2>1, <2>3, <3>1, <3>3, <4>1 DEF Brings, Single
    <3> QED
      BY <2>1, <2>4, <3>1, <3>2, <3>3 DEF Suits
  <2>5. ~Disappoints /\ ~Puzzles
    BY <1>5, <2>1, <2>2, <2>3 DEF Carries, Disappoints, Puzzles
  <2> QED
    BY <1>1, <2>4, <2>5, Outcomes
<1>6. CASE Acknowledges(frame, Cur) /\ (IF WriteAcknowledged(frame) THEN step \in done ELSE refused)
  <2>1. Cur.cmd = "write" /\ ~Single(Cur) /\ WriteParses(frame, Cur.motor)
    BY <1>6 DEF Acknowledges, Single
  <2>2. ~Puzzles
    BY <2>1 DEF Puzzles
  <2> QED
    BY <1>1, <1>6, <2>1, <2>2, Outcomes DEF Suits, Disappoints, Brings
<1> QED
  BY <1>1, <1>4, <1>5, <1>6 DEF ReplyInv

-----------------------------------------------------------------------------
(* Attempts and their replies *)

LEMMA Attempts ==
    ASSUME NEW n \in Nat
    PROVE  (0 .. n - 1) \cup {n} = 0 .. n /\ (0 .. n) \cup {n} = 0 .. n /\ 0 .. n + 1 - 1 = 0 .. n
OBVIOUS

LEMMA Answered ==
    ASSUME TypeInv, RequestInv, MotorReads
    PROVE  /\ Cur.cmd = "read" /\ sample' = Holds(Cur) /\ sample' # NoVals
           /\ Carries(frame', Cur, sample')
<1>1. peer = "motor" /\ pc = "request"
  BY DEF MotorReads
<1>2. Started /\ Cur \in Accesses /\ Served(Cur)
  BY <1>1, CallType DEF TypeInv, Started, Cur
<1>3. /\ Cur.cmd = "read" /\ frame.id = Cur.motor % 32
      /\ frame.data[2] = Cur.reg /\ frame.data[3] = Cur.count
  BY <1>1, Decoded DEF MotorReads
<1>4. PICK values \in Seq(Word16) :
        values = Holds(Cur) /\ Len(values) = Cur.count /\ values # NoVals
  BY <1>1, <1>2, ContentType
<1>5. sample' = values
  BY <1>3, <1>4 DEF MotorReads, Holds
<1>6. /\ frame'.id = ResponseId(Cur.motor)
      /\ frame'.data = ReadData(Cur.reg, values)
  BY <1>3, <1>4 DEF MotorReads, Holds, Reply, ResponseId, FiveBits, ReadData, ReadBytes
<1>7. Carries(frame', Cur, values)
  BY <1>2, <1>3, <1>4, <1>6, ReadReply
<1> QED
  BY <1>3, <1>4, <1>5, <1>7

LEMMA Acknowledged ==
    ASSUME TypeInv, RequestInv, MotorWrites \/ MotorRefuses
    PROVE  /\ Acknowledges(frame', Cur)
           /\ IF WriteAcknowledged(frame') THEN step \in done' ELSE refused'
<1>1. Cur.cmd = "write" /\ frame.id = Cur.motor % 32
  BY Decoded DEF MotorWrites, MotorRefuses
<1>2. PICK bytes :
        /\ bytes = frame'.data /\ frame'.id = ResponseId(Cur.motor)
        /\ \/ bytes = <<CMD_WRITE, frame.data[2], WRITE_SUCCESS>> /\ done' = done \cup {step}
           \/ bytes = <<CMD_WRITE, frame.data[2], WRITE_FAILED>> /\ refused' = TRUE
  BY <1>1 DEF MotorWrites, MotorRefuses, Reply, ResponseId, FiveBits
<1>3. Len(bytes) = 3 /\ bytes[1] = CMD_WRITE
  BY <1>2
<1>4. CMD_WRITE # CMD_ERR /\ WRITE_FAILED # WRITE_SUCCESS
  BY DEF CMD_WRITE, CMD_ERR, WRITE_FAILED, WRITE_SUCCESS
<1>5. Acknowledges(frame', Cur)
  BY <1>1, <1>2, <1>3, <1>4 DEF Acknowledges, WriteParses, ValidResponse
<1>6. WriteAcknowledged(frame') <=> bytes[3] = WRITE_SUCCESS
  BY <1>2 DEF WriteAcknowledged
<1>7. IF WriteAcknowledged(frame') THEN step \in done' ELSE refused'
  BY <1>2, <1>4, <1>6
<1> QED
  BY <1>5, <1>7

LEMMA Garbled ==
    ASSUME MotorErrs, NEW s
    PROVE  Unreadable(frame', s)
<1>1. PICK bytes : bytes = frame'.data /\ (bytes = <<CMD_ERR, 1>> \/ bytes = << >>)
  BY DEF MotorErrs, Reply
<1>2. ~(Len(bytes) >= 2 /\ bytes[1] # CMD_ERR)
  BY <1>1
<1> QED
  BY <1>1, <1>2 DEF Unreadable, ReadParses, WriteParses, ValidResponse

\* The access moves on, or the call is over.
LEMMA ReplyProceed ==
    ASSUME TypeInv, pc # "idle", NextAccess \/ Return("failed")
    PROVE  ReplyInv'
<1>1. pc' = "idle" \/ (pc' = "access" /\ retry' = 0 /\ misses' = {})
  BY Onward DEF Return
<1>2. 0 .. 0 - 1 = {}
  OBVIOUS
<1> QED
  BY <1>1, <1>2 DEF ReplyInv

LEMMA ReplyStep == TypeInv /\ RequestInv /\ ReplyInv /\ [Next]_vars => ReplyInv'
<1> SUFFICES ASSUME TypeInv, RequestInv, ReplyInv, [Next]_vars, peer' = "motor" PROVE ReplyInv'
  BY DEF ReplyInv
<1>1. peer = "motor" /\ retry \in Nat
  BY Setup DEF TypeInv, setup
<1>2. CASE StartCall
  <2>1. misses = {} /\ retry = 0 /\ 0 .. retry - 1 = {}
    BY <1>2 DEF StartCall, TypeInv, Started
  <2> QED
    BY <1>2, <2>1 DEF StartCall, ReplyInv
<1>3. CASE GiveUp
  BY <1>3, ReplyProceed DEF GiveUp, AccessFails
<1>4. CASE Transmit
  BY <1>1, <1>4 DEF Transmit, ReplyInv, caller
<1>5. CASE Unanswered
  BY <1>1, <1>5, Attempts DEF Unanswered, Again, ReplyInv
<1>6. CASE Conclude
  <2>1. pc # "idle"
    BY <1>6, Outcomes
  <2>2. ASSUME NEW vals, Succeeds(vals) PROVE ReplyInv'
    BY <2>1, <2>2, ReplyProceed DEF Succeeds, AccessSucceeds
  <2>3. CASE Fails
    BY <2>1, <2>3, ReplyProceed DEF Fails, AccessFails
  <2>4. CASE Retries /\ misses = 0 .. retry
    BY <1>1, <2>4, Attempts DEF Retries, Again, ReplyInv
  <2> QED
    BY <1>1, <1>6, <2>2, <2>3, <2>4, MotorOutcomes
<1>7. CASE MotorReads
  <2>1. pc' = "reply" /\ misses' = 0 .. retry' - 1 /\ Cur' = Cur
    BY <1>1, <1>7 DEF MotorReads, Reply, ReplyInv, Cur, caller
  <2> QED
    BY <1>7, <2>1, Answered DEF ReplyInv
<1>8. CASE MotorWrites \/ MotorRefuses
  <2>1. pc' = "reply" /\ misses' = 0 .. retry' - 1 /\ Cur' = Cur /\ step' = step
    BY <1>1, <1>8 DEF MotorWrites, MotorRefuses, Reply, ReplyInv, Cur, caller
  <2> QED
    BY <1>8, <2>1, Acknowledged DEF ReplyInv
<1>9. CASE MotorErrs
  <2>1. pc' = "reply" /\ misses' = 0 .. retry'
    BY <1>1, <1>9, Attempts DEF MotorErrs, Reply, ReplyInv, caller
  <2>2. Unreadable(frame', Cur')
    BY <1>9, Garbled
  <2> QED
    BY <2>1, <2>2 DEF ReplyInv
<1>10. CASE MotorSilent
  <2>1. misses \in {0 .. retry, 0 .. retry - 1}
    BY <1>1, <1>10 DEF MotorSilent, ReplyInv
  <2> QED
    BY <1>1, <1>10, <2>1, Attempts DEF MotorSilent, ReplyInv, caller
<1>11. CASE Simulate
  BY <1>1, <1>11 DEF Simulate
<1>12. CASE UNCHANGED vars
  <2>1. Cur' = Cur /\ UNCHANGED <<setup, pc, frame, caller, motor, sample, misses, refused>>
    BY <1>12 DEF vars, Cur, caller
  <2> QED
    BY <2>1 DEF ReplyInv, setup, caller, motor
<1> QED
  BY <1>2, <1>3, <1>4, <1>5, <1>6, <1>7, <1>8, <1>9, <1>10, <1>11, <1>12
  DEF Next, Caller, Motor, Conclude

-----------------------------------------------------------------------------
(* The steps of a call to a motor, by their effects *)

Bystander ==
    /\ UNCHANGED <<setup, caller, motor, sample>>
    /\ pc' = "idle" <=> pc = "idle"
    /\ pc = "idle" => UNCHANGED <<misses, refused>>

LEMMA Effects ==
    ASSUME TypeInv, RequestInv, ReplyInv, [Next]_vars, peer = "motor"
    PROVE  \/ StartCall
           \/ pc = "reply" /\ Started /\ \E vals : Succeeds(vals) /\ Brings(vals)
           \/ /\ pc # "idle" /\ Started /\ Fails
              /\ Rejected \/ refused \/ (retry >= retry_count /\ misses = 0 .. retry - 1)
           \/ pc # "idle" /\ Started /\ Retries
           \/ pc = "request" /\ Started /\ (MotorReads \/ MotorWrites)
           \/ Bystander
<1>1. pc # "idle" => Started
  BY DEF TypeInv, Started
<1>2. CASE GiveUp
  BY <1>1, <1>2 DEF GiveUp, Fails, Rest, ReplyInv
<1>3. CASE Unanswered
  BY <1>1, <1>3, CallSteps
<1>4. CASE Conclude
  BY <1>1, <1>4, MotorOutcomes
<1>5. CASE MotorReads \/ MotorWrites
  BY <1>1, <1>5 DEF MotorReads, MotorWrites
<1>6. CASE Transmit \/ MotorRefuses \/ MotorErrs \/ MotorSilent
  BY <1>6 DEF Transmit, MotorRefuses, MotorErrs, MotorSilent, Reply, Bystander, motor
<1>7. CASE Simulate
  BY <1>7 DEF Simulate
<1>8. CASE UNCHANGED vars
  BY <1>8 DEF vars, Bystander
<1> QED
  BY <1>2, <1>3, <1>4, <1>5, <1>6, <1>7, <1>8 DEF Next, Caller, Motor, Conclude

MotorInv == TypeInv /\ RequestInv /\ ReplyInv

-----------------------------------------------------------------------------
(* A call fails only for a reason *)

LEMMA ReasonStep == MotorInv /\ FailsForAReason /\ [Next]_vars => FailsForAReason'
<1> SUFFICES ASSUME MotorInv, FailsForAReason, [Next]_vars, peer' = "motor", outcome' = "failed"
             PROVE  Rejected' \/ refused' \/ Cardinality(misses') >= retry_count'
  BY DEF FailsForAReason
<1>1. peer = "motor" /\ retry \in Nat /\ retry_count \in Nat
  <2>1. retry_count \in Nat /\ retry \in Nat
    BY WireAssumption DEF MotorInv, TypeInv
  <2>2. peer' = peer
    BY Setup DEF setup
  <2> QED
    BY <2>1, <2>2
<1>2. outcome = "failed" => pc = "idle"
  BY DEF MotorInv, TypeInv
<1>3. CASE StartCall
  BY <1>3 DEF StartCall
<1>4. ASSUME NEW vals, pc # "idle", Succeeds(vals) PROVE FALSE
  BY <1>2, <1>4, Onward DEF Succeeds, AccessSucceeds, MotorInv
<1>5. CASE /\ pc # "idle" /\ Started /\ Fails
           /\ Rejected \/ refused \/ (retry >= retry_count /\ misses = 0 .. retry - 1)
  <2>1. ~NextAccess
    BY <1>2, <1>5, Onward DEF MotorInv
  <2>2. /\ UNCHANGED <<peer, initialized, retry_count, task, step, misses, refused>>
    BY <1>5, <2>1 DEF Fails, AccessFails, Return, Rest, setup
  <2>3. Rejected' <=> Rejected
    BY <2>2 DEF Rejected, Cur
  <2>4. Cardinality(0 .. retry - 1) = retry
    <3>1. Cardinality(0 .. retry - 1) = IF 0 > retry - 1 THEN 0 ELSE retry - 1 - 0 + 1
      BY <1>1, FS_Interval
    <3> QED
      BY <1>1, <3>1
  <2> QED
    BY <1>5, <2>2, <2>3, <2>4
<1>6. CASE pc # "idle" /\ Started /\ Retries
  BY <1>2, <1>6 DEF Retries, Again
<1>7. CASE pc = "request" /\ (MotorReads \/ MotorWrites)
  BY <1>2, <1>7 DEF MotorReads, MotorWrites, caller
<1>8. CASE Bystander
  <2>1. outcome = "failed"
    BY <1>8 DEF Bystander, caller
  <2>2. UNCHANGED <<peer, initialized, retry_count, task, step, misses, refused>>
    BY <1>2, <1>8, <2>1 DEF Bystander, setup, caller
  <2>3. Rejected' <=> Rejected
    BY <2>2 DEF Rejected, Cur
  <2> QED
    BY <1>1, <2>1, <2>2, <2>3 DEF FailsForAReason
<1> QED
  BY <1>1, <1>3, <1>4, <1>5, <1>6, <1>7, <1>8, Effects DEF MotorInv

-----------------------------------------------------------------------------
(* What has been returned *)

LEMMA AheadStep == MotorInv /\ AheadInv /\ [Next]_vars => AheadInv'
<1> SUFFICES ASSUME MotorInv, AheadInv, [Next]_vars, outcome' = "busy",
                    NEW s \in DOMAIN task', s >= step'
             PROVE  got'[s] = NoVals
  BY DEF AheadInv
<1>1. CASE StartCall
  BY <1>1 DEF StartCall
<1>2. ASSUME NEW vals, pc # "idle", Succeeds(vals) PROVE got'[s] = NoVals
  <2>0. TypeInv /\ Started /\ outcome = "busy" /\ NextAccess
    BY <1>2 DEF Succeeds, AccessSucceeds, MotorInv, TypeInv, Started
  <2>1. step \in Nat /\ step' = step + 1 /\ outcome = "busy"
    BY <1>2, <2>0, Onward, CallType
  <2>2. got' = [got EXCEPT ![step] = vals] /\ task' = task
    BY <1>2 DEF Succeeds, AccessSucceeds, Rest
  <2>3. s \in Int /\ DOMAIN got = DOMAIN task
    BY <1>2, <2>2, CallType DEF MotorInv, TypeInv, Started
  <2>4. s # step /\ s >= step
    BY <2>1, <2>3
  <2> QED
    BY <2>1, <2>2, <2>3, <2>4 DEF AheadInv
<1>3. CASE pc # "idle" /\ Fails
  <2>1. outcome = "busy" /\ task' = task /\ got' = got
    BY <1>3 DEF Fails, AccessFails, Rest, MotorInv, TypeInv
  <2>2. s >= step
    <3>1. NextAccess
      BY <1>3 DEF Fails, AccessFails, Return
    <3>2. TypeInv /\ Started
      BY <1>3 DEF MotorInv, TypeInv, Started
    <3>3. step \in Nat /\ step' = step + 1 /\ s \in Int
      BY <1>3, <2>1, <3>1, <3>2, Onward, CallType
    <3> QED
      BY <3>3
  <2> QED
    BY <2>1, <2>2 DEF AheadInv
<1>4. CASE pc # "idle" /\ Retries
  BY <1>4 DEF Retries, Again, Rest, AheadInv
<1>5. CASE Transmit \/ Motor \/ Simulate \/ UNCHANGED vars
  <2>1. UNCHANGED caller
    BY <1>5 DEF Transmit, Motor, MotorReads, MotorWrites, MotorRefuses, MotorErrs, MotorSilent,
                Simulate, vars
  <2> QED
    BY <2>1 DEF caller, AheadInv
<1> QED
  BY <1>1, <1>2, <1>3, <1>4, <1>5, CallSteps DEF Next, Caller, Conclude

\* An access that is over leaves the call, and what the motor has, as they are.
LEMMA Over ==
    ASSUME TypeInv, Started, pc # "idle", NEW vals, Succeeds(vals) \/ Fails
    PROVE  /\ UNCHANGED <<peer, task, regs, done>> /\ sample' = NoVals
           /\ Succeeds(vals) => got' = [got EXCEPT ![step] = vals]
           /\ Fails => got' = got
           /\ \A s \in DOMAIN task : Past(s)' => Past(s) \/ s = step
           /\ Fails /\ Cur.must => \A s \in DOMAIN task : ~Past(s)'
<1>1. UNCHANGED <<peer, task, regs, done>> /\ sample' = NoVals
  BY DEF Succeeds, Fails, Rest, setup, motor
<1>2. /\ Succeeds(vals) => got' = [got EXCEPT ![step] = vals]
      /\ Fails => got' = got
      /\ Fails /\ Cur.must => outcome' = "failed"
  BY DEF Succeeds, Fails, AccessSucceeds, AccessFails, Return
<1>3. ASSUME NEW s \in DOMAIN task, Past(s)' PROVE Past(s) \/ s = step
  <2>1. step \in 1 .. Len(task) /\ DOMAIN task = 1 .. Len(task) /\ Len(task) \in Nat
        /\ outcome = "busy"
    BY CallType DEF TypeInv
  <2>2. CASE NextAccess
    <3>1. step = Len(task) \/ step' = step + 1
      BY <2>2, Onward
    <3>2. CASE step = Len(task)
      BY <2>1, <3>2 DEF Past
    <3>3. CASE step' = step + 1 /\ outcome' = outcome
      BY <1>3, <2>1, <3>3 DEF Past
    <3> QED
      BY <2>2, <3>2, <3>3, Onward
  <2>3. CASE outcome' = "failed"
    BY <1>3, <2>3 DEF Past
  <2> QED
    BY <2>2, <2>3 DEF Succeeds, Fails, AccessSucceeds, AccessFails, Return
<1>4. outcome' = "failed" => \A s \in DOMAIN task : ~Past(s)'
  BY DEF Past
<1> QED
  BY <1>1, <1>2, <1>3, <1>4

\* What a motor's write does to the registers.
LEMMA Written ==
    ASSUME TypeInv, RequestInv, Started, MotorWrites
    PROVE  /\ Cur.cmd = "write" /\ UNCHANGED <<peer, task, step, got, outcome, sample>>
           /\ done' = done \cup {step} /\ regs' \in [BusIds -> [Regs -> Vals]]
           /\ Cur.motor % 32 \in BusIds /\ Cur.reg \in Regs
           /\ regs'[Cur.motor % 32][Cur.reg] = Cur.val
           /\ \A m \in BusIds, r \in Regs :
                r # Cur.reg => regs'[m][r] = regs[m][r]
<1>1. peer = "motor" /\ pc = "request"
  BY DEF MotorWrites
<1>2. Cur.cmd = "write" /\ Cur.motor % 32 \in BusIds /\ Cur.reg \in Regs /\ Cur.val \in Vals
  <2>1. Served(Cur) /\ Cur.cmd = "write"
    BY <1>1, CallType, Decoded DEF Cur, MotorWrites
  <2> QED
    BY <2>1 DEF Served, BusIds
<1>3. regs' = [regs EXCEPT ![Cur.motor % 32] = [regs[Cur.motor % 32] EXCEPT ![Cur.reg] = Cur.val]]
  BY <1>1, <1>2, Decoded DEF MotorWrites
<1>4. regs \in [BusIds -> [Regs -> Vals]]
  BY <1>1 DEF TypeInv
<1>5. /\ regs' \in [BusIds -> [Regs -> Vals]]
      /\ regs'[Cur.motor % 32][Cur.reg] = Cur.val
      /\ \A m \in BusIds, r \in Regs : r # Cur.reg => regs'[m][r] = regs[m][r]
  BY <1>2, <1>3, <1>4
<1> QED
  BY <1>2, <1>5 DEF MotorWrites, setup, caller

LEMMA DoneStep == MotorInv /\ DoneInv /\ [Next]_vars => DoneInv'
<1> SUFFICES ASSUME MotorInv, DoneInv, [Next]_vars, peer' = "motor" PROVE DoneInv'
  BY DEF DoneInv
<1>1. peer = "motor"
  BY Setup DEF setup
<1>2. CASE StartCall
  <2>1. done' = {}
    BY <1>2 DEF StartCall, MotorInv, TypeInv, Started, motor
  <2> QED
    BY <2>1 DEF DoneInv
<1>3. CASE UNCHANGED <<peer, task, motor>>
  BY <1>3 DEF DoneInv, Distinct, motor
<1>4. CASE Started /\ MotorWrites
  <2>1. TypeInv /\ RequestInv /\ peer = "motor" /\ step \in DOMAIN task
    BY <1>1, <1>4, CallType DEF MotorInv
  <2>2. /\ Cur.cmd = "write" /\ task' = task
        /\ done' = done \cup {step} /\ regs'[Cur.motor % 32][Cur.reg] = Cur.val
        /\ \A m \in BusIds, r \in Regs : r # Cur.reg => regs'[m][r] = regs[m][r]
    BY <1>4, <2>1, Written
  <2>3. ASSUME NEW s \in done, s # step
        PROVE  /\ task[s].cmd = "write"
               /\ Distinct => regs'[task[s].motor % 32][task[s].reg] = task[s].val
    <3>1. s \in DOMAIN task /\ task[s].cmd = "write"
      BY <1>1, <2>1 DEF TypeInv, DoneInv
    <3>2. task[s].motor % 32 \in BusIds /\ task[s].reg \in Regs
      BY <1>4, <2>1, <3>1, CallType DEF Served, BusIds
    <3>3. Distinct => task[s].reg # Cur.reg
      BY <2>1, <2>3, <3>1 DEF Distinct, Cur
    <3> QED
      BY <1>1, <2>2, <3>1, <3>2, <3>3 DEF DoneInv
  <2>4. Distinct' = Distinct
    BY <2>2 DEF Distinct
  <2> QED
    BY <2>2, <2>3, <2>4 DEF DoneInv, Cur
<1> QED
  <2>1. Succeeds("any") \/ Fails \/ Retries \/ MotorReads \/ Bystander
        => UNCHANGED <<peer, task, motor>>
    BY DEF Succeeds, Fails, Retries, Rest, MotorReads, Bystander, setup, motor, caller
  <2>2. ASSUME NEW vals PROVE Succeeds(vals) => UNCHANGED <<peer, task, motor>>
    BY DEF Succeeds, Rest, setup
  <2> QED
    BY <1>1, <1>2, <1>3, <1>4, <2>1, <2>2, Effects DEF MotorInv

LEMMA SampleStep == MotorInv /\ SampleInv /\ [Next]_vars => SampleInv'
<1> SUFFICES ASSUME MotorInv, SampleInv, [Next]_vars, peer' = "motor", ReadsOnly', sample' # NoVals
             PROVE  sample' = Holds(Cur)'
  BY DEF SampleInv
<1>1. peer = "motor"
  BY Setup DEF setup
<1>2. ~StartCall
  BY DEF StartCall, MotorInv, TypeInv, Started
<1>3. ASSUME NEW vals PROVE ~Succeeds(vals) /\ ~Fails
  BY DEF Succeeds, Fails
<1>4. CASE Retries \/ Bystander
  <2>1. UNCHANGED <<task, step, regs, sample>>
    BY <1>4 DEF Retries, Again, Rest, Bystander, caller, motor
  <2> QED
    BY <1>1, <2>1 DEF SampleInv, ReadsOnly, Holds, Content, Cur
<1>5. CASE MotorReads
  <2>1. sample' = Holds(Cur) /\ UNCHANGED <<task, step, regs>>
    BY <1>5, Answered DEF MotorReads, MotorInv, caller, motor
  <2> QED
    BY <2>1 DEF Holds, Content, Cur
<1>6. CASE Started /\ MotorWrites
  <2>1. Cur.cmd = "write" /\ task' = task /\ step \in DOMAIN task
    BY <1>6, Written, CallType DEF MotorInv
  <2> QED
    BY <2>1 DEF ReadsOnly, Cur
<1> QED
  BY <1>1, <1>2, <1>3, <1>4, <1>5, <1>6, Effects DEF MotorInv

LEMMA PastStep ==
    MotorInv /\ AheadInv /\ SampleInv /\ PastInv /\ [Next]_vars => PastInv'
<1> SUFFICES ASSUME MotorInv, AheadInv, SampleInv, PastInv, [Next]_vars, peer' = "motor"
             PROVE  PastInv'
  BY DEF PastInv
<1>1. peer = "motor" /\ TypeInv /\ RequestInv /\ ReplyInv
  BY Setup DEF setup, MotorInv
<1>2. CASE StartCall
  <2>1. \A s \in DOMAIN task' : got'[s] = NoVals /\ ~Past(s)'
    <3>1. step = 1 /\ outcome' = "busy"
      BY <1>1, <1>2 DEF StartCall, TypeInv, Started
    <3>2. \A s \in DOMAIN task' : s \in Nat \ {0}
      BY <1>2, WireAssumption, SeqHas DEF StartCall, LegalCall
    <3> QED
      BY <1>2, <3>1, <3>2 DEF StartCall, Past
  <2> QED
    BY <2>1 DEF PastInv
<1>3. CASE UNCHANGED <<peer, task, step, got, outcome, motor>>
  BY <1>3, ZenonT(30) DEF PastInv, Past, ReadsOnly, AskedFor, Holds, Content, motor
<1>4. ASSUME NEW vals, pc = "reply", Started, Succeeds(vals), Brings(vals) PROVE PastInv'
  <2>1. /\ UNCHANGED <<peer, task, regs, done>> /\ got' = [got EXCEPT ![step] = vals]
        /\ \A s \in DOMAIN task : Past(s)' => Past(s) \/ s = step
    BY <1>1, <1>4, Over
  <2>2. step \in DOMAIN task /\ DOMAIN got = DOMAIN task
    BY <1>1, <1>4, CallType DEF TypeInv
  <2>3. \A s \in DOMAIN task : got'[s] = IF s = step THEN vals ELSE got[s]
    BY <2>1, <2>2
  <2>4. IF Cur.cmd = "read"
        THEN /\ vals \in Seq(Word16) /\ vals # NoVals
             /\ Len(vals) >= Cur.count /\ SubSeq(vals, 1, Cur.count) = sample
             /\ ReadsOnly => sample = Holds(Cur)
        ELSE vals = NoVals /\ step \in done
    BY <1>1, <1>4, WireAssumption DEF Brings, SampleInv
  <2>5. ASSUME NEW s \in DOMAIN task
        PROVE  /\ got'[s] # NoVals =>
                    /\ got'[s] \in Seq(Word16)
                    /\ Len(got'[s]) >= task[s].count
                    /\ ReadsOnly => AskedFor(s)' = Holds(task[s])
               /\ task[s].must /\ Past(s)' =>
                    IF task[s].cmd = "read" THEN got'[s] # NoVals ELSE s \in done
    <3>1. CASE s = step
      <4>1. got'[s] = vals /\ task[s] = Cur
        BY <2>3, <3>1 DEF Cur
      <4>2. AskedFor(s)' = IF vals = NoVals THEN NoVals ELSE SubSeq(vals, 1, Cur.count)
        BY <2>1, <4>1 DEF AskedFor
      <4> QED
        BY <2>4, <3>1, <4>1, <4>2
    <3>2. CASE s # step
      <4>1. got'[s] = got[s] /\ AskedFor(s)' = AskedFor(s)
        BY <2>1, <2>3, <3>2 DEF AskedFor
      <4> QED
        BY <1>1, <2>1, <3>2, <4>1 DEF PastInv
    <3> QED
      BY <3>1, <3>2
  <2> QED
    BY <2>1, <2>5 DEF PastInv, ReadsOnly, Holds, Content
<1>5. CASE pc # "idle" /\ Started /\ Fails
  <2>1. /\ UNCHANGED <<peer, task, regs, done, got>>
        /\ \A s \in DOMAIN task : Past(s)' => Past(s) \/ s = step
        /\ Cur.must => \A s \in DOMAIN task : ~Past(s)'
    BY <1>1, <1>5, Over
  <2>2. \A s \in DOMAIN task : task[s].must /\ Past(s)' => Past(s)
    BY <2>1 DEF Cur
  <2> QED
    BY <1>1, <2>1, <2>2, ZenonT(30) DEF PastInv, ReadsOnly, AskedFor, Holds, Content
<1>6. CASE Started /\ MotorWrites
  <2>1. /\ Cur.cmd = "write" /\ UNCHANGED <<peer, task, step, got, outcome>>
        /\ done \subseteq done' /\ step \in DOMAIN task
    BY <1>1, <1>6, Written, CallType
  <2>2. ~ReadsOnly
    BY <2>1 DEF ReadsOnly, Cur
  <2> QED
    BY <1>1, <2>1, <2>2 DEF PastInv, Past, ReadsOnly
<1>7. CASE Retries \/ MotorReads \/ Bystander
  <2>1. UNCHANGED <<peer, task, step, got, motor>>
    BY <1>7 DEF Retries, Again, Rest, MotorReads, Bystander, setup, caller
  <2>2. UNCHANGED outcome
    BY <1>7 DEF Retries, Again, Rest, MotorReads, Bystander, setup, caller
  <2> QED
    BY <1>3, <2>1, <2>2
<1> QED
  BY <1>1, <1>2, <1>4, <1>5, <1>6, <1>7, Effects

-----------------------------------------------------------------------------
(* The simulation *)

\* The rest of a count that is below Period.
LEMMA Remainder ==
    ASSUME NEW n \in 0 .. Period
    PROVE  /\ n % Period \in 0 .. Period - 1
           /\ n < Period => n % Period = n
           /\ n = Period => n % Period = 0
<1>1. PICK p \in Nat : p = Period /\ p > 0
  BY WireAssumption
<1>2. n \in Nat /\ n <= p
  BY <1>1
<1>3. n % p \in 0 .. p - 1
  BY <1>1, <1>2
<1>4. n < p => n % p = n
  BY <1>1, <1>2
<1>5. p % p = 0
  BY <1>1
<1> QED
  BY <1>1, <1>3, <1>4, <1>5

\* The length of a block, from a frame of at most four bytes.
LEMMA HalfBelow ==
    ASSUME NEW size \in Int, size <= 4
    PROVE  (size - 2) \div 2 \in Int /\ (size - 2) \div 2 <= 1
BY SMT

LEMMA OneValue ==
    ASSUME Len(frame.data) \in 0 .. 4
    PROVE  Len(ReadValues(frame)) \in Nat /\ Len(ReadValues(frame)) <= 1
<1>1. PICK size \in 0 .. 4 : size = Len(frame.data)
  OBVIOUS
<1>2. PICK k : k = (size - 2) \div 2
  OBVIOUS
<1>3. k \in Int /\ k <= 1
  <2>1. size \in Int /\ size <= 4
    OBVIOUS
  <2> QED
    BY <1>2, <2>1, HalfBelow
<1>4. ReadValues(frame) = [i \in 1 .. k |-> frame.data[2 * i + 1] + 256 * frame.data[2 * i + 2]]
  BY <1>1, <1>2 DEF ReadValues
<1>5. PICK n \in Nat : n <= 1 /\ 1 .. k = 1 .. n
  <2>1. CASE k = 1
    BY <2>1
  <2>2. CASE k < 1
    BY <1>3, <2>2
  <2> QED
    BY <1>3, <2>1, <2>2
<1>6. PICK values : values = ReadValues(frame)
  OBVIOUS
<1>7. DOMAIN values = 1 .. n /\ values = [i \in 1 .. n |-> values[i]]
  BY <1>4, <1>5, <1>6
<1>8. values \in [1 .. n -> {values[i] : i \in 1 .. n}]
  BY <1>7
<1>9. Len(values) = n
  BY <1>8, SeqOf
<1> QED
  BY <1>5, <1>6, <1>9

\* An access that returns, in the simulation, is the first that is insisted on.
SimulatedInv == TypeInv /\ RequestInv /\ SimulationInv

LEMMA Accepted ==
    ASSUME SimulatedInv, peer = "simulation", pc = "reply", NEW vals, Suits(vals)
    PROVE  count = 0 /\ (Cur.must => step = 1 /\ Cur.need <= 1)
<1>1. TypeInv /\ Started /\ Cur \in Accesses /\ step \in 1 .. Len(task)
  BY CallType DEF SimulatedInv, TypeInv, Started
<1>2. count = 0 /\ Len(frame.data) \in 0 .. 4 /\ ~(step > 1 /\ Cur.must)
  BY DEF SimulatedInv, SimulationInv
<1>3. Cur.need \in Nat /\ (Cur.cmd = "write" => Cur.need = 0)
  <2>1. Cur.need \in Nat
    BY <1>1, AccessType
  <2> QED
    BY <1>1, <2>1, CallType DEF LegalCall, Cur
<1>4. Cur.need <= 1
  <2>1. CASE Enough(ReadValues(frame))
    BY <1>2, <1>3, <2>1, OneValue DEF Enough
  <2> QED
    BY <1>3, <2>1 DEF Suits, Single
<1> QED
  BY <1>1, <1>2, <1>4

\* The call goes on, or is over, after the answer or without insisting on it.
LEMMA SimulationProceed ==
    ASSUME InsistsFirst, SimulatedInv, peer = "simulation", pc # "idle", Started,
           \/ Fails
           \/ (\E vals : Succeeds(vals)) /\ count = 0 /\ (Cur.must => step = 1 /\ Cur.need <= 1)
    PROVE  SimulationInv'
<1>1. TypeInv /\ LegalCall(task) /\ task \in SimulatedCalls /\ Len(task) \in Nat
      /\ DOMAIN task = 1 .. Len(task) /\ step \in 1 .. Len(task)
  BY CallType, ZenonT(30) DEF SimulatedInv, TypeInv, Started
<1>2. /\ UNCHANGED <<peer, task, count, frame>> /\ sample' = NoVals
      /\ \A s \in DOMAIN task : Past(s)' => Past(s) \/ s = step
      /\ Fails /\ Cur.must => \A s \in DOMAIN task : ~Past(s)'
  <2>1. PICK vals : Succeeds(vals) \/ Fails
    OBVIOUS
  <2> QED
    BY <1>1, <2>1, Over DEF Succeeds, Fails, Rest, setup
<1>3. CASE NextAccess
  <2>1. CASE step = Len(task) /\ pc' = "idle"
    <3>1. ASSUME NEW s \in DOMAIN task, task[s].must, Past(s)' PROVE s = 1 /\ task[s].need <= 1
      BY <1>1, <1>2, <3>1 DEF SimulatedInv, SimulationInv, Cur
    <3> QED
      BY <1>2, <2>1, <3>1 DEF SimulationInv
  <2>2. CASE step' = step + 1 /\ step' \in 1 .. Len(task) /\ pc' = "access" /\ retry' = 0
    <3>1. ASSUME NEW s \in DOMAIN task, task[s].must, Past(s)' PROVE s = 1 /\ task[s].need <= 1
      BY <1>1, <1>2, <3>1 DEF SimulatedInv, SimulationInv, Cur
    <3>2. Cur'.must => count' = 0
      <4>1. step < step' /\ step' \in DOMAIN task /\ step \in DOMAIN task
        BY <1>1, <2>2
      <4>2. task[step'].must => Cur.must
        BY <1>1, <4>1 DEF InsistsFirst, Cur
      <4>3. Cur.must /\ Fails => FALSE
        BY <1>1, <2>2 DEF Fails, AccessFails, Return
      <4> QED
        BY <1>2, <4>2, <4>3 DEF Cur
    <3> QED
      BY <1>2, <2>2, <3>1, <3>2 DEF SimulationInv
  <2> QED
    BY <1>1, <1>3, <2>1, <2>2, Onward, ZenonT(30)
<1>4. CASE Return("failed")
  BY <1>2, <1>4 DEF Return, SimulationInv, Past
<1> QED
  BY <1>3, <1>4 DEF Succeeds, Fails, AccessSucceeds, AccessFails

LEMMA SimulationStep ==
    ASSUME FewRetries, InsistsFirst
    PROVE  SimulatedInv /\ [Next]_vars => SimulationInv'
<1> SUFFICES ASSUME SimulatedInv, [Next]_vars, peer' = "simulation" PROVE SimulationInv'
  BY DEF SimulationInv
<1>1. peer = "simulation" /\ TypeInv /\ RequestInv /\ SimulationInv
  BY Setup DEF setup, SimulatedInv
<1>2. pc # "idle" => Started /\ step \in DOMAIN task
  BY <1>1, CallType DEF TypeInv, Started
<1>3. CASE StartCall
  <2>1. step' = 1 /\ \A s \in DOMAIN task' : ~Past(s)'
    <3>1. step = 1 /\ step' = 1 /\ outcome' = "busy"
      BY <1>1, <1>3 DEF StartCall, TypeInv, Started
    <3>2. \A s \in DOMAIN task' : s \in Nat \ {0}
      BY <1>3, WireAssumption, SeqHas DEF StartCall, LegalCall
    <3> QED
      BY <3>1, <3>2 DEF Past
  <2> QED
    BY <1>3, <2>1 DEF StartCall, SimulationInv
<1>4. CASE GiveUp
  BY <1>1, <1>2, <1>4, CallSteps, SimulationProceed
<1>5. CASE Transmit
  BY <1>1, <1>5 DEF Transmit, SimulationInv, Past, Cur, caller
<1>6. CASE pc \in {"silence", "reply"} /\ Retries
  <2>1. /\ pc' = "access" /\ retry' = retry + 1
        /\ UNCHANGED <<peer, step, outcome, count, frame, task>>
    BY <1>6 DEF Retries, Again, Rest, setup
  <2> QED
    BY <1>1, <1>2, <1>6, <2>1 DEF SimulationInv, Past, Cur, TypeInv
<1>7. CASE Conclude
  <2>1. ASSUME NEW vals, pc = "reply", Succeeds(vals), Suits(vals) PROVE SimulationInv'
    BY <1>1, <1>2, <2>1, Accepted, SimulationProceed
  <2>2. CASE pc = "reply" /\ Fails
    BY <1>1, <1>2, <2>2, SimulationProceed
  <2> QED
    BY <1>6, <1>7, <2>1, <2>2, Outcomes
<1>8. CASE Simulate
  <2>1. /\ pc = "request" /\ count' = (count + 1) % Period
        /\ UNCHANGED <<peer, retry, step, outcome, task>>
        /\ IF count' % Period = 0 THEN pc' = "reply" /\ Len(frame'.data) \in 0 .. 4
                                  ELSE pc' = "silence"
    <3>1. ASSUME Reply(IF frame.data[1] = CMD_READ THEN <<CMD_READ, frame.data[2], 52, 18>>
                                                  ELSE <<CMD_WRITE, frame.data[2], 1>>)
          PROVE  pc' = "reply" /\ Len(frame'.data) \in 0 .. 4
      BY <3>1 DEF Reply
    <3> QED
      BY <1>8, <3>1 DEF Simulate, Answers, setup, caller
  <2>2. count \in 0 .. Period - 1 /\ Period \in Nat \ {0}
    BY <1>1, WireAssumption DEF TypeInv
  <2>3. count' \in 0 .. Period - 1
    BY <2>1, <2>2, Remainder
  <2>4. count' % Period = 0 => count' = 0
    <3>1. count' \in 0 .. Period /\ count' < Period
      BY <2>2, <2>3
    <3> QED
      BY <3>1, Remainder
  <2>5. ASSUME step > 1, Cur.must PROVE count' = retry + 1 /\ pc' = "silence"
    <3>1. count = retry /\ retry < retry_count /\ retry \in Nat /\ retry_count \in Nat
      BY <1>1, <2>1, <2>5, WireAssumption DEF TypeInv, SimulationInv
    <3>2. retry_count < Period
      BY <1>1 DEF FewRetries, TypeInv
    <3>3. count + 1 \in 0 .. Period /\ count + 1 < Period
      BY <2>2, <3>1, <3>2
    <3>4. count' = retry + 1
      BY <2>1, <3>1, <3>3, Remainder
    <3> QED
      BY <2>1, <2>4, <3>1, <3>4
  <2> QED
    BY <1>1, <2>1, <2>4, <2>5 DEF SimulationInv, Past, Cur
<1>9. CASE UNCHANGED vars
  BY <1>1, <1>9 DEF vars, SimulationInv, Past, Cur, caller
<1>10. ~Motor
  BY <1>1 DEF Motor, MotorReads, MotorWrites, MotorRefuses, MotorErrs, MotorSilent
<1> QED
  BY <1>3, <1>4, <1>5, <1>6, <1>7, <1>8, <1>9, <1>10, CallSteps DEF Next, Caller, Conclude

-----------------------------------------------------------------------------
(* Theorems about calls to motors *)

WireInv ==
    MotorInv /\ FailsForAReason /\ AheadInv /\ SampleInv /\ DoneInv /\ PastInv

LEMMA WireInvariant == Spec => []WireInv
<1>1. Init => WireInv
  <2> SUFFICES ASSUME Init PROVE WireInv
    OBVIOUS
  <2>1. TypeInv
    BY TypesInit
  <2> QED
    BY <2>1 DEF Init, WireInv, MotorInv, RequestInv, ReplyInv, FailsForAReason, AheadInv,
                SampleInv, DoneInv, PastInv
<1>2. WireInv /\ [Next]_vars => WireInv'
  BY TypesStep, RequestStep, ReplyStep, ReasonStep, AheadStep, SampleStep, DoneStep, PastStep
  DEF WireInv, MotorInv
<1> QED
  BY <1>1, <1>2, PTL DEF Spec

(***************************************************************************)
(* A call to a motor is always at an access that its sequence has, with an *)
(* initialised driver and attempts left whenever it has transmitted, and   *)
(* the registers of every motor keep to their domain.                      *)
(***************************************************************************)
THEOREM WireTypes == Spec => []TypeInv
<1>1. WireInv => TypeInv
  BY DEF WireInv, MotorInv
<1> QED
  BY <1>1, WireInvariant, PTL

(***************************************************************************)
(* A call to a motor fails only for a reason: never because the answer was *)
(* padded to the length of a CAN FD frame, whatever the registers hold and *)
(* however many values a legal call asks for.                              *)
(***************************************************************************)
THEOREM FailuresHaveReasons == Spec => []FailsForAReason
<1>1. WireInv => FailsForAReason
  BY DEF WireInv
<1> QED
  BY <1>1, WireInvariant, PTL

-----------------------------------------------------------------------------
(* Settings *)

\* A block that a call of reads has returned is what the registers hold.
Faithful(s) ==
    \A i \in 1 .. task[s].count : got[s][i] = regs[task[s].motor % 32][task[s].reg + i - 1]

LEMMA ReadBack ==
    ASSUME WireInv, peer = "motor", outcome = "ok", ReadsOnly, NEW s \in DOMAIN task, task[s].must
    PROVE  Faithful(s)
<1>1. TypeInv /\ PastInv /\ Started
  BY DEF WireInv, MotorInv, Started
<1>2. task[s] \in Accesses /\ task[s].cmd = "read"
  BY <1>1, CallType DEF ReadsOnly
<1>3. PICK n \in Nat : n = task[s].count
  BY <1>2, AccessType
<1>4. PICK values \in Seq(Word16) :
        values = got[s] /\ Len(values) >= n /\ AskedFor(s) = Holds(task[s]) /\ got[s] # NoVals
  BY <1>1, <1>2, <1>3 DEF PastInv, Past
<1>5. PICK size \in Nat : size = Len(values) /\ \A i \in 1 .. size : values[i] \in Word16
  BY SeqHas
<1>6. SubSeq(values, 1, n) = Holds(task[s])
  BY <1>1, <1>3, <1>4 DEF AskedFor
<1>7. \A i \in 1 .. n : SubSeq(values, 1, n)[i] = values[i]
  <2>1. \A i \in 1 .. n : values[i] \in Word16
    BY <1>4, <1>5
  <2>2. \A i \in 1 .. n - 1 + 1 : SubSeq(values, 1, n)[i] = values[1 + i - 1]
    BY <2>1, SubSeqProperties
  <2> QED
    BY <2>2
<1>8. \A i \in 1 .. n : Holds(task[s])[i] = regs[task[s].motor % 32][task[s].reg + i - 1]
  BY <1>3 DEF Holds, Content
<1> QED
  BY <1>3, <1>4, <1>6, <1>7, <1>8 DEF Faithful

BlockHeld(m, reg, n) == \A i \in 1 .. n : got[1][i] = regs[m % 32][reg + i - 1]

LEMMA Block ==
    ASSUME WireInv, NEW m, NEW reg, NEW n, NEW need,
           Succeeded(<<Access(m, "read", reg, n, 0, TRUE, need)>>)
    PROVE  BlockHeld(m, reg, n)
<1>1. PICK a : a = Access(m, "read", reg, n, 0, TRUE, need)
  OBVIOUS
<1>2. a.cmd = "read" /\ a.must /\ a.count = n /\ a.reg = reg /\ a.motor = m
  BY <1>1 DEF Access
<1>3. task = <<a>> /\ peer = "motor" /\ outcome = "ok"
  BY <1>1 DEF Succeeded
<1>4. DOMAIN task = {1} /\ task[1] = a
  BY <1>3
<1>5. ReadsOnly
  BY <1>2, <1>4 DEF ReadsOnly
<1>6. Faithful(1)
  BY <1>2, <1>3, <1>4, <1>5, ReadBack
<1> QED
  BY <1>2, <1>4, <1>6 DEF Faithful, BlockHeld

\* Four writes to different registers leave their values there.
LEMMA Four ==
    ASSUME WireInv, peer = "motor", outcome = "ok", DOMAIN task = {1, 2, 3, 4}, Distinct,
           \A s \in {1, 2, 3, 4} : task[s].cmd = "write" /\ task[s].must
    PROVE  \A s \in {1, 2, 3, 4} : regs[task[s].motor % 32][task[s].reg] = task[s].val
<1>1. DoneInv /\ PastInv
  BY DEF WireInv
<1>2. {1, 2, 3, 4} \subseteq done
  BY <1>1 DEF PastInv, Past
<1> QED
  BY <1>1, <1>2 DEF DoneInv

LEMMA Pair ==
    ASSUME NEW S, NEW a \in S, NEW b \in S
    PROVE  <<a>> \o <<b>> = <<a, b>>
<1>1. PICK s, t, u : s = <<a>> /\ t = <<b>> /\ u = <<a, b>>
  OBVIOUS
<1>2. s \in Seq(S) /\ Len(s) = 1 /\ s[1] = a
  BY <1>1
<1>3. t \in Seq(S) /\ Len(t) = 1 /\ t[1] = b
  BY <1>1
<1>4. u \in Seq(S) /\ Len(u) = 2 /\ u[1] = a /\ u[2] = b
  BY <1>1
<1>5. PICK v : v = s \o t
  OBVIOUS
<1>6. /\ v \in Seq(S) /\ Len(v) = Len(s) + Len(t)
      /\ \A i \in 1 .. Len(s) + Len(t) : v[i] = IF i <= Len(s) THEN s[i] ELSE t[i - Len(s)]
  BY <1>2, <1>3, <1>5, ConcatProperties
<1>7. Len(v) = 2 /\ v[1] = a /\ v[2] = b
  <2>1. Len(s) + Len(t) = 2 /\ 1 \in 1 .. 2 /\ 2 \in 1 .. 2 /\ 2 - 1 = 1
    BY <1>2, <1>3
  <2> QED
    BY <1>2, <1>3, <1>6, <2>1
<1>8. \A i \in 1 .. Len(u) : u[i] = v[i]
  BY <1>4, <1>7
<1>9. u = v
  BY <1>4, <1>6, <1>7, <1>8, SeqEqual
<1> QED
  BY <1>1, <1>5, <1>9

LEMMA Pairs ==
    ASSUME NEW S, NEW a \in S, NEW b \in S, NEW c \in S, NEW d \in S
    PROVE  <<a, b>> \o <<c, d>> = <<a, b, c, d>>
<1>1. PICK s, t, u : s = <<a, b>> /\ t = <<c, d>> /\ u = <<a, b, c, d>>
  OBVIOUS
<1>2. s \in Seq(S) /\ Len(s) = 2 /\ s[1] = a /\ s[2] = b
  BY <1>1
<1>3. t \in Seq(S) /\ Len(t) = 2 /\ t[1] = c /\ t[2] = d
  BY <1>1
<1>4. u \in Seq(S) /\ Len(u) = 4 /\ u[1] = a /\ u[2] = b /\ u[3] = c /\ u[4] = d
  BY <1>1
<1>5. PICK v : v = s \o t
  OBVIOUS
<1>6. /\ v \in Seq(S) /\ Len(v) = Len(s) + Len(t)
      /\ \A i \in 1 .. Len(s) + Len(t) : v[i] = IF i <= Len(s) THEN s[i] ELSE t[i - Len(s)]
  BY <1>2, <1>3, <1>5, ConcatProperties
<1>7. Len(v) = 4 /\ v[1] = a /\ v[2] = b /\ v[3] = c /\ v[4] = d
  <2>1. /\ Len(s) + Len(t) = 4 /\ {1, 2, 3, 4} \subseteq 1 .. 4
        /\ ~(3 <= 2) /\ ~(4 <= 2) /\ 3 - 2 = 1 /\ 4 - 2 = 2
    BY <1>2, <1>3
  <2> QED
    BY <1>2, <1>3, <1>6, <2>1
<1>8. \A i \in 1 .. Len(u) : u[i] = v[i]
  <2>1. \A i \in 1 .. 4 : i \in {1, 2, 3, 4}
    OBVIOUS
  <2> QED
    BY <1>4, <1>7, <2>1
<1>9. u = v
  BY <1>4, <1>6, <1>7, <1>8, SeqEqual
<1> QED
  BY <1>1, <1>5, <1>9

LEMMA Halves2 ==
    ASSUME NEW m, NEW reg, NEW v
    PROVE  WriteInt32(m, reg, v) = <<Access(m, "write", reg, 1, v.low, TRUE, 0),
                                     Access(m, "write", reg + 1, 1, v.high, TRUE, 0)>>
<1>1. PICK a, b : /\ a = Access(m, "write", reg, 1, v.low, TRUE, 0)
                  /\ b = Access(m, "write", reg + 1, 1, v.high, TRUE, 0)
  OBVIOUS
<1>2. WriteInt32(m, reg, v) = <<a>> \o <<b>>
  BY <1>1 DEF WriteInt32, WriteRegister
<1>3. <<a>> \o <<b>> = <<a, b>>
  <2>1. a \in {a, b} /\ b \in {a, b}
    OBVIOUS
  <2> QED
    BY <2>1, Pair
<1> QED
  BY <1>1, <1>2, <1>3

\* The accesses of setPositionLimits, in their order.
LEMMA LimitAccesses ==
    ASSUME NEW m, NEW min, NEW max, NEW c, c = SetPositionLimits(m, min, max)
    PROVE  /\ DOMAIN c = {1, 2, 3, 4}
           /\ \A s \in {1, 2, 3, 4} :
                c[s].motor = m /\ c[s].cmd = "write" /\ c[s].must /\ c[s].reg = 67 + s
           /\ c[1].val = min.low /\ c[2].val = min.high
           /\ c[3].val = max.low /\ c[4].val = max.high
<1>1. PICK a1, a2, a3, a4 :
        /\ a1 = Access(m, "write", 68, 1, min.low, TRUE, 0)
        /\ a2 = Access(m, "write", 69, 1, min.high, TRUE, 0)
        /\ a3 = Access(m, "write", 70, 1, max.low, TRUE, 0)
        /\ a4 = Access(m, "write", 71, 1, max.high, TRUE, 0)
  OBVIOUS
<1>2. WriteInt32(m, LIT_MIN_POSITION_L, min) = <<a1, a2>>
  <2>1. LIT_MIN_POSITION_L = 68 /\ LIT_MIN_POSITION_L + 1 = 69
    BY DEF LIT_MIN_POSITION_L
  <2> QED
    BY <1>1, <2>1, Halves2
<1>3. WriteInt32(m, LIT_MAX_POSITION_L, max) = <<a3, a4>>
  <2>1. LIT_MAX_POSITION_L = 70 /\ LIT_MAX_POSITION_L + 1 = 71
    BY DEF LIT_MAX_POSITION_L
  <2> QED
    BY <1>1, <2>1, Halves2
<1>4. <<a1, a2>> \o <<a3, a4>> = <<a1, a2, a3, a4>>
  <2>1. \A a \in {a1, a2, a3, a4} : a \in {a1, a2, a3, a4}
    OBVIOUS
  <2> QED
    BY <2>1, Pairs
<1>5. c = <<a1, a2, a3, a4>>
  BY <1>2, <1>3, <1>4 DEF SetPositionLimits
<1>6. DOMAIN c = {1, 2, 3, 4} /\ c[1] = a1 /\ c[2] = a2 /\ c[3] = a3 /\ c[4] = a4
  BY <1>5
<1>7. /\ a1.motor = m /\ a1.cmd = "write" /\ a1.reg = 68 /\ a1.val = min.low /\ a1.must
      /\ a2.motor = m /\ a2.cmd = "write" /\ a2.reg = 69 /\ a2.val = min.high /\ a2.must
      /\ a3.motor = m /\ a3.cmd = "write" /\ a3.reg = 70 /\ a3.val = max.low /\ a3.must
      /\ a4.motor = m /\ a4.cmd = "write" /\ a4.reg = 71 /\ a4.val = max.high /\ a4.must
  BY <1>1 DEF Access
<1> QED
  BY <1>6, <1>7

\* Each part of SettingsReadBack.
LEMMA LimitsAreRead == WireInv => \A m \in Motors : LimitsRead(m)
<1> SUFFICES ASSUME WireInv, NEW m \in Motors, Succeeded(GetPositionLimits(m))
             PROVE  Limits(got[1]) = LimitsAt(regs[m % 32])
  BY DEF LimitsRead
<1>1. \A i \in 1 .. 4 : got[1][i] = regs[m % 32][LIT_MIN_POSITION_L + i - 1]
  <2>1. Succeeded(<<Access(m, "read", LIT_MIN_POSITION_L, 4, 0, TRUE, 4)>>)
    BY DEF GetPositionLimits, ReadBlock
  <2>2. BlockHeld(m, LIT_MIN_POSITION_L, 4)
    BY <2>1, Block
  <2> QED
    BY <2>2 DEF BlockHeld
<1>2. /\ got[1][1] = regs[m % 32][68] /\ got[1][2] = regs[m % 32][69]
      /\ got[1][3] = regs[m % 32][70] /\ got[1][4] = regs[m % 32][71]
  <2>1. {1, 2, 3, 4} \subseteq 1 .. 4
    OBVIOUS
  <2>2. /\ LIT_MIN_POSITION_L + 1 - 1 = 68 /\ LIT_MIN_POSITION_L + 2 - 1 = 69
        /\ LIT_MIN_POSITION_L + 3 - 1 = 70 /\ LIT_MIN_POSITION_L + 4 - 1 = 71
    BY DEF LIT_MIN_POSITION_L
  <2> QED
    BY <1>1, <2>1, <2>2
<1> QED
  BY <1>2 DEF Limits, LimitsAt, Int32At, LIT_MIN_POSITION_L, LIT_MAX_POSITION_L

LEMMA GainsAreRead == WireInv => \A m \in Motors : GainsRead(m)
<1> SUFFICES ASSUME WireInv, NEW m \in Motors, Succeeded(GetPIDParams(m))
             PROVE  PIDs(got[1]) = PIDsAt(regs[m % 32])
  BY DEF GainsRead
<1>1. PICK v, rf : v = got[1] /\ rf = regs[m % 32]
  OBVIOUS
<1>2. \A i \in 1 .. 13 : v[i] = rf[SEV_CURRENT_P + i - 1]
  <2>1. Succeeded(<<Access(m, "read", SEV_CURRENT_P, 13, 0, TRUE, 13)>>)
    BY DEF GetPIDParams, ReadBlock
  <2>2. BlockHeld(m, SEV_CURRENT_P, 13)
    BY <2>1, Block
  <2> QED
    BY <1>1, <2>2 DEF BlockHeld
<1>3. \A i \in 1 .. 13 : v[i] = rf[80 + i]
  <2>1. \A i \in 1 .. 13 : SEV_CURRENT_P + i - 1 = 80 + i
    BY DEF SEV_CURRENT_P
  <2> QED
    BY <1>2, <2>1
<1>4. /\ v[1] = rf[81] /\ v[2] = rf[82] /\ v[3] = rf[83]
      /\ v[4] = rf[84] /\ v[5] = rf[85] /\ v[6] = rf[86] /\ v[7] = rf[87]
      /\ v[8] = rf[88] /\ v[9] = rf[89] /\ v[10] = rf[90] /\ v[11] = rf[91]
      /\ v[12] = rf[92] /\ v[13] = rf[93]
  BY <1>3
<1>5. /\ PIDsAt(rf).current = [kp |-> rf[81], ki |-> rf[82], kd |-> rf[83]]
      /\ PIDsAt(rf).speed = [kp |-> rf[84], ki |-> rf[85], kd |-> rf[86], dead_zone |-> rf[87]]
      /\ PIDsAt(rf).position = [kp |-> rf[88], ki |-> rf[89], kd |-> rf[90], dead_zone |-> rf[91]]
      /\ PIDsAt(rf).pos_smooth_coeff = rf[92] /\ PIDsAt(rf).speed_ff_coeff = rf[93]
  BY DEF PIDsAt, SEV_CURRENT_P, SEV_SPEED_P, SEV_POSITION_P, SEV_POS_SMOOTH, SEV_SPD_FF
<1>6. PIDsAt(rf) = [current |-> PIDsAt(rf).current, speed |-> PIDsAt(rf).speed,
                    position |-> PIDsAt(rf).position,
                    pos_smooth_coeff |-> PIDsAt(rf).pos_smooth_coeff,
                    speed_ff_coeff |-> PIDsAt(rf).speed_ff_coeff]
  BY DEF PIDsAt
<1> QED
  BY <1>1, <1>4, <1>5, <1>6 DEF PIDs

LEMMA ErrorsAreRead ==
    ASSUME \A v \in Word16 : BitmapParses(v)
    PROVE  WireInv => \A m \in Motors : ErrorsRead(m)
<1> SUFFICES ASSUME WireInv, NEW m \in Motors, Succeeded(GetErrorCode(m))
             PROVE  Total(ParseErrorBitmap(got[1][1])) = regs[m % 32][SYS_ERROR]
  BY DEF ErrorsRead
<1>1. \A i \in 1 .. 1 : got[1][i] = regs[m % 32][SYS_ERROR + i - 1]
  <2>1. Succeeded(<<Access(m, "read", SYS_ERROR, 1, 0, TRUE, 1)>>)
    BY DEF GetErrorCode, ReadRegister
  <2>2. BlockHeld(m, SYS_ERROR, 1)
    BY <2>1, Block
  <2> QED
    BY <2>2 DEF BlockHeld
<1>2. got[1][1] = regs[m % 32][SYS_ERROR]
  <2>1. SYS_ERROR + 1 - 1 = SYS_ERROR /\ 1 \in 1 .. 1
    BY DEF SYS_ERROR
  <2> QED
    BY <1>1, <2>1
<1>3. peer = "motor" /\ outcome = "ok" /\ task = GetErrorCode(m) /\ TypeInv /\ Started
  BY DEF Succeeded, WireInv, MotorInv, Started
<1>4. DOMAIN task = {1} /\ task[1] = Access(m, "read", SYS_ERROR, 1, 0, TRUE, 1)
  BY <1>3 DEF GetErrorCode, ReadRegister
<1>5. regs[m % 32][SYS_ERROR] \in Word16
  <2>1. Served(Access(m, "read", SYS_ERROR, 1, 0, TRUE, 1))
    BY <1>3, <1>4, CallType
  <2>2. \A i \in 1 .. 1 : SYS_ERROR + i - 1 \in Regs
    BY <2>1 DEF Served, Access
  <2>3. SYS_ERROR + 1 - 1 \in Regs /\ SYS_ERROR + 1 - 1 = SYS_ERROR
    BY <2>2 DEF SYS_ERROR
  <2> QED
    BY <1>3, <2>3, WireAssumption DEF TypeInv, BusIds
<1> QED
  BY <1>2, <1>5 DEF BitmapParses

LEMMA LimitsAreSet == WireInv => \A m \in Motors : LimitsSet(m)
<1> SUFFICES ASSUME WireInv, NEW m \in Motors, NEW min \in Int32s, NEW max \in Int32s,
                    Succeeded(SetPositionLimits(m, min, max))
             PROVE  LimitsAt(regs[m % 32]) = [min |-> Unpack(min.low, min.high),
                                              max |-> Unpack(max.low, max.high)]
  BY DEF LimitsSet
<1>1. peer = "motor" /\ outcome = "ok" /\ task = SetPositionLimits(m, min, max)
  BY DEF Succeeded
<1>2. /\ DOMAIN task = {1, 2, 3, 4}
      /\ \A s \in {1, 2, 3, 4} : task[s].motor = m /\ task[s].cmd = "write" /\ task[s].must
                                   /\ task[s].reg = 67 + s
      /\ task[1].val = min.low /\ task[2].val = min.high
      /\ task[3].val = max.low /\ task[4].val = max.high
  BY <1>1, LimitAccesses
<1>3. Distinct
  <2> SUFFICES ASSUME NEW s \in {1, 2, 3, 4}, NEW u \in {1, 2, 3, 4}, s # u
               PROVE  task[s].reg # task[u].reg
    BY <1>2 DEF Distinct
  <2>1. task[s].reg = 67 + s /\ task[u].reg = 67 + u /\ s \in Int /\ u \in Int
    BY <1>2
  <2> QED
    BY <2>1
<1>4. \A s \in {1, 2, 3, 4} : regs[m % 32][67 + s] = task[s].val
  <2>1. \A s \in {1, 2, 3, 4} : regs[task[s].motor % 32][task[s].reg] = task[s].val
    BY <1>1, <1>2, <1>3, Four
  <2> QED
    BY <1>2, <2>1
<1>5. /\ regs[m % 32][68] = min.low /\ regs[m % 32][69] = min.high
      /\ regs[m % 32][70] = max.low /\ regs[m % 32][71] = max.high
  BY <1>2, <1>4
<1> QED
  BY <1>5 DEF LimitsAt, Int32At, LIT_MIN_POSITION_L, LIT_MAX_POSITION_L

(***************************************************************************)
(* Limits, gains and errors that a call has read are those in the motor's  *)
(* registers, and limits that it has set are in force, for all values.     *)
(* That the codes of a bitmap make the bitmap again is recursion over the  *)
(* codes, which TLC evaluates for each of the 65536 bitmaps.               *)
(***************************************************************************)
THEOREM SettingsAreTrue ==
    ASSUME \A v \in Word16 : BitmapParses(v)
    PROVE  Spec => []SettingsReadBack
<1>1. WireInv => SettingsReadBack
  BY LimitsAreRead, GainsAreRead, ErrorsAreRead, LimitsAreSet DEF SettingsReadBack
<1> QED
  BY <1>1, WireInvariant, PTL

-----------------------------------------------------------------------------
(* The builders of Protocol *)

LEMMA BuiltSingle ==
    ASSUME RequestInv, NEW m, NEW reg, NEW val
    PROVE  BuiltAs(WriteRegister(m, reg, val), <<WriteFrame(m, reg, val)>>)
<1>1. PICK a : a = Access(m, "write", reg, 1, val, TRUE, 0)
  OBVIOUS
<1>2. a.motor = m /\ a.cmd = "write" /\ a.reg = reg /\ a.val = val
  BY <1>1 DEF Access
<1>3. WriteRegister(m, reg, val) = <<a>>
  BY <1>1 DEF WriteRegister
<1>4. RequestFrame(a) = WriteFrame(m, reg, val)
  BY <1>2 DEF RequestFrame
<1>5. PICK f : f = WriteFrame(m, reg, val)
  OBVIOUS
<1>6. ASSUME pc = "request", task = <<a>>, step \in DOMAIN <<f>> PROVE frame = <<f>>[step]
  <2>1. step = 1 /\ <<f>>[1] = f /\ task[1] = a
    BY <1>6
  <2> QED
    BY <1>4, <1>5, <1>6, <2>1 DEF RequestInv, Cur
<1> QED
  BY <1>3, <1>5, <1>6 DEF BuiltAs

LEMMA BuiltPair ==
    ASSUME RequestInv, NEW m, NEW reg, NEW v
    PROVE  BuiltAs(WriteInt32(m, reg, v), Write32Frames(m, reg, v))
<1>1. PICK a, b : /\ a = Access(m, "write", reg, 1, v.low, TRUE, 0)
                  /\ b = Access(m, "write", reg + 1, 1, v.high, TRUE, 0)
  OBVIOUS
<1>2. /\ a.motor = m /\ a.cmd = "write" /\ a.reg = reg /\ a.val = v.low
      /\ b.motor = m /\ b.cmd = "write" /\ b.reg = reg + 1 /\ b.val = v.high
  BY <1>1 DEF Access
<1>3. WriteInt32(m, reg, v) = <<a, b>>
  BY <1>1, Halves2
<1>4. PICK f, g : /\ f = WriteFrame(m, reg, v.low) /\ g = WriteFrame(m, reg + 1, v.high)
                  /\ Write32Frames(m, reg, v) = <<f, g>>
  BY DEF Write32Frames, Write32Frame, Write32HighFrame
<1>5. RequestFrame(a) = f /\ RequestFrame(b) = g
  BY <1>2, <1>4 DEF RequestFrame
<1>6. ASSUME pc = "request", task = <<a, b>>, step \in DOMAIN <<f, g>>
      PROVE  frame = <<f, g>>[step]
  <2>1. step = 1 \/ step = 2
    BY <1>6
  <2>2. <<f, g>>[1] = f /\ <<f, g>>[2] = g /\ task[1] = a /\ task[2] = b
    BY <1>6
  <2> QED
    BY <1>5, <1>6, <2>1, <2>2 DEF RequestInv, Cur
<1> QED
  BY <1>3, <1>4, <1>6 DEF BuiltAs

LEMMA BuiltState ==
    ASSUME RequestInv, NEW m
    PROVE  BuiltAs(GetJointState(m), <<BuildReadState(m)>>)
<1>1. PICK a : a = Access(m, "read", CUR_CURRENT_L, 6, 0, TRUE, 6)
  OBVIOUS
<1>2. a.motor = m /\ a.cmd = "read" /\ a.reg = CUR_CURRENT_L /\ a.count = 6
  BY <1>1 DEF Access
<1>3. PICK more : /\ GetJointState(m) = <<a>> \o more
                  /\ more = Optional(ReadBlock(m, SYS_VOLTAGE, 4) \o GetWorkMode(m))
  BY <1>1 DEF GetJointState, ReadBlock
<1>4. PICK c : c = ReadBlock(m, SYS_VOLTAGE, 4) \o GetWorkMode(m)
  OBVIOUS
<1>5. DOMAIN c = 1 .. 2
  <2>1. PICK x, y : /\ x = Access(m, "read", SYS_VOLTAGE, 4, 0, TRUE, 4)
                    /\ y = Access(m, "read", TAG_WORK_MODE, 1, 0, TRUE, 1)
    OBVIOUS
  <2>2. c = <<x>> \o <<y>>
    BY <1>4, <2>1 DEF ReadBlock, GetWorkMode, ReadRegister
  <2>3. <<x>> \o <<y>> = <<x, y>>
    <3>1. x \in {x, y} /\ y \in {x, y}
      OBVIOUS
    <3> QED
      BY <3>1, Pair
  <2> QED
    BY <2>2, <2>3
<1>6. PICK S : S = {more[s] : s \in 1 .. 2} \cup {a}
  OBVIOUS
<1>7. more \in Seq(S)
  <2>1. more = [s \in 1 .. 2 |-> more[s]]
    BY <1>3, <1>4, <1>5 DEF Optional
  <2>2. more \in [1 .. 2 -> S]
    BY <1>6, <2>1
  <2> QED
    BY <2>2, SeqOf
<1>8. PICK head : head = <<a>>
  OBVIOUS
<1>9. head \in Seq(S) /\ Len(head) = 1 /\ head[1] = a
  BY <1>6, <1>8
<1>10. PICK n \in Nat : n = Len(more)
  BY <1>7, SeqHas
<1>11. (head \o more)[1] = a
  <2>1. 1 \in 1 .. Len(head) + Len(more) /\ 1 <= Len(head)
    BY <1>9, <1>10
  <2> QED
    BY <1>7, <1>9, <2>1, ConcatProperties
<1>12. RequestFrame(a) = BuildReadState(m)
  BY <1>2 DEF RequestFrame, BuildReadState
<1>13. PICK f : f = BuildReadState(m)
  OBVIOUS
<1>14. ASSUME pc = "request", task = GetJointState(m), step \in DOMAIN <<f>>
       PROVE  frame = <<f>>[step]
  <2>1. step = 1 /\ <<f>>[1] = f /\ task[1] = a
    BY <1>3, <1>8, <1>11, <1>14
  <2> QED
    BY <1>12, <1>13, <1>14, <2>1 DEF RequestInv, Cur
<1> QED
  BY <1>13, <1>14 DEF BuiltAs

(***************************************************************************)
(* The frames of Protocol's own builders are those the driver sends, for   *)
(* every motor, mode and target.                                           *)
(***************************************************************************)
THEOREM BuildersBuildTheSame == Spec => []BuildersAgree
<1>1. RequestInv => BuildersAgree
  <2> SUFFICES ASSUME RequestInv, NEW m \in Motors, NEW v \in [low : Vals, high : Vals]
               PROVE  /\ \A e \in BOOLEAN : BuiltAs(EnableMotor(m, e), <<BuildEnableMotor(m, e)>>)
                      /\ BuiltAs(ClearError(m), <<BuildClearError(m)>>)
                      /\ \A mode \in 0 .. 3 :
                           BuiltAs(SetWorkMode(m, mode), <<BuildSetWorkMode(m, mode)>>)
                      /\ BuiltAs(SaveToFlash(m), <<BuildSaveToFlash(m)>>)
                      /\ BuiltAs(SetZeroPosition(m), <<BuildSetZeroPosition(m)>>)
                      /\ BuiltAs(SetTargetCurrent(m, v), BuildSetTargetCurrent(m, v))
                      /\ BuiltAs(SetTargetSpeed(m, v), BuildSetTargetSpeed(m, v))
                      /\ BuiltAs(SetTargetPosition(m, v), BuildSetTargetPosition(m, v))
                      /\ BuiltAs(GetJointState(m), <<BuildReadState(m)>>)
    BY Zenon DEF BuildersAgree
  <2>1. \A e \in BOOLEAN : BuiltAs(EnableMotor(m, e), <<BuildEnableMotor(m, e)>>)
    BY BuiltSingle DEF EnableMotor, BuildEnableMotor
  <2>2. BuiltAs(ClearError(m), <<BuildClearError(m)>>)
    BY BuiltSingle DEF ClearError, BuildClearError
  <2>3. \A mode \in 0 .. 3 : BuiltAs(SetWorkMode(m, mode), <<BuildSetWorkMode(m, mode)>>)
    BY BuiltSingle DEF SetWorkMode, BuildSetWorkMode
  <2>4. BuiltAs(SaveToFlash(m), <<BuildSaveToFlash(m)>>)
    BY BuiltSingle DEF SaveToFlash, BuildSaveToFlash
  <2>5. BuiltAs(SetZeroPosition(m), <<BuildSetZeroPosition(m)>>)
    BY BuiltSingle DEF SetZeroPosition, BuildSetZeroPosition
  <2>6. BuiltAs(SetTargetCurrent(m, v), BuildSetTargetCurrent(m, v))
    BY BuiltPair DEF SetTargetCurrent, BuildSetTargetCurrent
  <2>7. BuiltAs(SetTargetSpeed(m, v), BuildSetTargetSpeed(m, v))
    BY BuiltPair DEF SetTargetSpeed, BuildSetTargetSpeed
  <2>8. BuiltAs(SetTargetPosition(m, v), BuildSetTargetPosition(m, v))
    BY BuiltPair DEF SetTargetPosition, BuildSetTargetPosition
  <2> QED
    BY <2>1, <2>2, <2>3, <2>4, <2>5, <2>6, <2>7, <2>8, BuiltState
<1>2. WireInv => RequestInv
  BY DEF WireInv, MotorInv
<1> QED
  BY <1>1, <1>2, WireInvariant, PTL

-----------------------------------------------------------------------------
(* Theorem about the simulation *)

(***************************************************************************)
(* In the simulation a call that succeeds has insisted on at most one      *)
(* access, and on at most one value, whatever the number of requests was   *)
(* before it, if there are fewer attempts than the simulation leaves       *)
(* requests unanswered in a row.                                           *)
(***************************************************************************)
THEOREM SimulationIsLimited ==
    ASSUME FewRetries, InsistsFirst
    PROVE  Spec => []SimulationLimits
<1>1. Init => SimulationInv
  BY DEF Init, SimulationInv, Past
<1>2. WireInv /\ SimulationInv /\ [Next]_vars => SimulationInv'
  BY SimulationStep DEF WireInv, MotorInv, SimulatedInv
<1>3. SimulationInv => SimulationLimits
  <2> SUFFICES ASSUME SimulationInv, peer = "simulation", outcome = "ok"
               PROVE  /\ Cardinality({s \in DOMAIN task : task[s].must}) <= 1
                      /\ \A s \in DOMAIN task : task[s].must => task[s].need <= 1
    BY DEF SimulationLimits
  <2>1. \A s \in DOMAIN task : task[s].must => s = 1 /\ task[s].need <= 1
    BY DEF SimulationInv, Past
  <2>2. {s \in DOMAIN task : task[s].must} \in {{}, {1}}
    BY <2>1
  <2>3. Cardinality({}) = 0 /\ Cardinality({1}) = 1
    BY FS_EmptySet, FS_Singleton
  <2>4. Cardinality({s \in DOMAIN task : task[s].must}) <= 1
    <3>1. PICK M : M = {s \in DOMAIN task : task[s].must}
      OBVIOUS
    <3>2. M = {} \/ M = {1}
      BY <2>2, <3>1
    <3>3. Cardinality(M) = 0 \/ Cardinality(M) = 1
      BY <2>3, <3>2
    <3>4. Cardinality(M) <= 1
      BY <3>3
    <3> QED
      BY <3>1, <3>4
  <2>5. \A s \in DOMAIN task : task[s].must => task[s].need <= 1
    BY <2>1
  <2> QED
    BY <2>4, <2>5
<1> QED
  BY <1>1, <1>2, <1>3, WireInvariant, PTL DEF Spec

-----------------------------------------------------------------------------
(* The wire implements RegisterService *)

\* A function of the one thread.
One(x) == [t \in {"caller"} |-> x]

LEMMA OneThread ==
    ASSUME NEW x
    PROVE  /\ One(x)["caller"] = x
           /\ \A y : [One(x) EXCEPT !["caller"] = y] = One(y)
BY DEF One

\* What the calls have got, as the service sees it.
Returned == [s \in DOMAIN task |-> AskedFor(s)]

LEMMA Mapped ==
    /\ Service!vars = <<One(Addressed(task)), One(step), One(pc # "idle"), One(Returned),
                        One(outcome), regs, One(done), One(sample)>>
BY DEF Service!vars, One, Returned

LEMMA MapsInvoke ==
    ASSUME TypeInv, StartCall, peer = "motor"
    PROVE  Service!Invoke("caller")
<1>1. /\ pc = "idle" /\ step = 1 /\ step' = 1 /\ outcome' = "busy" /\ pc' = "access"
      /\ done' = {} /\ sample' = NoVals /\ regs' = regs /\ task' \in MotorCalls
      /\ got' = [s \in DOMAIN task' |-> NoVals]
  BY DEF StartCall, TypeInv, Started, motor
<1>2. PICK c : c = Addressed(task') /\ c \in {Addressed(d) : d \in MotorCalls}
  BY <1>1
<1>3. DOMAIN c = DOMAIN task'
  BY <1>2 DEF Addressed
<1>4. Returned' = [s \in DOMAIN c |-> NoVals]
  BY <1>1, <1>3 DEF Returned, AskedFor
<1>5. /\ ~One(pc # "idle")["caller"]
      /\ c \in One({Addressed(d) : d \in MotorCalls})["caller"]
      /\ One(Addressed(task')) = [One(Addressed(task)) EXCEPT !["caller"] = c]
      /\ One(Returned') = [One(Returned) EXCEPT !["caller"] = [s \in DOMAIN c |-> NoVals]]
      /\ One(pc' # "idle") = [One(pc # "idle") EXCEPT !["caller"] = TRUE]
      /\ One(step') = [One(step) EXCEPT !["caller"] = 1]
      /\ One(outcome') = [One(outcome) EXCEPT !["caller"] = "busy"]
      /\ One(done') = [One(done) EXCEPT !["caller"] = {}]
      /\ One(sample') = [One(sample) EXCEPT !["caller"] = NoVals]
  BY <1>1, <1>2, <1>4, OneThread
<1> QED
  BY <1>1, <1>5 DEF Service!Invoke, One, Returned

\* The access that the service is at.
LEMMA ServiceAccess ==
    ASSUME TypeInv, Started
    PROVE  /\ One(Addressed(task))["caller"][One(step)["caller"]] = [Cur EXCEPT !.motor = @ % 32]
           /\ Addressed(task)[step].cmd = Cur.cmd /\ Addressed(task)[step].must = Cur.must
           /\ Addressed(task)[step].motor = Cur.motor % 32
           /\ Addressed(task)[step].reg = Cur.reg /\ Addressed(task)[step].val = Cur.val
           /\ Addressed(task)[step].count = Cur.count
           /\ Len(Addressed(task)) = Len(task)
<1>1. step \in DOMAIN task /\ Cur \in Accesses /\ DOMAIN task = 1 .. Len(task) /\ Len(task) \in Nat
  BY CallType
<1>2. Addressed(task)[step] = [Cur EXCEPT !.motor = @ % 32]
  BY <1>1 DEF Addressed, Cur
<1>3. PICK a, b : a = Cur /\ b = [a EXCEPT !.motor = @ % 32]
  OBVIOUS
<1>4. /\ b.cmd = a.cmd /\ b.must = a.must /\ b.motor = a.motor % 32
      /\ b.reg = a.reg /\ b.val = a.val /\ b.count = a.count
  BY <1>1, <1>3 DEF Accesses
<1>5. Len(Addressed(task)) = Len(task)
  <2>1. PICK S : S = {Addressed(task)[s] : s \in DOMAIN task}
    OBVIOUS
  <2>2. Addressed(task) \in [1 .. Len(task) -> S]
    BY <1>1, <2>1 DEF Addressed
  <2> QED
    BY <1>1, <2>2, SeqOf
<1> QED
  BY <1>2, <1>3, <1>4, <1>5, OneThread

\* The service moves on when the driver does.
LEMMA MapsMove ==
    ASSUME TypeInv, Started, pc # "idle", NextAccess
    PROVE  Service!MoveOn("caller")
<1>1. Len(Addressed(task)) = Len(task)
  BY ServiceAccess
<1>2. CASE step = Len(task) /\ pc' = "idle" /\ outcome' = "ok" /\ step' = step
  <2>1. /\ One(step)["caller"] = Len(One(Addressed(task))["caller"])
        /\ One(pc' # "idle") = [One(pc # "idle") EXCEPT !["caller"] = FALSE]
        /\ One(outcome') = [One(outcome) EXCEPT !["caller"] = "ok"]
        /\ One(step') = One(step)
    BY <1>1, <1>2, OneThread
  <2> QED
    BY <2>1 DEF Service!MoveOn, Service!Return, One
<1>3. CASE step # Len(task) /\ pc' = "access" /\ outcome' = outcome /\ step' = step + 1
  <2>1. /\ One(step)["caller"] # Len(One(Addressed(task))["caller"])
        /\ One(pc' # "idle") = One(pc # "idle")
        /\ One(outcome') = One(outcome)
        /\ One(step') = [One(step) EXCEPT !["caller"] = One(step)["caller"] + 1]
    <3>1. (pc' # "idle") = TRUE /\ (pc # "idle") = TRUE
      BY <1>3
    <3> QED
      BY <1>1, <1>3, <3>1, OneThread
  <2> QED
    BY <2>1 DEF Service!MoveOn, One
<1> QED
  BY <1>2, <1>3, Onward

LEMMA MapsSucceed ==
    ASSUME TypeInv, Started, AheadInv, peer = "motor", pc # "idle",
           NEW vals, Succeeds(vals), Brings(vals)
    PROVE  Service!Succeed("caller")
<1>1. /\ UNCHANGED <<task, regs, done>> /\ sample' = NoVals /\ NextAccess
      /\ got' = [got EXCEPT ![step] = vals]
  BY Over DEF Succeeds, AccessSucceeds
<1>2. step \in DOMAIN task /\ DOMAIN got = DOMAIN task /\ got[step] = NoVals
  <2>1. step \in DOMAIN task /\ DOMAIN task = 1 .. Len(task) /\ Len(task) \in Nat
    BY CallType
  <2>2. step >= step /\ outcome = "busy"
    BY <2>1 DEF TypeInv
  <2> QED
    BY <2>1, <2>2 DEF TypeInv, AheadInv
<1>3. Service!MoveOn("caller")
  BY <1>1, MapsMove
<1>4. \A s \in DOMAIN task : AskedFor(s)' = IF s # step THEN AskedFor(s)
                                            ELSE IF vals = NoVals THEN NoVals
                                                 ELSE SubSeq(vals, 1, Cur.count)
  BY <1>1, <1>2 DEF AskedFor, Cur
<1>5. /\ One(Addressed(task')) = One(Addressed(task))
      /\ One(done') = One(done)
      /\ One(sample') = [One(sample) EXCEPT !["caller"] = NoVals]
      /\ One(pc # "idle")["caller"] = TRUE
      /\ One(step)["caller"] = step /\ One(done)["caller"] = done
      /\ One(sample)["caller"] = sample
  BY <1>1, OneThread
<1>6. Cur.cmd \in {"read", "write"}
  BY CallType, AccessType
<1>7. CASE Cur.cmd = "write"
  <2>1. vals = NoVals /\ step \in done
    BY <1>7 DEF Brings
  <2>2. \A s \in DOMAIN task : AskedFor(s)' = AskedFor(s)
    BY <1>2, <1>4, <2>1 DEF AskedFor
  <2>3. Returned' = Returned
    BY <1>1, <2>2 DEF Returned
  <2>4. One(Addressed(task))["caller"][One(step)["caller"]].cmd = "write"
    BY <1>7, ServiceAccess, OneThread
  <2> QED
    BY <1>1, <1>3, <1>5, <2>1, <2>3, <2>4 DEF Service!Succeed, Service!Access, One, Returned
<1>8. CASE Cur.cmd = "read"
  <2>1. vals # NoVals /\ sample # NoVals /\ SubSeq(vals, 1, Cur.count) = sample
    BY <1>8, WireAssumption DEF Brings
  <2>2. \A s \in DOMAIN task : AskedFor(s)' = IF s # step THEN AskedFor(s) ELSE sample
    BY <1>4, <2>1
  <2>3. Returned' = [Returned EXCEPT ![step] = sample]
    BY <1>1, <1>2, <2>2 DEF Returned
  <2>4. One(Returned') = [One(Returned) EXCEPT
          !["caller"] = [One(Returned)["caller"] EXCEPT
                           ![One(step)["caller"]] = One(sample)["caller"]]]
    <3>1. PICK r : r = [Returned EXCEPT ![step] = sample]
      OBVIOUS
    <3>2. r = [One(Returned)["caller"] EXCEPT ![One(step)["caller"]] = One(sample)["caller"]]
      BY <1>5, <3>1, OneThread
    <3>3. One(Returned') = [One(Returned) EXCEPT !["caller"] = r]
      BY <2>3, <3>1, OneThread
    <3> QED
      BY <3>2, <3>3
  <2>5. One(Addressed(task))["caller"][One(step)["caller"]].cmd = "read"
    BY <1>8, ServiceAccess, OneThread
  <2>6. One(Returned') = [One(Returned) EXCEPT
          !["caller"][One(step)["caller"]] = One(sample)["caller"]]
    BY <2>4
  <2> QED
    BY <1>1, <1>3, <1>5, <2>1, <2>5, <2>6 DEF Service!Succeed, Service!Access, One, Returned
<1> QED
  BY <1>6, <1>7, <1>8

LEMMA MapsFail ==
    ASSUME TypeInv, Started, pc # "idle", Fails
    PROVE  Service!Fail("caller")
<1>1. UNCHANGED <<task, regs, done, got>> /\ sample' = NoVals
  BY Over
<1>2. Returned' = Returned
  BY <1>1 DEF Returned, AskedFor
<1>3. /\ One(Addressed(task')) = One(Addressed(task)) /\ One(Returned') = One(Returned)
      /\ One(done') = One(done)
      /\ One(sample') = [One(sample) EXCEPT !["caller"] = NoVals]
      /\ One(pc # "idle")["caller"] = TRUE
      /\ One(Addressed(task))["caller"][One(step)["caller"]].must = Cur.must
  BY <1>1, <1>2, OneThread, ServiceAccess
<1>4. IF Cur.must THEN Service!Return("caller", "failed") ELSE Service!MoveOn("caller")
  <2>1. ASSUME Return("failed") PROVE Service!Return("caller", "failed")
    <3>1. pc' = "idle" /\ outcome' = "failed" /\ step' = step
      BY <2>1 DEF Return
    <3>2. /\ One(pc' # "idle") = [One(pc # "idle") EXCEPT !["caller"] = FALSE]
          /\ One(outcome') = [One(outcome) EXCEPT !["caller"] = "failed"]
          /\ One(step') = One(step)
      BY <3>1, OneThread
    <3> QED
      BY <3>2 DEF Service!Return, One
  <2> QED
    BY <2>1, MapsMove DEF Fails, AccessFails
<1> QED
  BY <1>1, <1>3, <1>4 DEF Service!Fail, Service!Access, One, Returned

LEMMA MapsAnswer ==
    ASSUME TypeInv, RequestInv, Started, MotorReads
    PROVE  Service!Answer("caller")
<1>1. Cur.cmd = "read" /\ sample' = Holds(Cur)
  BY Answered
<1>2. UNCHANGED <<task, step, got, outcome, regs, done>> /\ pc # "idle" /\ pc' # "idle"
  BY DEF MotorReads, Reply, caller, motor
<1>3. Returned' = Returned
  BY <1>2 DEF Returned, AskedFor
<1>4. PICK a : a = One(Addressed(task))["caller"][One(step)["caller"]]
  OBVIOUS
<1>5. a.cmd = "read" /\ a.motor = Cur.motor % 32 /\ a.reg = Cur.reg /\ a.count = Cur.count
  BY <1>1, <1>4, ServiceAccess, OneThread
<1>6. sample' = Service!Content(a.motor, a.reg, a.count)
  BY <1>1, <1>5 DEF Service!Content, Holds, Content
<1>7. /\ One(Addressed(task')) = One(Addressed(task)) /\ One(Returned') = One(Returned)
      /\ One(step') = One(step) /\ One(outcome') = One(outcome) /\ One(done') = One(done)
      /\ One(pc' # "idle") = One(pc # "idle") /\ One(pc # "idle")["caller"] = TRUE
      /\ One(sample') = [One(sample) EXCEPT
                           !["caller"] = Service!Content(a.motor, a.reg, a.count)]
  <2>1. (pc' # "idle") = TRUE /\ (pc # "idle") = TRUE
    BY <1>2
  <2> QED
    BY <1>2, <1>3, <1>6, <2>1, OneThread
<1> QED
  BY <1>2, <1>4, <1>5, <1>7 DEF Service!Answer, Service!Access, One, Returned

LEMMA MapsApply ==
    ASSUME TypeInv, RequestInv, Started, MotorWrites
    PROVE  Service!Apply("caller")
<1>1. /\ Cur.cmd = "write" /\ done' = done \cup {step}
      /\ UNCHANGED <<task, step, got, outcome, sample>>
  BY Written
<1>2. regs' = [regs EXCEPT ![Cur.motor % 32][Cur.reg] = Cur.val]
  BY <1>1, Decoded DEF MotorWrites
<1>3. pc # "idle" /\ pc' # "idle"
  BY DEF MotorWrites, Reply
<1>4. Returned' = Returned
  BY <1>1 DEF Returned, AskedFor
<1>5. PICK a : a = One(Addressed(task))["caller"][One(step)["caller"]]
  OBVIOUS
<1>6. a.cmd = "write" /\ a.motor = Cur.motor % 32 /\ a.reg = Cur.reg /\ a.val = Cur.val
  BY <1>1, <1>5, ServiceAccess, OneThread
<1>7. /\ One(Addressed(task')) = One(Addressed(task)) /\ One(Returned') = One(Returned)
      /\ One(step') = One(step) /\ One(outcome') = One(outcome) /\ One(sample') = One(sample)
      /\ One(pc' # "idle") = One(pc # "idle") /\ One(pc # "idle")["caller"] = TRUE
      /\ One(done') = [One(done) EXCEPT
                         !["caller"] = One(done)["caller"] \cup {One(step)["caller"]}]
  <2>1. (pc' # "idle") = TRUE /\ (pc # "idle") = TRUE
    BY <1>3
  <2> QED
    BY <1>1, <1>4, <2>1, OneThread
<1>8. regs' = [regs EXCEPT ![a.motor][a.reg] = a.val]
  BY <1>2, <1>6
<1> QED
  BY <1>5, <1>6, <1>7, <1>8 DEF Service!Apply, Service!Access, One, Returned

LEMMA MapsStutter ==
    ASSUME UNCHANGED <<task, step, got, outcome, regs, done, sample>>, pc' = "idle" <=> pc = "idle"
    PROVE  UNCHANGED Service!vars
<1>1. Returned' = Returned
  BY DEF Returned, AskedFor
<1>2. (pc' # "idle") = (pc # "idle")
  OBVIOUS
<1>3. /\ One(Addressed(task')) = One(Addressed(task)) /\ One(Returned') = One(Returned)
      /\ One(step') = One(step) /\ One(outcome') = One(outcome) /\ One(sample') = One(sample)
      /\ One(pc' # "idle") = One(pc # "idle") /\ One(done') = One(done)
  BY <1>1, <1>2
<1> QED
  BY <1>3 DEF Service!vars, One, Returned

(***************************************************************************)
(* Byte by byte, a call to a motor is a call of RegisterService: every     *)
(* step of the driver, of the wire and of the motor is a step of the       *)
(* service or leaves it alone, whatever the registers, the values and the  *)
(* legal calls are.                                                        *)
(***************************************************************************)
THEOREM WireIsAService == Spec => WireImplementsService
<1>1. WireInv /\ [Next]_vars /\ peer = "motor" => [Service!Next]_(Service!vars)
  <2> SUFFICES ASSUME WireInv, [Next]_vars, peer = "motor"
               PROVE  [Service!Next]_(Service!vars)
    OBVIOUS
  <2>1. TypeInv /\ RequestInv /\ ReplyInv /\ AheadInv
    BY DEF WireInv, MotorInv
  <2>2. ASSUME Service!Invoke("caller") \/ Service!Apply("caller") \/ Service!Answer("caller")
                 \/ Service!Succeed("caller") \/ Service!Fail("caller")
        PROVE  Service!Next
    BY <2>2 DEF Service!Next
  <2>3. CASE StartCall
    BY <2>1, <2>2, <2>3, MapsInvoke
  <2>4. CASE pc = "reply" /\ Started /\ \E vals : Succeeds(vals) /\ Brings(vals)
    BY <2>1, <2>2, <2>4, MapsSucceed
  <2>5. CASE pc # "idle" /\ Started /\ Fails
    BY <2>1, <2>2, <2>5, MapsFail
  <2>6. CASE pc = "request" /\ Started /\ (MotorReads \/ MotorWrites)
    BY <2>1, <2>2, <2>6, MapsAnswer, MapsApply
  <2>7. CASE (pc # "idle" /\ Retries) \/ Bystander
    <3>1. /\ UNCHANGED <<task, step, got, outcome, regs, done, sample>>
          /\ (pc' = "idle" <=> pc = "idle")
      BY <2>7 DEF Retries, Again, Rest, Bystander, caller, motor
    <3> QED
      BY <3>1, MapsStutter
  <2> QED
    BY <2>1, <2>3, <2>4, <2>5, <2>6, <2>7, Effects
<1>2. WireInv /\ [Next]_vars => [peer = "motor" => [Service!Next]_(Service!vars)]_vars
  BY <1>1
<1> QED
  BY <1>2, WireInvariant, PTL DEF Spec, WireImplementsService

-----------------------------------------------------------------------------
(* The public calls *)

Halves16 == [low : Word16, high : Word16]
Gains16 == [kp : Word16, ki : Word16, kd : Word16, dead_zone : Word16]

\* The calls to the motor m, with all their arguments.  What readRegisters asks
\* for has to fit in a frame, and a 32-bit value has its high half in the next
\* register.  getMultipleStates calls getJointState for one motor after another.
CallsWith(m) ==
    {EnableMotor(m, enable) : enable \in BOOLEAN}
      \cup {ClearError(m), SaveToFlash(m), SetZeroPosition(m), Ping(m), GetWorkMode(m),
            GetErrorCode(m), GetMotorInfo(m), GetPositionLimits(m), GetPIDParams(m),
            GetJointState(m)}
      \cup {SetWorkMode(m, w) : w \in Word16}
      \cup {SetMaxSpeed(m, w) : w \in Word16}
      \cup {SetMotorID(m, w) : w \in Word16}
      \cup {SetTargetCurrent(m, v) : v \in Halves16}
      \cup {SetTargetSpeed(m, v) : v \in Halves16}
      \cup {SetTargetPosition(m, v) : v \in Halves16}
      \cup {SetPositionLimits(m, min, max) : min \in Halves16, max \in Halves16}
      \cup {SetPositionPID(m, pid) : pid \in Gains16}
      \cup {SetSpeedPID(m, pid) : pid \in Gains16}
      \cup {SetCurrentPID(m, pid) : pid \in Gains16}
      \cup {ReadRegister(m, reg) : reg \in Byte}
      \cup {ReadRegisters(m, reg, n) : reg \in Byte, n \in 0 .. 31}
      \cup {WriteRegister(m, reg, w) : reg \in Byte, w \in Word16}
      \cup {WriteInt32(m, reg, v) : reg \in 0 .. 254, v \in Halves16}

PublicCalls ==
    (UNION {CallsWith(m) : m \in Byte}) \cup {Scan(ids) : ids \in Seq(Byte) \ {<< >>}}

\* It insists on accesses at its beginning only, or on all.
FirstOnly(c) == \A s, u \in DOMAIN c : s < u /\ c[u].must => c[s].must
Throughout(c) == \A s \in DOMAIN c : c[s].must

LEMMA OneAccess ==
    ASSUME NEW a \in Accesses, a.need <= a.count, a.need = 1 => a.count = 1,
           a.cmd = "write" => a.need = 0
    PROVE  /\ LegalCall(<<a>>) /\ FirstOnly(<<a>>)
           /\ a.must => Throughout(<<a>>)
BY DEF LegalCall, FirstOnly, Throughout

\* A call that insists on all its accesses may be followed by any.
LEMMA JoinCalls ==
    ASSUME NEW c, NEW d, LegalCall(c), Throughout(c), LegalCall(d), FirstOnly(d)
    PROVE  /\ LegalCall(c \o d) /\ FirstOnly(c \o d)
           /\ Throughout(d) => Throughout(c \o d)
<1>1. PICK n \in Nat : n = Len(c) /\ DOMAIN c = 1 .. n /\ \A s \in 1 .. n : c[s] \in Accesses
  BY SeqHas DEF LegalCall
<1>2. PICK k \in Nat : k = Len(d) /\ DOMAIN d = 1 .. k /\ \A s \in 1 .. k : d[s] \in Accesses
  BY SeqHas DEF LegalCall
<1>3. /\ c \o d \in Seq(Accesses) /\ Len(c \o d) = n + k
      /\ \A s \in 1 .. n + k : (c \o d)[s] = IF s <= n THEN c[s] ELSE d[s - n]
  BY <1>1, <1>2, ConcatProperties DEF LegalCall
<1>4. DOMAIN (c \o d) = 1 .. n + k /\ n # 0
  BY <1>1, <1>3, SeqHas, EmptySeq DEF LegalCall
<1>5. \A s \in 1 .. n + k : IF s <= n THEN s \in 1 .. n ELSE s - n \in 1 .. k
  OBVIOUS
<1>6. LegalCall(c \o d)
  BY <1>1, <1>2, <1>3, <1>4, <1>5 DEF LegalCall
<1>7. FirstOnly(c \o d)
  <2>1. SUFFICES ASSUME NEW s \in 1 .. n + k, NEW u \in 1 .. n + k, s < u,
                        (c \o d)[u].must
                 PROVE  (c \o d)[s].must
    BY <1>4 DEF FirstOnly
  <2>2. CASE s <= n
    BY <1>1, <1>3, <2>2 DEF Throughout
  <2>3. CASE ~(s <= n)
    <3>1. s - n \in 1 .. k /\ u - n \in 1 .. k /\ s - n < u - n /\ ~(u <= n)
      BY <2>1, <2>3
    <3> QED
      BY <1>2, <1>3, <2>1, <2>3, <3>1 DEF FirstOnly
  <2> QED
    BY <2>2, <2>3
<1>8. Throughout(d) => Throughout(c \o d)
  BY <1>1, <1>2, <1>3, <1>4, <1>5 DEF Throughout
<1> QED
  BY <1>6, <1>7, <1>8

\* A caller that goes on insists on none.
LEMMA OptionalAccesses ==
    ASSUME NEW c, LegalCall(c)
    PROVE  LegalCall(Optional(c)) /\ FirstOnly(Optional(c))
<1>1. PICK n \in Nat : n = Len(c) /\ DOMAIN c = 1 .. n /\ \A s \in 1 .. n : c[s] \in Accesses
  BY SeqHas DEF LegalCall
<1>2. /\ \A s \in 1 .. n : Optional(c)[s] = [c[s] EXCEPT !.must = FALSE]
      /\ Optional(c) = [s \in 1 .. n |-> Optional(c)[s]]
  BY <1>1 DEF Optional
<1>3. \A a \in Accesses : /\ [a EXCEPT !.must = FALSE] \in Accesses
                          /\ [a EXCEPT !.must = FALSE].need = a.need
                          /\ [a EXCEPT !.must = FALSE].count = a.count
                          /\ [a EXCEPT !.must = FALSE].cmd = a.cmd
                          /\ [a EXCEPT !.must = FALSE].must = FALSE
  BY DEF Accesses
<1>4. Optional(c) \in [1 .. n -> Accesses]
  BY <1>1, <1>2, <1>3
<1>5. Optional(c) \in Seq(Accesses) /\ DOMAIN Optional(c) = 1 .. n
  BY <1>4, SeqOf
<1>6. n # 0
  BY <1>1, EmptySeq DEF LegalCall
<1>7. Optional(c) # << >>
  BY <1>5, <1>6
<1>8. ASSUME NEW s \in 1 .. n
      PROVE  /\ Optional(c)[s].need = c[s].need /\ Optional(c)[s].count = c[s].count
             /\ Optional(c)[s].cmd = c[s].cmd /\ ~Optional(c)[s].must
  <2>1. c[s] \in Accesses /\ Optional(c)[s] = [c[s] EXCEPT !.must = FALSE]
    BY <1>1, <1>2
  <2> QED
    BY <1>3, <2>1
<1> HIDE DEF Optional
<1>9. \A s \in 1 .. n :
        /\ Optional(c)[s].need <= Optional(c)[s].count
        /\ Optional(c)[s].need = 1 => Optional(c)[s].count = 1
        /\ Optional(c)[s].cmd = "write" => Optional(c)[s].need = 0
  <2> TAKE s \in 1 .. n
  <2>1. /\ c[s].need <= c[s].count
        /\ c[s].need = 1 => c[s].count = 1
        /\ c[s].cmd = "write" => c[s].need = 0
    BY <1>1 DEF LegalCall
  <2> QED
    BY <1>8, <2>1
<1>10. LegalCall(Optional(c))
  BY <1>5, <1>7, <1>9 DEF LegalCall
<1>11. FirstOnly(Optional(c))
  BY <1>5, <1>8 DEF FirstOnly
<1> QED
  BY <1>10, <1>11

Sound(c) == LegalCall(c) /\ FirstOnly(c) /\ Throughout(c)

LEMMA SoundCalls ==
    ASSUME NEW m \in Byte
    PROVE  /\ \A reg \in Byte, w \in Word16 : Sound(WriteRegister(m, reg, w))
           /\ \A reg \in Byte : Sound(ReadRegister(m, reg))
           /\ \A reg \in Byte, n \in 0 .. 31 : /\ Sound(ReadRegisters(m, reg, n))
                                               /\ Sound(ReadBlock(m, reg, n))
           /\ \A reg \in 0 .. 254, v \in Halves16 : Sound(WriteInt32(m, reg, v))
           /\ \A reg \in 0 .. 253, pid \in Gains16 : Sound(WritePID(m, reg, pid))
<1>1. ASSUME NEW c, NEW d, Sound(c), Sound(d)
      PROVE  Sound(c \o d)
  BY <1>1, JoinCalls DEF Sound
<1>2. \A reg \in Byte, n \in 0 .. 31, need \in 0 .. 31 :
        need <= n /\ (need = 1 => n = 1) => Sound(<<Access(m, "read", reg, n, 0, TRUE, need)>>)
  <2> TAKE reg \in Byte, n \in 0 .. 31, need \in 0 .. 31
  <2> DEFINE a == Access(m, "read", reg, n, 0, TRUE, need)
  <2>1. /\ a \in Accesses /\ a.need = need /\ a.count = n /\ a.must /\ a.cmd = "read"
    BY DEF Access, Accesses, Word16, UINT16_MAX
  <2> HIDE DEF a
  <2>2. need <= n /\ (need = 1 => n = 1) => Sound(<<a>>)
    BY <2>1, OneAccess DEF Sound
  <2> QED
    BY <2>2 DEF a
<1>3. \A reg \in Byte, w \in Word16 : Sound(WriteRegister(m, reg, w))
  <2> TAKE reg \in Byte, w \in Word16
  <2> DEFINE a == Access(m, "write", reg, 1, w, TRUE, 0)
  <2>1. /\ a \in Accesses /\ a.need = 0 /\ a.count = 1 /\ a.must
    BY DEF Access, Accesses
  <2> HIDE DEF a
  <2>2. Sound(<<a>>)
    BY <2>1, OneAccess DEF Sound
  <2> QED
    BY <2>2 DEF a, WriteRegister
<1>4. \A reg \in Byte, n \in 0 .. 31 : Sound(ReadRegisters(m, reg, n)) /\ Sound(ReadBlock(m, reg, n))
  <2> TAKE reg \in Byte, n \in 0 .. 31
  <2>1. /\ Sound(<<Access(m, "read", reg, n, 0, TRUE, 0)>>)
        /\ Sound(<<Access(m, "read", reg, n, 0, TRUE, n)>>)
    <3>1. 0 \in 0 .. 31 /\ 0 <= n /\ n <= n /\ 0 # 1
      OBVIOUS
    <3> QED
      BY <1>2, <3>1
  <2> QED
    BY <2>1 DEF ReadRegisters, ReadBlock
<1>5. \A reg \in Byte : Sound(ReadRegister(m, reg))
  <2> TAKE reg \in Byte
  <2>1. 1 \in 0 .. 31 /\ 1 <= 1
    OBVIOUS
  <2>2. Sound(<<Access(m, "read", reg, 1, 0, TRUE, 1)>>)
    BY <1>2, <2>1
  <2> QED
    BY <2>2 DEF ReadRegister
<1>6. \A reg \in 0 .. 254, v \in Halves16 : Sound(WriteInt32(m, reg, v))
  <2> TAKE reg \in 0 .. 254, v \in Halves16
  <2>1. reg \in Byte /\ reg + 1 \in Byte /\ v.low \in Word16 /\ v.high \in Word16
    BY DEF Byte, Halves16
  <2>2. Sound(WriteRegister(m, reg, v.low)) /\ Sound(WriteRegister(m, reg + 1, v.high))
    BY <1>3, <2>1
  <2> QED
    BY <1>1, <2>2 DEF WriteInt32
<1>7. \A reg \in 0 .. 253, pid \in Gains16 : Sound(WritePID(m, reg, pid))
  <2> TAKE reg \in 0 .. 253, pid \in Gains16
  <2>1. /\ reg \in Byte /\ reg + 1 \in Byte /\ reg + 2 \in Byte
        /\ pid.kp \in Word16 /\ pid.ki \in Word16 /\ pid.kd \in Word16
    BY DEF Byte, Gains16
  <2>2. /\ Sound(WriteRegister(m, reg, pid.kp)) /\ Sound(WriteRegister(m, reg + 1, pid.ki))
        /\ Sound(WriteRegister(m, reg + 2, pid.kd))
    BY <1>3, <2>1
  <2>3. Sound(WriteRegister(m, reg, pid.kp) \o WriteRegister(m, reg + 1, pid.ki))
    BY <1>1, <2>2
  <2> QED
    BY <1>1, <2>2, <2>3 DEF WritePID
<1> QED
  BY <1>3, <1>4, <1>5, <1>6, <1>7

\* One ping after another, of any motors.
LEMMA ScansAreLegal ==
    ASSUME NEW ids \in Seq(Byte), ids # << >>
    PROVE  LegalCall(Scan(ids)) /\ FirstOnly(Scan(ids))
<1>1. PICK n \in Nat : n = Len(ids) /\ DOMAIN ids = 1 .. n /\ \A s \in 1 .. n : ids[s] \in Byte
  BY SeqHas
<1>2. \A s \in 1 .. n : Scan(ids)[s] = [motor |-> ids[s], cmd |-> "read", reg |-> SYS_MODEL_TYPE,
                          count |-> 1, val |-> 0, must |-> FALSE, need |-> 1]
  BY <1>1 DEF Scan, Ping, ReadRegister, Access
<1>3. \A s \in 1 .. n : Scan(ids)[s] \in Accesses
  <2> TAKE s \in 1 .. n
  <2>1. /\ ids[s] \in Byte /\ SYS_MODEL_TYPE \in Byte /\ 0 \in Word16
        /\ 1 \in 0 .. 31
    BY <1>1 DEF Byte, Word16, UINT16_MAX, SYS_MODEL_TYPE
  <2> DEFINE a == [motor |-> ids[s], cmd |-> "read", reg |-> SYS_MODEL_TYPE, count |-> 1,
                   val |-> 0, must |-> FALSE, need |-> 1]
  <2>2. a \in Accesses
    BY <2>1 DEF Accesses
  <2>3. Scan(ids)[s] = a
    BY <1>2
  <2> QED
    BY <2>2, <2>3
<1>4. Scan(ids) \in [1 .. n -> Accesses]
  BY <1>1, <1>3 DEF Scan
<1>5. Scan(ids) \in Seq(Accesses) /\ DOMAIN Scan(ids) = 1 .. n
  BY <1>4, SeqOf
<1>6. Scan(ids) # << >>
  BY <1>1, <1>5, EmptySeq
<1> QED
  BY <1>2, <1>5, <1>6 DEF LegalCall, FirstOnly

\* Every public call, whatever its arguments, is a call that the theorems above
\* are about, and one that insists on its first accesses: what WireAssumption
\* and InsistsFirst ask of the calls is so.
THEOREM PublicCallsAreLegal ==
    /\ \A c \in PublicCalls : LegalCall(c)
    /\ SimulatedCalls \subseteq PublicCalls => InsistsFirst
<1> DEFINE Good(c) == LegalCall(c) /\ FirstOnly(c)
<1>1. ASSUME NEW m \in Byte, NEW c \in CallsWith(m)
      PROVE  Good(c)
  <2>1. ASSUME NEW d, Sound(d) PROVE Good(d)
    BY <2>1 DEF Sound
  <2>2. ASSUME NEW d, NEW e, Sound(d), Sound(e)
        PROVE  Sound(d \o e)
    BY <2>2, JoinCalls DEF Sound
  <2> HIDE DEF Good
  <2>3. CASE \E enable \in BOOLEAN : c = EnableMotor(m, enable)
    <3>1. 0 \in Word16 /\ 1 \in Word16 /\ SYS_ENABLE_DRIVER \in Byte
      BY DEF Word16, UINT16_MAX, Byte, SYS_ENABLE_DRIVER
    <3>2. \A enable \in BOOLEAN : (IF enable THEN 1 ELSE 0) \in Word16
      BY <3>1
    <3> QED
      BY <2>1, <2>3, <3>1, <3>2, SoundCalls DEF EnableMotor
  <2>4. CASE c \in {ClearError(m), SaveToFlash(m), SetZeroPosition(m)}
    <3>1. 1 \in Word16 /\ SYS_CLEAR_ERROR \in Byte /\ SYS_SAVE_TO_FLASH \in Byte
            /\ SYS_SET_ZERO_POS \in Byte
      BY DEF Word16, UINT16_MAX, Byte, SYS_CLEAR_ERROR, SYS_SAVE_TO_FLASH, SYS_SET_ZERO_POS
    <3> QED
      BY <2>1, <2>4, <3>1, SoundCalls DEF ClearError, SaveToFlash, SetZeroPosition
  <2>5. CASE c \in {Ping(m), GetWorkMode(m), GetErrorCode(m)}
    <3>1. SYS_MODEL_TYPE \in Byte /\ TAG_WORK_MODE \in Byte /\ SYS_ERROR \in Byte
      BY DEF Byte, SYS_MODEL_TYPE, TAG_WORK_MODE, SYS_ERROR
    <3> QED
      BY <2>1, <2>5, <3>1, SoundCalls DEF Ping, GetWorkMode, GetErrorCode
  <2>6. CASE c \in {GetMotorInfo(m), GetPositionLimits(m), GetPIDParams(m)}
    <3>1. /\ SYS_ID \in Byte /\ LIT_MIN_POSITION_L \in Byte /\ SEV_CURRENT_P \in Byte
          /\ 7 \in 0 .. 31 /\ 4 \in 0 .. 31 /\ 13 \in 0 .. 31
      BY DEF Byte, SYS_ID, LIT_MIN_POSITION_L, SEV_CURRENT_P
    <3> QED
      BY <2>1, <2>6, <3>1, SoundCalls DEF GetMotorInfo, GetPositionLimits, GetPIDParams
  <2>7. CASE c = GetJointState(m)
    <3> DEFINE rest == ReadBlock(m, SYS_VOLTAGE, 4) \o GetWorkMode(m)
    <3>1. /\ CUR_CURRENT_L \in Byte /\ SYS_VOLTAGE \in Byte /\ TAG_WORK_MODE \in Byte
          /\ 6 \in 0 .. 31 /\ 4 \in 0 .. 31
      BY DEF Byte, CUR_CURRENT_L, SYS_VOLTAGE, TAG_WORK_MODE
    <3>2. /\ Sound(ReadBlock(m, CUR_CURRENT_L, 6)) /\ Sound(ReadBlock(m, SYS_VOLTAGE, 4))
          /\ Sound(GetWorkMode(m))
      BY <3>1, SoundCalls DEF GetWorkMode
    <3>3. Sound(rest)
      BY <2>2, <3>2
    <3> HIDE DEF rest
    <3>4. LegalCall(Optional(rest)) /\ FirstOnly(Optional(rest))
      BY <3>3, OptionalAccesses DEF Sound
    <3>5. Good(ReadBlock(m, CUR_CURRENT_L, 6) \o Optional(rest))
      BY <3>2, <3>4, JoinCalls DEF Sound, Good
    <3> QED
      BY <2>7, <3>5 DEF GetJointState, rest
  <2>8. CASE \E w \in Word16 : c \in {SetWorkMode(m, w), SetMaxSpeed(m, w), SetMotorID(m, w)}
    <3>1. TAG_WORK_MODE \in Byte /\ LIT_MAX_SPEED \in Byte /\ SYS_ID \in Byte
      BY DEF Byte, TAG_WORK_MODE, LIT_MAX_SPEED, SYS_ID
    <3> QED
      BY <2>1, <2>8, <3>1, SoundCalls DEF SetWorkMode, SetMaxSpeed, SetMotorID
  <2>9. CASE \E v \in Halves16 :
               c \in {SetTargetCurrent(m, v), SetTargetSpeed(m, v), SetTargetPosition(m, v)}
    <3>1. TAG_CURRENT_L \in 0 .. 254 /\ TAG_SPEED_L \in 0 .. 254 /\ TAG_POSITION_L \in 0 .. 254
      BY DEF TAG_CURRENT_L, TAG_SPEED_L, TAG_POSITION_L
    <3> QED
      BY <2>1, <2>9, <3>1, SoundCalls DEF SetTargetCurrent, SetTargetSpeed, SetTargetPosition
  <2>10. CASE \E min \in Halves16, max \in Halves16 : c = SetPositionLimits(m, min, max)
    <3>1. LIT_MIN_POSITION_L \in 0 .. 254 /\ LIT_MAX_POSITION_L \in 0 .. 254
      BY DEF LIT_MIN_POSITION_L, LIT_MAX_POSITION_L
    <3>2. PICK min \in Halves16, max \in Halves16 : c = SetPositionLimits(m, min, max)
      BY <2>10
    <3>3. Sound(WriteInt32(m, LIT_MIN_POSITION_L, min)) /\ Sound(WriteInt32(m, LIT_MAX_POSITION_L, max))
      BY <3>1, SoundCalls
    <3> QED
      BY <2>1, <2>2, <3>2, <3>3 DEF SetPositionLimits
  <2>11. CASE \E pid \in Gains16 :
                c \in {SetPositionPID(m, pid), SetSpeedPID(m, pid), SetCurrentPID(m, pid)}
    <3>1. PICK pid \in Gains16 :
            c \in {SetPositionPID(m, pid), SetSpeedPID(m, pid), SetCurrentPID(m, pid)}
      BY <2>11
    <3>2. /\ SEV_POSITION_P \in 0 .. 253 /\ SEV_SPEED_P \in 0 .. 253 /\ SEV_CURRENT_P \in 0 .. 253
          /\ SEV_POSITION_P + 3 \in Byte /\ SEV_SPEED_P + 3 \in Byte
          /\ pid.dead_zone \in Word16
      BY DEF SEV_POSITION_P, SEV_SPEED_P, SEV_CURRENT_P, Byte, Gains16
    <3>3. /\ Sound(WritePID(m, SEV_POSITION_P, pid)) /\ Sound(WritePID(m, SEV_SPEED_P, pid))
          /\ Sound(WritePID(m, SEV_CURRENT_P, pid))
      BY <3>2, SoundCalls
    <3>4. /\ Sound(WriteRegister(m, SEV_POSITION_P + 3, pid.dead_zone))
          /\ Sound(WriteRegister(m, SEV_SPEED_P + 3, pid.dead_zone))
      BY <3>2, SoundCalls
    <3>5. Sound(SetPositionPID(m, pid)) /\ Sound(SetSpeedPID(m, pid)) /\ Sound(SetCurrentPID(m, pid))
      BY <2>2, <3>3, <3>4 DEF SetPositionPID, SetSpeedPID, SetCurrentPID
    <3> QED
      BY <2>1, <3>1, <3>5
  <2>12. CASE \/ \E reg \in Byte : c = ReadRegister(m, reg)
              \/ \E reg \in Byte, n \in 0 .. 31 : c = ReadRegisters(m, reg, n)
              \/ \E reg \in Byte, w \in Word16 : c = WriteRegister(m, reg, w)
              \/ \E reg \in 0 .. 254, v \in Halves16 : c = WriteInt32(m, reg, v)
    BY <2>1, <2>12, SoundCalls
  <2> QED
    <3>1. \/ \E enable \in BOOLEAN : c = EnableMotor(m, enable)
          \/ c \in {ClearError(m), SaveToFlash(m), SetZeroPosition(m), Ping(m), GetWorkMode(m),
                    GetErrorCode(m), GetMotorInfo(m), GetPositionLimits(m), GetPIDParams(m),
                    GetJointState(m)}
          \/ \E w \in Word16 : c \in {SetWorkMode(m, w), SetMaxSpeed(m, w), SetMotorID(m, w)}
          \/ \E v \in Halves16 :
                c \in {SetTargetCurrent(m, v), SetTargetSpeed(m, v), SetTargetPosition(m, v)}
          \/ \E min \in Halves16, max \in Halves16 : c = SetPositionLimits(m, min, max)
          \/ \E pid \in Gains16 :
                c \in {SetPositionPID(m, pid), SetSpeedPID(m, pid), SetCurrentPID(m, pid)}
          \/ \E reg \in Byte : c = ReadRegister(m, reg)
          \/ \E reg \in Byte, n \in 0 .. 31 : c = ReadRegisters(m, reg, n)
          \/ \E reg \in Byte, w \in Word16 : c = WriteRegister(m, reg, w)
          \/ \E reg \in 0 .. 254, v \in Halves16 : c = WriteInt32(m, reg, v)
      BY <1>1 DEF CallsWith
    <3> QED
      BY <2>3, <2>4, <2>5, <2>6, <2>7, <2>8, <2>9, <2>10, <2>11, <2>12, <3>1
<1>2. ASSUME NEW c \in PublicCalls
      PROVE  Good(c)
  <2>1. CASE \E m \in Byte : c \in CallsWith(m)
    BY <1>1, <2>1
  <2>2. CASE \E ids \in Seq(Byte) : ids # << >> /\ c = Scan(ids)
    BY <2>2, ScansAreLegal
  <2> QED
    BY <1>2, <2>1, <2>2 DEF PublicCalls
<1>3. SimulatedCalls \subseteq PublicCalls => InsistsFirst
  BY <1>2 DEF InsistsFirst, FirstOnly
<1> QED
  BY <1>2, <1>3

=============================================================================
