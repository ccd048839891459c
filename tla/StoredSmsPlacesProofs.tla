----------------------- MODULE StoredSmsPlacesProofs --------------------------
(***************************************************************************)
(* Theorems about StoredSms that hold when no answer is late: no message is *)
(* queued twice, and what is deleted was queued.  The invariant follows a  *)
(* message from the line that reports it to its deletion, in layers: the lines *)
(* on their way, what the channel answers, what the reader knows of the    *)
(* places, where each PDU is, and what is queued.                          *)
(***************************************************************************)
EXTENDS StoredSmsProofs

-----------------------------------------------------------------------------
(* The lines on their way from the modem. *)

Answers == {"DATA", "OK", "ERROR"}

NoAnswers(u) == \A k \in DOMAIN u : u[k].kind \notin Answers

\* Nothing of an answer follows its last line.
OneAnswer(u) ==
  \A j, k \in DOMAIN u : u[j].kind \in {"OK", "ERROR"} /\ j < k => u[k].kind \notin Answers

\* A header is followed by its PDU, which is the next line if the header has
\* been read (a).
Headers(u, a) ==
  /\ \A k \in DOMAIN u : u[k].kind = "CMT" => k + 1 \in DOMAIN u /\ u[k + 1].kind = "PDU"
  /\ \A k \in DOMAIN u : u[k].kind = "PDU" => IF k = 1 THEN a ELSE u[k - 1].kind = "CMT"
  /\ a => u # <<>> /\ Head(u).kind = "PDU"

\* The places reported, and the PDUs delivered directly.
Reported(u)  == {i \in Indices : \E k \in DOMAIN u : u[k].kind = "CMTI" /\ u[k].of = i}
Delivered(u) == {s \in Sms : \E k \in DOMAIN u : u[k].kind = "PDU" /\ u[k].of = s}

OnceSent(u) ==
  \A j, k \in DOMAIN u :
    u[j].kind \in {"CMTI", "PDU"} /\ u[j].kind = u[k].kind /\ u[j].of = u[k].of => j = k

\* The modem sends more lines.
LEMMA LinesAdded ==
  ASSUME NEW u \in Seq(Lines), NEW v \in Seq(Lines)
  PROVE  LET w == u \o v
             m == Len(u)
         IN  /\ m \in Nat /\ Len(v) \in Nat
             /\ DOMAIN u = 1 .. m /\ DOMAIN v = 1 .. Len(v) /\ DOMAIN w = 1 .. m + Len(v)
             /\ \A k \in 1 .. m : w[k] = u[k]
             /\ \A k \in 1 .. Len(v) : w[m + k] = v[k]
             /\ \A k \in DOMAIN w : k \in 1 .. m \/ (k > m /\ k - m \in 1 .. Len(v) /\ m + (k - m) = k)
OBVIOUS

\* Headers keep their PDUs when lines are added.
LEMMA HeadersAdded ==
  ASSUME NEW u \in Seq(Lines), NEW v \in Seq(Lines), NEW a, Headers(u, a), Headers(v, FALSE)
  PROVE  Headers(u \o v, a)
<1>. DEFINE w == u \o v
            m == Len(u)
            n == Len(v)
<1>1. /\ m \in Nat /\ n \in Nat
      /\ DOMAIN u = 1 .. m /\ DOMAIN v = 1 .. n /\ DOMAIN w = 1 .. m + n
      /\ \A k \in 1 .. m : w[k] = u[k]
      /\ \A k \in 1 .. n : w[m + k] = v[k]
      /\ \A k \in DOMAIN w : k \in 1 .. m \/ (k > m /\ k - m \in 1 .. n /\ m + (k - m) = k)
  BY LinesAdded
<1>2. a => w # <<>> /\ Head(w).kind = "PDU"
  BY <1>1 DEF Headers
<1>. HIDE DEF w, m, n
<1>3. ASSUME NEW k \in DOMAIN w, w[k].kind = "CMT"
      PROVE  k + 1 \in DOMAIN w /\ w[k + 1].kind = "PDU"
  <2>1. CASE k \in 1 .. m
    <3>1. k + 1 \in 1 .. m /\ u[k + 1].kind = "PDU"
      BY <1>1, <1>3, <2>1 DEF Headers
    <3>. QED  BY <1>1, <3>1
  <2>2. CASE k \notin 1 .. m
    <3>. DEFINE j == k - m
    <3>1. j \in 1 .. n /\ m + j = k
      BY <1>1, <1>3, <2>2
    <3>2. v[j].kind = "CMT"
      BY <1>1, <1>3, <3>1
    <3>3. j + 1 \in 1 .. n /\ v[j + 1].kind = "PDU"
      BY <1>1, <3>1, <3>2 DEF Headers
    <3>4. m + (j + 1) = k + 1 /\ k + 1 \in 1 .. m + n
      BY <1>1, <3>1, <3>3
    <3>. HIDE DEF j
    <3>. QED  BY <1>1, <3>3, <3>4
  <2>. QED  BY <2>1, <2>2
<1>4. ASSUME NEW k \in DOMAIN w, w[k].kind = "PDU"
      PROVE  IF k = 1 THEN a ELSE w[k - 1].kind = "CMT"
  <2>1. CASE k \in 1 .. m
    <3>1. IF k = 1 THEN a ELSE u[k - 1].kind = "CMT"
      BY <1>1, <1>4, <2>1 DEF Headers
    <3>2. k # 1 => k - 1 \in 1 .. m
      BY <1>1, <2>1
    <3>. QED  BY <1>1, <3>1, <3>2
  <2>2. CASE k \notin 1 .. m
    <3>. DEFINE j == k - m
    <3>1. j \in 1 .. n /\ m + j = k
      BY <1>1, <1>4, <2>2
    <3>2. v[j].kind = "PDU"
      BY <1>1, <1>4, <3>1
    <3>3. j # 1 /\ v[j - 1].kind = "CMT" /\ j - 1 \in 1 .. n
      BY <1>1, <3>1, <3>2 DEF Headers
    <3>4. m + (j - 1) = k - 1 /\ k # 1
      BY <1>1, <3>1, <3>3
    <3>. HIDE DEF j
    <3>. QED  BY <1>1, <3>3, <3>4
  <2>. QED  BY <2>1, <2>2
<1>. QED  BY <1>2, <1>3, <1>4 DEF Headers, w

\* What is on its way when lines are added.
LEMMA SentAdded ==
  ASSUME NEW u \in Seq(Lines), NEW v \in Seq(Lines)
  PROVE  LET w == u \o v
         IN  /\ Reported(w) = Reported(u) \cup Reported(v)
             /\ Delivered(w) = Delivered(u) \cup Delivered(v)
             /\ OnceSent(u) /\ OnceSent(v) /\ Reported(u) \cap Reported(v) = {}
                  /\ Delivered(u) \cap Delivered(v) = {} => OnceSent(w)
             /\ NoAnswers(u) /\ NoAnswers(v) => NoAnswers(w)
             /\ OneAnswer(u) /\ NoAnswers(v) => OneAnswer(w)
             /\ NoAnswers(u) /\ OneAnswer(v) => OneAnswer(w)
<1>. DEFINE w == u \o v
            m == Len(u)
            n == Len(v)
<1>1. /\ m \in Nat /\ n \in Nat
      /\ DOMAIN u = 1 .. m /\ DOMAIN v = 1 .. n /\ DOMAIN w = 1 .. m + n
      /\ \A k \in 1 .. m : w[k] = u[k]
      /\ \A k \in 1 .. n : w[m + k] = v[k]
      /\ \A k \in DOMAIN w : k \in 1 .. m \/ (k > m /\ k - m \in 1 .. n /\ m + (k - m) = k)
  BY LinesAdded
<1>2. /\ \A k \in 1 .. m : u[k] \in Lines
      /\ \A k \in 1 .. n : v[k] \in Lines
  BY <1>1
<1>. HIDE DEF w, m, n
<1>3. \A k \in 1 .. m : k \in DOMAIN w
  BY <1>1
<1>4. \A k \in 1 .. n : m + k \in DOMAIN w
  BY <1>1
<1>5. \A k \in DOMAIN w : (\E j \in 1 .. m : k = j /\ w[k] = u[j])
                          \/ (\E j \in 1 .. n : k = m + j /\ w[k] = v[j])
  BY <1>1
<1>5a. \A kind, of : (\E k \in DOMAIN w : w[k].kind = kind /\ w[k].of = of)
                       <=> \/ \E k \in DOMAIN u : u[k].kind = kind /\ u[k].of = of
                           \/ \E k \in DOMAIN v : v[k].kind = kind /\ v[k].of = of
  <2>. TAKE kind, of
  <2>1. ASSUME NEW k \in 1 .. m, u[k].kind = kind, u[k].of = of
        PROVE  \E j \in DOMAIN w : w[j].kind = kind /\ w[j].of = of
    BY <1>1, <1>3, <2>1
  <2>2. ASSUME NEW k \in 1 .. n, v[k].kind = kind, v[k].of = of
        PROVE  \E j \in DOMAIN w : w[j].kind = kind /\ w[j].of = of
    <3>1. w[m + k] = v[k] /\ m + k \in DOMAIN w
      BY <1>1, <1>4
    <3>. QED  BY <2>2, <3>1
  <2>3. ASSUME NEW k \in DOMAIN w, w[k].kind = kind, w[k].of = of
        PROVE  \/ \E j \in DOMAIN u : u[j].kind = kind /\ u[j].of = of
               \/ \E j \in DOMAIN v : v[j].kind = kind /\ v[j].of = of
    <3>1. CASE \E j \in 1 .. m : w[k] = u[j]
      BY <1>1, <2>3, <3>1
    <3>2. CASE \E j \in 1 .. n : w[k] = v[j]
      BY <1>1, <2>3, <3>2
    <3>. QED  BY <1>5, <3>1, <3>2
  <2>4. DOMAIN u = 1 .. m /\ DOMAIN v = 1 .. n
    BY <1>1
  <2>. QED  BY <2>1, <2>2, <2>3, <2>4
<1>6. Reported(w) = Reported(u) \cup Reported(v)
  BY <1>5a DEF Reported
<1>7. Delivered(w) = Delivered(u) \cup Delivered(v)
  BY <1>5a, ZenonT(40) DEF Delivered
<1>8. ASSUME OnceSent(u), OnceSent(v), Reported(u) \cap Reported(v) = {},
             Delivered(u) \cap Delivered(v) = {}
      PROVE  OnceSent(w)
  <2>. SUFFICES ASSUME NEW j \in DOMAIN w, NEW k \in DOMAIN w, w[j].kind \in {"CMTI", "PDU"},
                       w[j].kind = w[k].kind, w[j].of = w[k].of
                PROVE  j = k
    BY DEF OnceSent
  <2>1. \A x \in 1 .. m, y \in 1 .. n :
          ~(u[x].kind \in {"CMTI", "PDU"} /\ u[x].kind = v[y].kind /\ u[x].of = v[y].of)
    <3>. SUFFICES ASSUME NEW x \in 1 .. m, NEW y \in 1 .. n, u[x].kind \in {"CMTI", "PDU"},
                         u[x].kind = v[y].kind, u[x].of = v[y].of
                  PROVE  FALSE
      OBVIOUS
    <3>1. CASE u[x].kind = "CMTI"
      BY <1>1, <1>2, <1>8, <3>1, LineFields DEF Reported
    <3>2. CASE u[x].kind = "PDU"
      BY <1>1, <1>2, <1>8, <3>2, LineFields DEF Delivered
    <3>. QED  BY <3>1, <3>2
  <2>2. CASE \E x \in 1 .. m : j = x /\ w[j] = u[x]
    <3>1. PICK x \in 1 .. m : j = x /\ w[j] = u[x]
      BY <2>2
    <3>2. CASE \E y \in 1 .. m : k = y /\ w[k] = u[y]
      <4>1. PICK y \in 1 .. m : k = y /\ w[k] = u[y]
        BY <3>2
      <4>2. x \in DOMAIN u /\ y \in DOMAIN u
        BY <1>1
      <4>3. x = y
        BY <1>8, <3>1, <4>1, <4>2 DEF OnceSent
      <4>. QED  BY <3>1, <4>1, <4>3
    <3>3. CASE \E y \in 1 .. n : k = m + y /\ w[k] = v[y]
      <4>1. PICK y \in 1 .. n : w[k] = v[y]
        BY <3>3
      <4>2. u[x].kind = v[y].kind /\ u[x].of = v[y].of /\ u[x].kind \in {"CMTI", "PDU"}
        BY <3>1, <4>1
      <4>. QED  BY <2>1, <4>2
    <3>. QED  BY <1>5, <3>2, <3>3
  <2>3. CASE \E x \in 1 .. n : j = m + x /\ w[j] = v[x]
    <3>1. PICK x \in 1 .. n : j = m + x /\ w[j] = v[x]
      BY <2>3
    <3>2. CASE \E y \in 1 .. m : k = y /\ w[k] = u[y]
      <4>1. PICK y \in 1 .. m : w[k] = u[y]
        BY <3>2
      <4>2. u[y].kind = v[x].kind /\ u[y].of = v[x].of /\ u[y].kind \in {"CMTI", "PDU"}
        BY <3>1, <4>1
      <4>. QED  BY <2>1, <4>2
    <3>3. CASE \E y \in 1 .. n : k = m + y /\ w[k] = v[y]
      <4>1. PICK y \in 1 .. n : k = m + y /\ w[k] = v[y]
        BY <3>3
      <4>2. x \in DOMAIN v /\ y \in DOMAIN v
        BY <1>1
      <4>3. x = y
        BY <1>8, <3>1, <4>1, <4>2 DEF OnceSent
      <4>. QED  BY <3>1, <4>1, <4>3
    <3>. QED  BY <1>5, <3>2, <3>3
  <2>. QED  BY <1>5, <2>2, <2>3
<1>9. NoAnswers(u) /\ NoAnswers(v) => NoAnswers(w)
  BY <1>1, <1>5 DEF NoAnswers
<1>10. OneAnswer(u) /\ NoAnswers(v) => OneAnswer(w)
  <2>. SUFFICES ASSUME OneAnswer(u), NoAnswers(v), NEW j \in DOMAIN w, NEW k \in DOMAIN w,
                       w[j].kind \in {"OK", "ERROR"}, j < k
                PROVE  w[k].kind \notin Answers
    BY DEF OneAnswer
  <2>1. w[j].kind \in Answers
    BY DEF Answers
  <2>2. j \in 1 .. m /\ w[j] = u[j]
    BY <1>1, <1>5, <2>1 DEF NoAnswers
  <2>3. CASE k \in 1 .. m
    BY <1>1, <2>2, <2>3 DEF OneAnswer
  <2>4. CASE k \notin 1 .. m
    BY <1>1, <2>4 DEF NoAnswers
  <2>. QED  BY <2>3, <2>4
<1>11. NoAnswers(u) /\ OneAnswer(v) => OneAnswer(w)
  <2>. SUFFICES ASSUME NoAnswers(u), OneAnswer(v), NEW j \in DOMAIN w, NEW k \in DOMAIN w,
                       w[j].kind \in {"OK", "ERROR"}, j < k
                PROVE  w[k].kind \notin Answers
    BY DEF OneAnswer
  <2>1. w[j].kind \in Answers
    BY DEF Answers
  <2>2. j > m /\ j - m \in 1 .. n /\ w[j] = v[j - m]
    BY <1>1, <2>1 DEF NoAnswers
  <2>3. k > m /\ k - m \in 1 .. n /\ w[k] = v[k - m] /\ j - m < k - m
    BY <1>1, <2>2
  <2>. QED  BY <1>1, <2>2, <2>3 DEF OneAnswer
<1>. QED  BY <1>6, <1>7, <1>8, <1>9, <1>10, <1>11 DEF w

\* A line is read.
LEMMA LineRead ==
  ASSUME NEW u \in Seq(Lines), u # <<>>
  PROVE  LET v == Tail(u)
             line == Head(u)
         IN  /\ v \in Seq(Lines) /\ line \in Lines
             /\ Reported(v) \subseteq Reported(u) /\ Delivered(v) \subseteq Delivered(u)
             /\ line.kind = "CMTI" => line.of \in Reported(u)
             /\ line.kind = "PDU" => line.of \in Delivered(u)
             /\ OnceSent(u) => /\ OnceSent(v)
                               /\ line.kind = "CMTI" => line.of \notin Reported(v)
                               /\ line.kind = "PDU" => line.of \notin Delivered(v)
             /\ OneAnswer(u) => /\ OneAnswer(v)
                                /\ line.kind \in {"OK", "ERROR"} => NoAnswers(v)
             /\ NoAnswers(u) => NoAnswers(v)
             /\ \A k \in DOMAIN v : \E j \in DOMAIN u : v[k] = u[j]
             /\ \A a \in BOOLEAN : Headers(u, a) =>
                  /\ Headers(v, ~a /\ line.kind = "CMT")
                  /\ a <=> line.kind = "PDU"
<1>. DEFINE v == Tail(u)
            line == Head(u)
            n == Len(u)
<1>1. /\ n \in Nat \ {0} /\ DOMAIN u = 1 .. n /\ DOMAIN v = 1 .. n - 1
      /\ \A k \in 1 .. n : u[k] \in Lines
      /\ \A k \in 1 .. n - 1 : v[k] = u[k + 1] /\ k + 1 \in 1 .. n
      /\ line = u[1] /\ 1 \in 1 .. n
      /\ v \in Seq(Lines) /\ line \in Lines
  OBVIOUS
<1>1a. n - 1 >= 1 => v # <<>> /\ Head(v) = v[1]
  <2>1. Len(v) = n - 1 /\ v \in Seq(Lines) /\ n \in Nat
    OBVIOUS
  <2>. HIDE DEF v, n
  <2>. QED  BY <2>1
<1>. HIDE DEF v, line, n
<1>2. Reported(v) \subseteq Reported(u) /\ Delivered(v) \subseteq Delivered(u)
  BY <1>1 DEF Reported, Delivered
<1>3. /\ line.kind = "CMTI" => line.of \in Reported(u)
      /\ line.kind = "PDU" => line.of \in Delivered(u)
  BY <1>1, LineFields DEF Reported, Delivered
<1>4. ASSUME OnceSent(u)
      PROVE  /\ OnceSent(v)
             /\ line.kind = "CMTI" => line.of \notin Reported(v)
             /\ line.kind = "PDU" => line.of \notin Delivered(v)
  <2>1. OnceSent(v)
    <3>. SUFFICES ASSUME NEW j \in 1 .. n - 1, NEW k \in 1 .. n - 1, v[j].kind \in {"CMTI", "PDU"},
                         v[j].kind = v[k].kind, v[j].of = v[k].of
                  PROVE  j = k
      BY <1>1 DEF OnceSent
    <3>1. v[j] = u[j + 1] /\ v[k] = u[k + 1] /\ j + 1 \in DOMAIN u /\ k + 1 \in DOMAIN u
      BY <1>1
    <3>2. j + 1 = k + 1
      BY <1>4, <3>1 DEF OnceSent
    <3>. QED  BY <3>2
  <2>2. \A k \in 1 .. n - 1 : line.kind \in {"CMTI", "PDU"} /\ v[k].kind = line.kind => v[k].of # line.of
    <3>. SUFFICES ASSUME NEW k \in 1 .. n - 1, line.kind \in {"CMTI", "PDU"}, v[k].kind = line.kind,
                         v[k].of = line.of
                  PROVE  FALSE
      OBVIOUS
    <3>1. 1 = k + 1
      BY <1>1, <1>4 DEF OnceSent
    <3>. QED  BY <1>1, <3>1
  <2>. QED  BY <1>1, <2>1, <2>2 DEF Reported, Delivered
<1>5. OneAnswer(u) => OneAnswer(v)
  <2>. SUFFICES ASSUME OneAnswer(u), NEW j \in 1 .. n - 1, NEW k \in 1 .. n - 1,
                       v[j].kind \in {"OK", "ERROR"}, j < k
                PROVE  v[k].kind \notin Answers
    BY <1>1 DEF OneAnswer
  <2>1. v[j] = u[j + 1] /\ v[k] = u[k + 1] /\ j + 1 \in DOMAIN u /\ k + 1 \in DOMAIN u
        /\ j + 1 < k + 1
    BY <1>1
  <2>. QED  BY <2>1 DEF OneAnswer
<1>5a. OneAnswer(u) => (line.kind \in {"OK", "ERROR"} => NoAnswers(v))
  <2>1. \A k \in 1 .. n - 1 : 1 < k + 1
    BY <1>1
  <2>. QED  BY <1>1, <2>1 DEF OneAnswer, NoAnswers
<1>6. NoAnswers(u) => NoAnswers(v)
  BY <1>1 DEF NoAnswers
<1>7. ASSUME NEW a \in BOOLEAN, Headers(u, a)
      PROVE  /\ Headers(v, ~a /\ line.kind = "CMT")
             /\ a <=> line.kind = "PDU"
  <2>1. a <=> line.kind = "PDU"
    BY <1>1, <1>7 DEF Headers, line
  <2>2. ASSUME NEW k \in 1 .. n - 1, v[k].kind = "CMT"
        PROVE  k + 1 \in 1 .. n - 1 /\ v[k + 1].kind = "PDU"
    <3>1. (k + 1) + 1 \in 1 .. n /\ u[(k + 1) + 1].kind = "PDU"
      BY <1>1, <1>7, <2>2 DEF Headers
    <3>. QED  BY <1>1, <3>1
  <2>3. ASSUME NEW k \in 1 .. n - 1, v[k].kind = "PDU"
        PROVE  IF k = 1 THEN line.kind = "CMT" ELSE v[k - 1].kind = "CMT"
    <3>1. k + 1 # 1 /\ (k + 1) - 1 = k
      BY <1>1
    <3>2. u[k].kind = "CMT"
      <4>1. k + 1 \in DOMAIN u /\ u[k + 1].kind = "PDU"
        BY <1>1, <2>3
      <4>2. u[(k + 1) - 1].kind = "CMT"
        BY <1>7, <3>1, <4>1 DEF Headers
      <4>. QED  BY <3>1, <4>2
    <3>3. k # 1 => k - 1 \in 1 .. n - 1 /\ (k - 1) + 1 = k
      BY <1>1
    <3>. QED  BY <1>1, <3>2, <3>3
  <2>4. line.kind = "CMT" => v # <<>> /\ Head(v).kind = "PDU"
    <3>. SUFFICES ASSUME line.kind = "CMT" PROVE v # <<>> /\ Head(v).kind = "PDU"
      OBVIOUS
    <3>1. 1 + 1 \in 1 .. n /\ u[1 + 1].kind = "PDU"
      BY <1>1, <1>7 DEF Headers
    <3>2. 1 \in 1 .. n - 1 /\ n - 1 >= 1
      BY <1>1, <3>1
    <3>. QED  BY <1>1, <1>1a, <3>1, <3>2
  <2>5. line.kind = "CMT" => ~a
    BY <2>1
  <2>. QED  BY <1>1, <2>1, <2>2, <2>3, <2>4, <2>5 DEF Headers
<1>8. \A k \in DOMAIN v : \E j \in DOMAIN u : v[k] = u[j]
  BY <1>1
<1>. QED  BY <1>1, <1>2, <1>3, <1>4, <1>5, <1>5a, <1>6, <1>7, <1>8 DEF v, line

-----------------------------------------------------------------------------
(* The places the firmware knows of. *)

\* Those to be read, those to be deleted, and all of them.
ToRead(rd) == ToSet(rd.queue) \cup {i \in Indices : rd.state = "Reading" /\ rd.active = i}

Deletions(w) == {i \in Indices : \E k \in DOMAIN w : w[k] = Delete(i)}

Known(rd) == ToRead(rd) \cup ToSet(rd.deletes) \cup Grouped(rd)

Sound(rd) == OneReason(rd) /\ ActiveApart(rd)

\* A step that learns of no place: it may forget some, and turn some that were
\* to be read into some to be deleted.
LearnsNothing(s, t) ==
  Sound(s.reader) =>
  /\ Sound(t.reader)
  /\ Known(t.reader) \cup Deletions(t.waiting) \subseteq Known(s.reader) \cup Deletions(s.waiting)
  /\ ToRead(t.reader) \subseteq ToRead(s.reader)

\* It gives no order to delete either.
OrdersNothing(s, t) ==
  /\ ToSet(t.reader.deletes) \cup Deletions(t.waiting)
       \subseteq ToSet(s.reader.deletes) \cup Deletions(s.waiting)
  /\ t.reader.groups = s.reader.groups

\* The deletions in the AT queue when a command is added,
LEMMA DeletionsAdded ==
  ASSUME NEW w \in Seq(Command), NEW c \in Command
  PROVE  Deletions(Append(w, c)) = Deletions(w) \cup {i \in Indices : c = Delete(i)}
<1>. DEFINE a == Append(w, c)
            n == Len(w)
<1>1. /\ n \in Nat /\ DOMAIN w = 1 .. n /\ DOMAIN a = 1 .. n + 1
      /\ \A k \in 1 .. n : a[k] = w[k] /\ k \in 1 .. n + 1
      /\ a[n + 1] = c /\ n + 1 \in 1 .. n + 1
      /\ \A k \in 1 .. n + 1 : k \in 1 .. n \/ k = n + 1
  OBVIOUS
<1>. HIDE DEF a, n
<1>2. \A d : (\E k \in DOMAIN a : a[k] = d) <=> (\E k \in DOMAIN w : w[k] = d) \/ c = d
  BY <1>1
<1>. QED  BY <1>2 DEF Deletions, a

\* and when the first one is taken out.
LEMMA DeletionsStarted ==
  ASSUME NEW w \in Seq(Command), w # <<>>
  PROVE  Deletions(w) = Deletions(Tail(w)) \cup {i \in Indices : Head(w) = Delete(i)}
<1>. DEFINE v == Tail(w)
            n == Len(w)
            h == Head(w)
<1>1. /\ n \in Nat \ {0} /\ h = w[1] /\ 1 \in 1 .. n
      /\ DOMAIN w = 1 .. n /\ DOMAIN v = 1 .. n - 1
      /\ \A k \in 1 .. n - 1 : v[k] = w[k + 1] /\ k + 1 \in 1 .. n
      /\ \A k \in 1 .. n : k = 1 \/ (k - 1 \in 1 .. n - 1 /\ (k - 1) + 1 = k)
  OBVIOUS
<1>. HIDE DEF v, n, h
<1>2. \A d : (\E k \in DOMAIN w : w[k] = d) <=> (\E k \in DOMAIN v : v[k] = d) \/ h = d
  <2>. TAKE d
  <2>1. ASSUME NEW k \in 1 .. n, w[k] = d PROVE (\E j \in 1 .. n - 1 : v[j] = d) \/ h = d
    <3>1. CASE k = 1
      BY <1>1, <2>1, <3>1
    <3>2. CASE k # 1
      <4>1. k - 1 \in 1 .. n - 1 /\ v[k - 1] = w[k]
        BY <1>1, <2>1, <3>2
      <4>. QED  BY <2>1, <4>1
    <3>. QED  BY <3>1, <3>2
  <2>2. ASSUME NEW k \in 1 .. n - 1, v[k] = d PROVE \E j \in 1 .. n : w[j] = d
    BY <1>1, <2>2
  <2>3. h = d => \E j \in 1 .. n : w[j] = d
    BY <1>1
  <2>. QED  BY <1>1, <2>1, <2>2, <2>3
<1>. QED  BY <1>2 DEF Deletions, v, h

\* The deletion of a place is no other command.
LEMMA DeleteIs == \A i, j : /\ Delete(i) = Delete(j) <=> i = j
                            /\ Delete(i) # Read(j) /\ Delete(i) # Other(j) /\ Delete(i) # NoCommand
<1>. TAKE i, j
<1>1. Delete(i) = Delete(j) => i = j
  <2>1. Delete(i).arg = i /\ Delete(j).arg = j
    BY CommandFacts
  <2>. QED  BY <2>1
<1>2. Delete(i).op = "delete" /\ Read(j).op = "read" /\ Other(j).op = "other" /\ NoCommand.op = "none"
  BY CommandFacts
<1>. QED  BY <1>1, <1>2

\* A reader that clears its place.
LEMMA Clears ==
  ASSUME NEW s \in States
  PROVE  LET t == [s EXCEPT !.reader = ClearActive(@)]
         IN  /\ t \in States /\ t.receiver = s.receiver /\ t.queued = s.queued
             /\ t.waiting = s.waiting /\ t.reader.state = "None"
             /\ LearnsNothing(s, t) /\ OrdersNothing(s, t)
             /\ ToRead(t.reader) = ToSet(s.reader.queue)
<1>. DEFINE rd == s.reader
            r == ClearActive(rd)
            t == [s EXCEPT !.reader = r]
<1>1. rd \in Readers /\ rd \in ReaderRecord
  BY StateFields, ReaderFields
<1>2. /\ r \in Readers /\ r.queue = rd.queue /\ r.deletes = rd.deletes /\ r.groups = rd.groups
      /\ r.state = "None" /\ r.active = NoIndex
  BY <1>1, ClearActiveTyped DEF ClearActive, ReaderRecord
<1>3. /\ ToSet(rd.queue) \subseteq Indices /\ ToSet(rd.deletes) \subseteq Indices /\ NoIndex \notin Indices
  BY <1>1, ReaderConstants, ReaderTypes
<1>. HIDE DEF rd, r
<1>4. /\ t \in States /\ t.receiver = s.receiver /\ t.queued = s.queued
      /\ t.waiting = s.waiting /\ t.reader = r
  BY <1>2, WithReader
<1>5. [s EXCEPT !.reader = ClearActive(@)] = t
  BY DEF r, rd
<1>. HIDE DEF t
<1>6. Sound(rd) => Sound(r)
  BY <1>2, <1>3 DEF Sound, OneReason, ActiveApart, OneGroup, FreeIsEmpty, Grouped
<1>7. Grouped(r) = Grouped(rd)
  BY <1>2 DEF Grouped
<1>8. ToRead(r) = ToSet(rd.queue)
  BY <1>2 DEF ToRead
<1>9. ToRead(r) \subseteq ToRead(rd)
  BY <1>8 DEF ToRead
<1>. QED  BY <1>2, <1>4, <1>5, <1>6, <1>7, <1>8, <1>9
          DEF LearnsNothing, OrdersNothing, Known, rd

\* A reader that submits a command, or has it refused.
LEMMA SubmitDeleteLearns ==
  ASSUME NEW s \in States
  PROVE  LET t == SubmitDelete(s)
         IN  /\ t \in States /\ t.receiver = s.receiver /\ t.queue = s.queue /\ t.queued = s.queued
             /\ LearnsNothing(s, t) /\ OrdersNothing(s, t)
<1>. DEFINE t  == SubmitDelete(s)
            rd == s.reader
            r  == NextDelete(rd)
<1>1. t \in States /\ t.receiver = s.receiver /\ t.queue = s.queue /\ t.queued = s.queued
  BY SubmitDeleteEffect
<1>2. CASE ~DeleteIsReady(rd)
  <2>1. t = s
    BY <1>2 DEF SubmitDelete
  <2>. QED  BY <2>1 DEF LearnsNothing, OrdersNothing
<1>3. CASE DeleteIsReady(rd)
  <2>1. rd \in Readers /\ s.waiting \in Seq(Command)
    BY StateFields
  <2>2. /\ r \in Readers /\ r.state = "Deleting" /\ r.active \in Indices
        /\ r.queue = rd.queue /\ r.groups = rd.groups
        /\ ToSet(rd.deletes) = ToSet(r.deletes) \cup {r.active}
        /\ OneReason(rd) => OneReason(r) /\ ActiveApart(r)
    BY <1>3, <2>1, ReaderConstants, NextDeleteEffect
  <2>3. \/ t.reader = r /\ t.waiting = Append(s.waiting, Delete(r.active))
        \/ t.reader = ClearActive(r) /\ t.waiting = s.waiting
    BY <1>3, SubmitDeleteEffect
  <2>. HIDE DEF r
  <2>4. /\ Sound(rd) => Sound(r)
        /\ Grouped(r) = Grouped(rd)
        /\ ToRead(r) = ToSet(rd.queue)
    BY <2>2 DEF Sound, Grouped, ToRead
  <2>. HIDE DEF t, rd
  <2>5. CASE t.reader = r /\ t.waiting = Append(s.waiting, Delete(r.active))
    <3>1. Deletions(t.waiting) = Deletions(s.waiting) \cup {r.active}
      <4>1. Delete(r.active) \in Command
        BY <2>2 DEF Command
      <4>2. Deletions(Append(s.waiting, Delete(r.active)))
              = Deletions(s.waiting) \cup {i \in Indices : Delete(r.active) = Delete(i)}
        BY <2>1, <4>1, DeletionsAdded
      <4>3. {i \in Indices : Delete(r.active) = Delete(i)} = {r.active}
        BY <2>2, DeleteIs
      <4>. QED  BY <2>5, <4>2, <4>3
    <3>. QED  BY <1>1, <2>2, <2>4, <2>5, <3>1 DEF LearnsNothing, OrdersNothing, Known, ToRead,
                 t, rd
  <2>6. CASE t.reader = ClearActive(r) /\ t.waiting = s.waiting
    <3>. DEFINE c == ClearActive(r)
    <3>1. /\ c.queue = r.queue /\ c.deletes = r.deletes /\ c.groups = r.groups
          /\ c.state = "None" /\ c.active = NoIndex
      BY <2>2, ReaderFields DEF ClearActive, ReaderRecord
    <3>2. NoIndex \notin Indices /\ ToSet(r.queue) \subseteq Indices /\ ToSet(r.deletes) \subseteq Indices
      BY <2>2, ReaderConstants, ReaderTypes
    <3>. HIDE DEF c
    <3>3. Sound(r) => Sound(c)
      BY <3>1, <3>2 DEF Sound, OneReason, ActiveApart, OneGroup, FreeIsEmpty, Grouped
    <3>4. Grouped(c) = Grouped(r) /\ ToRead(c) = ToSet(r.queue)
      BY <3>1 DEF Grouped, ToRead
    <3>. QED  BY <1>1, <2>2, <2>4, <2>6, <3>1, <3>3, <3>4
              DEF LearnsNothing, OrdersNothing, Known, ToRead, c, t, rd
  <2>. QED  BY <2>3, <2>5, <2>6 DEF t, rd
<1>. QED  BY <1>1, <1>2, <1>3

\* Submitting the reader's command teaches it no place.
LEMMA SubmitReadLearns ==
  ASSUME NEW s \in States
  PROVE  LET t == SubmitRead(s)
         IN  /\ t \in States /\ t.receiver = s.receiver /\ t.queue = s.queue /\ t.queued = s.queued
             /\ LearnsNothing(s, t) /\ OrdersNothing(s, t)
<1>. DEFINE t  == SubmitRead(s)
            rd == s.reader
            r  == NextRead(rd)
<1>1. t \in States /\ t.receiver = s.receiver /\ t.queue = s.queue /\ t.queued = s.queued
  BY SubmitReadEffect
<1>2. CASE ~ReadIsReady(rd)
  <2>1. t = s
    BY <1>2 DEF SubmitRead
  <2>. QED  BY <2>1 DEF LearnsNothing, OrdersNothing
<1>3. CASE ReadIsReady(rd)
  <2>1. rd \in Readers /\ s.waiting \in Seq(Command)
    BY StateFields
  <2>2. /\ r \in Readers /\ r.state = "Reading" /\ r.active \in Indices
        /\ r.deletes = rd.deletes /\ r.groups = rd.groups
        /\ ToSet(rd.queue) = ToSet(r.queue) \cup {r.active}
        /\ OneReason(rd) => OneReason(r) /\ ActiveApart(r)
    BY <1>3, <2>1, ReaderConstants, NextReadEffect
  <2>3. \/ t.reader = r /\ t.waiting = Append(s.waiting, Read(r.active))
        \/ t.reader = ClearActive(r) /\ t.waiting = s.waiting
    BY <1>3, SubmitReadEffect
  <2>. HIDE DEF r
  <2>4. /\ Sound(rd) => Sound(r)
        /\ Grouped(r) = Grouped(rd)
        /\ ToRead(r) = ToSet(rd.queue)
    BY <2>2 DEF Sound, Grouped, ToRead
  <2>4a. ToRead(rd) = ToSet(rd.queue)
    BY <1>3 DEF ToRead, ReadIsReady
  <2>. HIDE DEF t, rd
  <2>5. CASE t.reader = r /\ t.waiting = Append(s.waiting, Read(r.active))
    <3>1. Deletions(t.waiting) = Deletions(s.waiting)
      <4>1. Read(r.active) \in Command
        BY <2>2 DEF Command
      <4>2. Deletions(Append(s.waiting, Read(r.active)))
              = Deletions(s.waiting) \cup {i \in Indices : Read(r.active) = Delete(i)}
        BY <2>1, <4>1, DeletionsAdded
      <4>3. {i \in Indices : Read(r.active) = Delete(i)} = {}
        BY DeleteIs
      <4>. QED  BY <2>5, <4>2, <4>3
    <3>. QED  BY <1>1, <2>2, <2>4, <2>4a, <2>5, <3>1 DEF LearnsNothing, OrdersNothing, Known, t,
                 rd
  <2>6. CASE t.reader = ClearActive(r) /\ t.waiting = s.waiting
    <3>. DEFINE c == ClearActive(r)
    <3>1. /\ c.queue = r.queue /\ c.deletes = r.deletes /\ c.groups = r.groups
          /\ c.state = "None" /\ c.active = NoIndex
      BY <2>2, ReaderFields DEF ClearActive, ReaderRecord
    <3>2. NoIndex \notin Indices /\ ToSet(r.queue) \subseteq Indices /\ ToSet(r.deletes) \subseteq Indices
      BY <2>2, ReaderConstants, ReaderTypes
    <3>. HIDE DEF c
    <3>3. Sound(r) => Sound(c)
      BY <3>1, <3>2 DEF Sound, OneReason, ActiveApart, OneGroup, FreeIsEmpty, Grouped
    <3>4. Grouped(c) = Grouped(r) /\ ToRead(c) = ToSet(r.queue)
      BY <3>1 DEF Grouped, ToRead
    <3>. QED  BY <1>1, <2>2, <2>4, <2>4a, <2>6, <3>1, <3>3, <3>4
              DEF LearnsNothing, OrdersNothing, Known, c, t, rd
  <2>. QED  BY <2>3, <2>5, <2>6 DEF t, rd
<1>. QED  BY <1>1, <1>2, <1>3

\* The callback of the command under way.  What it orders to be deleted is, or
\* is a part of, the message it has just queued.
LEMMA CallbackLearns ==
  ASSUME NEW s \in States, NEW c \in Command, NEW result, NEW pdu \in Sms \cup {NoSms},
         Channel(s.waiting, c, s.reader)
  PROVE  LET t == Callback(s, c, result, pdu)
             h == Handed(s, pdu)
             Ordered(x) == ToSet(x.reader.deletes) \cup Deletions(x.waiting)
         IN  /\ t \in States
             /\ LearnsNothing(s, t)
             /\ c.op = "read" => /\ s.reader.state = "Reading" /\ s.reader.active = c.arg
                                 /\ ToRead(t.reader) \subseteq ToSet(s.reader.queue)
             /\ \/ t.receiver = s.receiver /\ t.queued = s.queued /\ OrdersNothing(s, t)
                \/ /\ c.op = "read" /\ result = "Ok" /\ pdu \in Sms
                   /\ t.receiver = h.receiver /\ t.queued = h.queued
                   /\ \A sm : sm[c.arg] = pdu /\ FreeIsEmpty(s.reader) /\ GroupsMatch(s.reader, sm) =>
                        /\ GroupsMatch(t.reader, sm)
                        /\ \A i \in Ordered(t) \ Ordered(s) :
                             /\ HandlePdu(s.receiver, pdu).received # <<>> /\ HasRoom(s.queue)
                             /\ Belongs(sm[i], pdu)
<1>. DEFINE t == Callback(s, c, result, pdu)
            h == Handed(s, pdu)
            Ordered(x) == ToSet(x.reader.deletes) \cup Deletions(x.waiting)
<1>0. s.reader \in Readers /\ s.waiting \in Seq(Command)
  BY StateFields
<1>1. CASE c.op = "read"
  <2>. DEFINE o    == HandlePdu(s.receiver, pdu)
              room == HasRoom(s.queue)
              b    == o.received # <<>> /\ room
              rd   == MessageAccepted(s.reader, pdu, b)
  <2>1. t = ReadResult(s, result, pdu)
    BY <1>1 DEF Callback
  <2>2. s.reader.state = "Reading" /\ s.reader.active = c.arg
    <3>1. s.reader.state # "None" /\ c = CommandOf(s.reader)
      BY <1>1 DEF Channel
    <3>2. s.reader.state \in {"None", "Reading", "Deleting"}
      BY <1>0 DEF Readers
    <3>. QED  BY <1>1, <3>1, <3>2, CommandFacts
  <2>3. \/ /\ t = [s EXCEPT !.reader = ClearActive(@)]
        \/ /\ result = "Ok" /\ pdu \in Sms
           /\ t = [h EXCEPT !.reader = ClearActive(@)]
        \/ /\ result = "Ok" /\ pdu \in Sms
           /\ t = SubmitDelete([h EXCEPT !.reader = rd])
    <3>1. CASE result # "Ok" \/ pdu = NoSms
      BY <2>1, <3>1 DEF ReadResult
    <3>2. CASE result = "Ok" /\ pdu \in Sms
      BY <2>1, <2>2, <3>2, ReadResultEffect
    <3>. QED  BY <3>1, <3>2
  <2>4. pdu \in Sms => h \in States /\ h.waiting = s.waiting /\ h.reader = s.reader
    BY HandedEffect
  <2>. HIDE DEF t, h, b
  <2>5. CASE t = [s EXCEPT !.reader = ClearActive(@)]
    BY <2>2, <2>5, Clears DEF t, h
  <2>6. CASE /\ result = "Ok" /\ pdu \in Sms
             /\ t = [h EXCEPT !.reader = ClearActive(@)]
    <3>1. /\ t \in States /\ t.receiver = h.receiver /\ t.queued = h.queued
          /\ LearnsNothing(h, t) /\ OrdersNothing(h, t)
          /\ ToRead(t.reader) = ToSet(h.reader.queue)
      BY <2>4, <2>6, Clears
    <3>2. LearnsNothing(s, t) /\ OrdersNothing(s, t)
      BY <2>4, <2>6, <3>1 DEF LearnsNothing, OrdersNothing
    <3>3. \A sm : GroupsMatch(s.reader, sm) => GroupsMatch(t.reader, sm)
      BY <3>2 DEF OrdersNothing, GroupsMatch
    <3>4. Ordered(t) \ Ordered(s) = {}
      BY <3>2 DEF OrdersNothing
    <3>. HIDE DEF Ordered
    <3>5. ToRead(t.reader) \subseteq ToSet(s.reader.queue)
      BY <2>4, <2>6, <3>1
    <3>. QED  BY <1>1, <2>2, <2>6, <3>1, <3>2, <3>3, <3>4, <3>5 DEF t, h, Ordered
  <2>7. CASE /\ result = "Ok" /\ pdu \in Sms
             /\ t = SubmitDelete([h EXCEPT !.reader = rd])
    <3>. DEFINE h1 == [h EXCEPT !.reader = rd]
    <3>0. b \in BOOLEAN
      BY DEF b
    <3>1. /\ rd \in Readers /\ rd.queue = s.reader.queue /\ rd.state = "None"
          /\ Sound(s.reader) => /\ OneReason(rd)
                                /\ ToSet(rd.deletes) \cup Grouped(rd) \subseteq
                                     ToSet(s.reader.deletes) \cup Grouped(s.reader) \cup {s.reader.active}
      BY <1>0, <2>2, <2>7, <3>0, ReaderConstants, MessageAcceptedEffect DEF Sound
    <3>1a. \A sm : sm[c.arg] = pdu /\ FreeIsEmpty(s.reader) /\ GroupsMatch(s.reader, sm) =>
             /\ GroupsMatch(rd, sm)
             /\ \A i \in ToSet(rd.deletes) \ ToSet(s.reader.deletes) :
                  /\ b
                  /\ Belongs(sm[i], pdu)
      <4>. SUFFICES ASSUME NEW sm, sm[c.arg] = pdu, FreeIsEmpty(s.reader), GroupsMatch(s.reader, sm)
           PROVE /\ GroupsMatch(rd, sm)
                 /\ \A i \in ToSet(rd.deletes) \ ToSet(s.reader.deletes) :
                      /\ b
                      /\ Belongs(sm[i], pdu)
        OBVIOUS
      <4>1. sm[s.reader.active] = pdu /\ sm[s.reader.active] \in Sms
        BY <2>2, <2>7
      <4>. DEFINE y == s.reader
      <4>2. y \in Readers /\ y.state = "Reading" /\ sm[y.active] = pdu /\ pdu \in Sms
            /\ FreeIsEmpty(y) /\ GroupsMatch(y, sm)
        BY <1>0, <2>2, <2>7, <4>1
      <4>. DEFINE r == MessageAccepted(y, pdu, b)
      <4>. HIDE DEF y
      <4>3. /\ GroupsMatch(r, sm)
            /\ \A i \in ToSet(r.deletes) \ ToSet(y.deletes) :
                 /\ b = TRUE
                 /\ Belongs(sm[i], pdu)
        BY <3>0, <4>2, ReaderConstants, MessageAcceptedMatches
      <4>. QED  BY <4>3 DEF y
    <3>2. h1 \in States /\ h1.waiting = s.waiting /\ h1.reader = rd
          /\ h1.receiver = h.receiver /\ h1.queued = h.queued
      BY <2>4, <2>7, <3>1, WithReader
    <3>. HIDE DEF rd
    <3>3. t = SubmitDelete(h1)
      BY <2>7
    <3>. HIDE DEF h1
    <3>4. /\ t \in States /\ t.receiver = h1.receiver /\ t.queued = h1.queued
          /\ LearnsNothing(h1, t) /\ OrdersNothing(h1, t)
      BY <3>2, <3>3, SubmitDeleteLearns
    <3>5. ToRead(rd) = ToSet(s.reader.queue) /\ ToRead(rd) \subseteq ToRead(s.reader)
      BY <3>1 DEF ToRead
    <3>6. Sound(s.reader) => Sound(rd) /\ Known(rd) \subseteq Known(s.reader)
      <4>1. rd.active = NoIndex /\ NoIndex \notin Indices
            /\ ToSet(rd.queue) \subseteq Indices /\ ToSet(rd.deletes) \subseteq Indices
        BY <3>1, ReaderConstants, ReaderTypes
      <4>2. ActiveApart(rd)
        BY <4>1 DEF ActiveApart, Grouped
      <4>3. s.reader.active \in ToRead(s.reader)
        BY <1>0, <2>2, ReaderConstants, ReaderTypes DEF ToRead
      <4>. QED  BY <3>1, <3>5, <4>2, <4>3 DEF Sound, Known
    <3>7. LearnsNothing(s, t)
      BY <3>2, <3>4, <3>5, <3>6 DEF LearnsNothing
    <3>8. ToRead(t.reader) \subseteq ToSet(s.reader.queue)
      <4>1. t.reader.queue = rd.queue /\ t.reader.state # "Reading"
        <5>1. \/ t = h1
              \/ t.reader = NextDelete(rd)
              \/ t.reader = ClearActive(NextDelete(rd))
          BY <3>2, <3>3, SubmitDeleteEffect
        <5>2. NextDelete(rd).queue = rd.queue /\ NextDelete(rd).state = "Deleting"
              /\ ClearActive(NextDelete(rd)).queue = rd.queue /\ ClearActive(NextDelete(rd)).state = "None"
          BY <3>1, ReaderFields DEF NextDelete, ClearActive, ReaderRecord
        <5>. QED  BY <3>1, <3>2, <5>1, <5>2
      <4>. QED  BY <3>1, <4>1 DEF ToRead
    <3>9. \A i \in Ordered(t) \ Ordered(s) : i \in ToSet(rd.deletes) \ ToSet(s.reader.deletes)
      BY <3>2, <3>4 DEF OrdersNothing
    <3>10. \A sm : GroupsMatch(rd, sm) => GroupsMatch(t.reader, sm)
      BY <3>2, <3>4 DEF OrdersNothing, GroupsMatch
    <3>. HIDE DEF Ordered
    <3>11. \A sm : sm[c.arg] = pdu /\ FreeIsEmpty(s.reader) /\ GroupsMatch(s.reader, sm) =>
             /\ GroupsMatch(t.reader, sm)
             /\ \A i \in Ordered(t) \ Ordered(s) :
                  /\ HandlePdu(s.receiver, pdu).received # <<>> /\ HasRoom(s.queue)
                  /\ Belongs(sm[i], pdu)
      BY <3>1a, <3>9, <3>10 DEF b
    <3>. QED  BY <1>1, <2>2, <2>7, <3>2, <3>4, <3>7, <3>8, <3>11 DEF t, h, Ordered
  <2>. QED  BY <2>3, <2>5, <2>6, <2>7
<1>2. CASE c.op = "delete"
  <2>1. s.reader.state = "Deleting"
    <3>1. s.reader.state # "None" /\ c = CommandOf(s.reader)
      BY <1>2 DEF Channel
    <3>2. s.reader.state \in {"None", "Reading", "Deleting"}
      BY <1>0 DEF Readers
    <3>. QED  BY <1>2, <3>1, <3>2, CommandFacts
  <2>2. t = [s EXCEPT !.reader = ClearActive(@)]
    BY <1>2, <2>1 DEF Callback, CompleteDelete
  <2>. QED  BY <1>2, <2>2, Clears
<1>3. CASE c.op = "other"
  <2>1. t = s
    BY <1>3 DEF Callback
  <2>. QED  BY <1>3, <2>1 DEF LearnsNothing, OrdersNothing
<1>. QED  BY <1>1, <1>2, <1>3, CommandFacts

-----------------------------------------------------------------------------
(* The steps, as what they do to the firmware's record and to the modem. *)

\* What a line does to the firmware's record, by its kind.
LEMMA ReadLineCases ==
  ASSUME ChannelInv, ReadLine
  PROVE  LET line == Head(uart)
             result == IF line.kind = "OK" THEN "Ok" ELSE "Error"
         IN  /\ uart \in Seq(Lines) /\ uart # <<>> /\ uart' = Tail(uart) /\ line \in Lines
             /\ pc = "drain" /\ pc' = "drain"
             /\ UNCHANGED <<pending, executed, sim, arrived, deleted>>
             /\ State \in States /\ Channel(waiting, current, reader)
             /\ \/ /\ awaitingCmtPdu \/ line.kind \in {"CMT", "CMTI"} \/ current = NoCommand
                   /\ awaitingCmtPdu' <=> (~awaitingCmtPdu /\ line.kind = "CMT")
                   /\ State' = OnUrc(State, line)
                   /\ current' = current /\ response' = response
                \/ /\ ~awaitingCmtPdu /\ line.kind = "DATA" /\ awaitingCmtPdu' = awaitingCmtPdu
                   /\ response' = IF response = NoSms THEN line.of ELSE response
                   /\ State' = State /\ current' = current
                \/ /\ ~awaitingCmtPdu /\ line.kind \in {"OK", "ERROR"} /\ awaitingCmtPdu' = awaitingCmtPdu
                   /\ current \in Command /\ response \in Sms \cup {NoSms}
                   /\ State' = Callback(State, current, result, response)
                   /\ current' = NoCommand /\ response' = NoSms
<1>. DEFINE line == Head(uart)
            result == IF line.kind = "OK" THEN "Ok" ELSE "Error"
<1>1. State \in States /\ OwnTypes /\ ModemTypes /\ Channel(waiting, current, reader)
  BY TypesAre DEF ChannelInv
<1>2. /\ uart \in Seq(Lines) /\ uart # <<>> /\ uart' = Tail(uart)
      /\ pc = "drain" /\ pc' = "drain"
      /\ UNCHANGED <<pending, executed, sim, arrived, deleted>>
  BY <1>1 DEF ReadLine, modemVars, ModemTypes
<1>3. line \in Lines
  BY <1>2
<1>4. CASE ReadUrc(line)
  <2>1. OnUrc(State, line) \in States
    BY <1>1, <1>3, OnUrcEffect
  <2>2. State' = OnUrc(State, line)
    BY <1>4, <2>1, BecomesState DEF ReadUrc
  <2>. QED  BY <1>1, <1>2, <1>3, <1>4, <2>2 DEF ReadUrc
<1>5. CASE ReadData(line)
  <2>1. State' = State
    BY <1>5 DEF ReadData, State
  <2>. QED  BY <1>1, <1>2, <1>3, <1>5, <2>1 DEF ReadData
<1>6. CASE ReadFinal(line)
  <2>1. current \in Command /\ response \in Sms \cup {NoSms}
    BY <1>1, <1>6 DEF OwnTypes, ReadFinal
  <2>2. Callback(State, current, result, response) \in States
    BY <1>1, <2>1, CallbackChannel, StateIs
  <2>3. State' = Callback(State, current, result, response)
    BY <1>6, <2>2, BecomesState DEF ReadFinal
  <2>. HIDE DEF result
  <2>. QED  BY <1>1, <1>2, <1>3, <1>6, <2>1, <2>3 DEF ReadFinal, result
<1>. QED  BY <1>4, <1>5, <1>6 DEF ReadLine

\* What a poll of the AT channel does: a command ends or times out, then the next
\* one begins.
LEMMA PollCases ==
  ASSUME ChannelInv, NEW timeout \in BOOLEAN, Poll(timeout)
  PROVE  LET s == IF timeout THEN Callback(State, current, "Timeout", NoSms) ELSE State
         IN  /\ uart = <<>> /\ uart' = uart /\ pc' = "sms"
             /\ UNCHANGED <<executed, sim, arrived, deleted, awaitingCmtPdu>>
             /\ State \in States /\ Channel(waiting, current, reader)
             /\ pending \in Seq(Command) /\ s \in States /\ s.waiting \in Seq(Command)
             /\ timeout => current \in Command /\ (LateAnswers \/ pending = <<>>)
             /\ \/ /\ timeout \/ current = NoCommand
                   /\ s.waiting # <<>> /\ current' = Head(s.waiting) /\ Head(s.waiting) \in Command
                   /\ State' = [s EXCEPT !.waiting = Tail(@)] /\ State' \in States
                   /\ response' = NoSms /\ pending' = Append(pending, Head(s.waiting))
                \/ /\ State' = s
                   /\ current' = IF timeout THEN NoCommand ELSE current
                   /\ response' = IF timeout THEN NoSms ELSE response
                   /\ pending' = pending
<1>. DEFINE s == IF timeout THEN Callback(State, current, "Timeout", NoSms) ELSE State
            starts == (timeout \/ current = NoCommand) /\ s.waiting # <<>>
<1>1. State \in States /\ OwnTypes /\ ModemTypes /\ Channel(waiting, current, reader)
  BY TypesAre DEF ChannelInv
<1>2. timeout => current \in Command /\ (LateAnswers \/ pending = <<>>)
  BY <1>1 DEF OwnTypes, Poll, MayTimeOut
<1>3. s \in States
  BY <1>1, <1>2, CallbackChannel, StateIs
<1>4. /\ uart = <<>> /\ uart' = uart /\ pc' = "sms"
      /\ UNCHANGED <<executed, sim, arrived, deleted, awaitingCmtPdu>>
      /\ pending \in Seq(Command)
  BY <1>1 DEF Poll, ModemTypes
<1>5. IF starts
      THEN /\ Becomes([s EXCEPT !.waiting = Tail(@)])
           /\ current' = Head(s.waiting)
           /\ response' = NoSms
           /\ pending' = Append(pending, Head(s.waiting))
      ELSE /\ Becomes(s)
           /\ current' = IF timeout THEN NoCommand ELSE current
           /\ response' = IF timeout THEN NoSms ELSE response
           /\ pending' = pending
  BY DEF Poll
<1>. HIDE DEF s
<1>6. s.waiting \in Seq(Command) /\ Len(s.waiting) <= AtCapacity /\ AtCapacity \in Nat
  BY <1>3, StateFields
<1>7. CASE starts
  <2>. DEFINE t == [s EXCEPT !.waiting = Tail(@)]
              w == s.waiting
  <2>1. w # <<>>
    BY <1>7
  <2>2. Head(w) \in Command /\ Tail(w) \in Seq(Command) /\ Len(Tail(w)) <= AtCapacity
    BY <1>6, <2>1
  <2>3. t \in States
    <3>1. t \in StateRecord /\ t.waiting = Tail(w) /\ t.queue = s.queue
      BY <1>3, <2>2 DEF States, StateRecord
    <3>2. Len(s.queue) <= Capacity
      BY <1>3, StateFields
    <3>. HIDE DEF t
    <3>. QED  BY <2>2, <3>1, <3>2 DEF States
  <2>4. Becomes(t)
    BY <1>5, <1>7
  <2>. HIDE DEF t
  <2>5. State' = t
    BY <2>3, <2>4, BecomesState
  <2>. QED  BY <1>1, <1>2, <1>3, <1>4, <1>5, <1>6, <1>7, <2>2, <2>3, <2>5 DEF t, s
<1>8. CASE ~starts
  <2>1. State' = s
    BY <1>3, <1>5, <1>8, BecomesState
  <2>. QED  BY <1>1, <1>2, <1>3, <1>4, <1>5, <1>6, <1>8, <2>1 DEF s
<1>. QED  BY <1>7, <1>8

\* The modem deletes, answers the oldest command, or reports a message.
LEMMA ModemCases ==
  ASSUME ModemTypes, Modem \/ \E s \in Sms : NetworkDelivers(s)
  PROVE  \/ /\ uart' = uart /\ pending' = pending /\ arrived' = arrived
            /\ pending # <<>> /\ ~executed /\ executed'
            /\ \E i \in Indices : /\ Head(pending) = Delete(i)
                                  /\ sim' = [sim EXCEPT ![i] = NoSms]
                                  /\ deleted' = deleted \cup ({sim[i]} \ {NoSms})
         \/ /\ pending # <<>> /\ Head(pending) \in Command
            /\ pending' = Tail(pending) /\ UNCHANGED <<sim, arrived, deleted>>
            /\ \/ uart' = uart
               \/ \E kind \in {"OK", "ERROR"} : uart' = uart \o <<L(kind, NoIndex)>>
               \/ LET c == Head(pending)
                  IN  /\ c.op = "read" /\ sim[c.arg] \in Sms
                      /\ uart' = uart \o <<L("DATA", sim[c.arg]), L("OK", NoIndex)>>
         \/ /\ UNCHANGED <<pending, executed, deleted>>
            /\ \E s \in Sms \ arrived :
                 /\ arrived' = arrived \cup {s}
                 /\ \/ sim' = sim /\ uart' = uart \o <<L("CMT", NoIndex), L("PDU", s)>>
                    \/ \E i \in Indices : /\ sim[i] = NoSms
                                          /\ sim' = [sim EXCEPT ![i] = s]
                                          /\ uart' = uart \o <<L("CMTI", i)>>
<1>0. uart \in Seq(Lines) /\ pending \in Seq(Command) /\ sim \in [Indices -> Sms \cup {NoSms}]
      /\ executed \in BOOLEAN
  BY DEF ModemTypes
<1>0a. \A x \in Lines : Append(uart, x) = uart \o <<x>>
  BY <1>0
<1>1. CASE ModemDeletes
  <2>. DEFINE c == Head(pending)
  <2>1. c \in Command /\ c.op = "delete" /\ pending # <<>>
    BY <1>0, <1>1 DEF ModemDeletes
  <2>2. c.arg \in Indices /\ c = Delete(c.arg)
    BY <2>1, CommandFacts
  <2>3. /\ sim' = [sim EXCEPT ![c.arg] = NoSms]
        /\ deleted' = deleted \cup ({sim[c.arg]} \ {NoSms})
        /\ uart' = uart /\ pending' = pending /\ arrived' = arrived /\ ~executed /\ executed'
    BY <1>1 DEF ModemDeletes
  <2>. HIDE DEF c
  <2>. QED  BY <2>1, <2>2, <2>3 DEF c
<1>2. CASE ModemReplies
  <2>. DEFINE c == Head(pending)
  <2>1. pending # <<>> /\ c \in Command
    BY <1>0, <1>2 DEF ModemReplies
  <2>2. /\ uart' = IF c.op = "read" /\ sim[c.arg] # NoSms
                   THEN uart \o <<L("DATA", sim[c.arg]), L("OK", NoIndex)>>
                   ELSE Append(uart, L("OK", NoIndex))
        /\ pending' = Tail(pending) /\ UNCHANGED <<sim, arrived, deleted>>
    BY <1>2 DEF ModemReplies, history
  <2>3. CASE c.op = "read" /\ sim[c.arg] # NoSms
    <3>1. sim[c.arg] \in Sms
      BY <1>0, <2>1, <2>3, CommandFacts
    <3>. QED  BY <2>1, <2>2, <2>3, <3>1
  <2>4. CASE ~(c.op = "read" /\ sim[c.arg] # NoSms)
    <3>1. L("OK", NoIndex) \in Lines
      BY DEF Lines
    <3>2. uart' = uart \o <<L("OK", NoIndex)>>
      BY <1>0a, <2>2, <2>4, <3>1
    <3>. QED  BY <2>1, <2>2, <3>2
  <2>. QED  BY <2>3, <2>4
<1>3. CASE ModemFails
  <2>1. pending # <<>> /\ Head(pending) \in Command
    BY <1>0, <1>3 DEF ModemFails
  <2>2. L("ERROR", NoIndex) \in Lines
    BY DEF Lines
  <2>3. uart' = uart \/ uart' = Append(uart, L("ERROR", NoIndex))
    BY <1>3 DEF ModemFails
  <2>4. uart' = uart \/ uart' = uart \o <<L("ERROR", NoIndex)>>
    BY <1>0a, <2>2, <2>3
  <2>5. pending' = Tail(pending) /\ UNCHANGED <<sim, arrived, deleted>>
    BY <1>3 DEF ModemFails, history
  <2>. QED  BY <2>1, <2>4, <2>5
<1>4. ASSUME NEW s \in Sms, NetworkDelivers(s)
      PROVE  /\ UNCHANGED <<pending, executed, deleted>> /\ s \notin arrived
             /\ arrived' = arrived \cup {s}
             /\ \/ sim' = sim /\ uart' = uart \o <<L("CMT", NoIndex), L("PDU", s)>>
                \/ \E i \in Indices : /\ sim[i] = NoSms
                                      /\ sim' = [sim EXCEPT ![i] = s]
                                      /\ uart' = uart \o <<L("CMTI", i)>>
  <2>1. /\ UNCHANGED <<pending, executed, deleted>> /\ s \notin arrived
        /\ arrived' = arrived \cup {s}
    BY <1>4 DEF NetworkDelivers, history
  <2>2. CASE s \in Direct
    BY <1>4, <2>1, <2>2 DEF NetworkDelivers
  <2>3. CASE s \notin Direct
    <3>1. PICK i \in Indices : /\ sim[i] = NoSms /\ sim' = [sim EXCEPT ![i] = s]
                               /\ uart' = Append(uart, L("CMTI", i))
      BY <1>4, <2>3 DEF NetworkDelivers
    <3>2. L("CMTI", i) \in Lines
      BY DEF Lines
    <3>3. uart' = uart \o <<L("CMTI", i)>>
      BY <1>0a, <3>1, <3>2
    <3>. QED  BY <2>1, <3>1, <3>3
  <2>. QED  BY <2>2, <2>3
<1>5. CASE \E s \in Sms : NetworkDelivers(s)
  BY <1>4, <1>5
<1>. QED  BY <1>1, <1>2, <1>3, <1>5 DEF Modem

\* What is sent.
LEMMA SentLines ==
  /\ \A kind \in {"OK", "ERROR"} :
       LET v == <<L(kind, NoIndex)>>
       IN  /\ v \in Seq(Lines) /\ Headers(v, FALSE) /\ OneAnswer(v) /\ OnceSent(v)
           /\ Reported(v) = {} /\ Delivered(v) = {}
           /\ \A k \in DOMAIN v : v[k].kind # "DATA"
  /\ \A s \in Sms :
       LET v == <<L("DATA", s), L("OK", NoIndex)>>
       IN  /\ v \in Seq(Lines) /\ Headers(v, FALSE) /\ OneAnswer(v) /\ OnceSent(v)
           /\ Reported(v) = {} /\ Delivered(v) = {}
           /\ \A k \in DOMAIN v : v[k].kind = "DATA" => v[k].of = s
  /\ \A s \in Sms :
       LET v == <<L("CMT", NoIndex), L("PDU", s)>>
       IN  /\ v \in Seq(Lines) /\ Headers(v, FALSE) /\ NoAnswers(v) /\ OnceSent(v)
           /\ Reported(v) = {} /\ Delivered(v) = {s}
  /\ \A i \in Indices :
       LET v == <<L("CMTI", i)>>
       IN  /\ v \in Seq(Lines) /\ Headers(v, FALSE) /\ NoAnswers(v) /\ OnceSent(v)
           /\ Reported(v) = {i} /\ Delivered(v) = {}
<1>1. ASSUME NEW kind \in {"OK", "ERROR"}
      PROVE  LET v == <<L(kind, NoIndex)>>
             IN  /\ v \in Seq(Lines) /\ Headers(v, FALSE) /\ OneAnswer(v) /\ OnceSent(v)
                 /\ Reported(v) = {} /\ Delivered(v) = {}
                 /\ \A k \in DOMAIN v : v[k].kind # "DATA"
  <2>. DEFINE x == L(kind, NoIndex)
              v == <<x>>
  <2>1. x \in Lines /\ x.kind = kind
    BY DEF Lines, L
  <2>. HIDE DEF x
  <2>2. v \in Seq(Lines) /\ DOMAIN v = {1} /\ v[1] = x
    BY <2>1
  <2>. HIDE DEF v
  <2>. QED  BY <2>1, <2>2 DEF v, x, Headers, OneAnswer, OnceSent, Reported, Delivered
<1>2. ASSUME NEW s \in Sms
      PROVE  LET v == <<L("DATA", s), L("OK", NoIndex)>>
             IN  /\ v \in Seq(Lines) /\ Headers(v, FALSE) /\ OneAnswer(v) /\ OnceSent(v)
                 /\ Reported(v) = {} /\ Delivered(v) = {}
                 /\ \A k \in DOMAIN v : v[k].kind = "DATA" => v[k].of = s
  <2>. DEFINE x == L("DATA", s)
              y == L("OK", NoIndex)
              v == <<x, y>>
  <2>1. x \in Lines /\ x.kind = "DATA" /\ x.of = s /\ y \in Lines /\ y.kind = "OK"
    BY DEF Lines, L
  <2>. HIDE DEF x, y
  <2>2. v \in Seq(Lines) /\ DOMAIN v = {1, 2} /\ v[1] = x /\ v[2] = y
    BY <2>1
  <2>. HIDE DEF v
  <2>3. Headers(v, FALSE) /\ Reported(v) = {} /\ Delivered(v) = {} /\ OnceSent(v)
        /\ \A k \in DOMAIN v : v[k].kind = "DATA" => v[k].of = s
    BY <2>1, <2>2 DEF Headers, Reported, Delivered, OnceSent
  <2>4. OneAnswer(v)
    BY <2>1, <2>2 DEF OneAnswer
  <2>. QED  BY <2>2, <2>3, <2>4 DEF v, x, y
<1>3. ASSUME NEW s \in Sms
      PROVE  LET v == <<L("CMT", NoIndex), L("PDU", s)>>
             IN  /\ v \in Seq(Lines) /\ Headers(v, FALSE) /\ NoAnswers(v) /\ OnceSent(v)
                 /\ Reported(v) = {} /\ Delivered(v) = {s}
  <2>. DEFINE x == L("CMT", NoIndex)
              y == L("PDU", s)
              v == <<x, y>>
  <2>1. x \in Lines /\ x.kind = "CMT" /\ y \in Lines /\ y.kind = "PDU" /\ y.of = s
    BY DEF Lines, L
  <2>. HIDE DEF x, y
  <2>2. v \in Seq(Lines) /\ DOMAIN v = {1, 2} /\ v[1] = x /\ v[2] = y
    BY <2>1
  <2>. HIDE DEF v
  <2>3. Headers(v, FALSE)
    BY <2>1, <2>2 DEF Headers
  <2>4. Reported(v) = {} /\ Delivered(v) = {s} /\ OnceSent(v)
    BY <2>1, <2>2 DEF Reported, Delivered, OnceSent
  <2>5. NoAnswers(v)
    BY <2>1, <2>2 DEF NoAnswers, Answers
  <2>. QED  BY <2>2, <2>3, <2>4, <2>5 DEF v, x, y
<1>4. ASSUME NEW i \in Indices
      PROVE  LET v == <<L("CMTI", i)>>
             IN  /\ v \in Seq(Lines) /\ Headers(v, FALSE) /\ NoAnswers(v) /\ OnceSent(v)
                 /\ Reported(v) = {i} /\ Delivered(v) = {}
  <2>. DEFINE x == L("CMTI", i)
              v == <<x>>
  <2>1. x \in Lines /\ x.kind = "CMTI" /\ x.of = i
    BY DEF Lines, L
  <2>. HIDE DEF x
  <2>2. v \in Seq(Lines) /\ DOMAIN v = {1} /\ v[1] = x
    BY <2>1
  <2>. HIDE DEF v
  <2>. QED  BY <2>1, <2>2 DEF v, x, Headers, NoAnswers, OnceSent, Reported, Delivered, Answers
<1>. QED  BY <1>1, <1>2, <1>3, <1>4

-----------------------------------------------------------------------------
(* A header and its PDU come together, in any circumstances: the receiver  *)
(* waits for a PDU exactly while the AT channel does.                      *)

HeadersInv ==
  /\ Headers(uart, awaitingCmtPdu)
  /\ awaitingCmtPdu => pc = "drain"
  /\ receiver.awaitingPdu <=> awaitingCmtPdu

\* What an answer may find.
LEMMA CallbackReceiver ==
  ASSUME NEW s \in States, NEW c \in Command, NEW result, NEW pdu \in Sms \cup {NoSms},
         Channel(s.waiting, c, s.reader), ~s.receiver.awaitingPdu
  PROVE  ~Callback(s, c, result, pdu).receiver.awaitingPdu
<1>. DEFINE t == Callback(s, c, result, pdu)
            h == Handed(s, pdu)
<1>1. t.receiver = s.receiver \/ (pdu \in Sms /\ t.receiver = h.receiver)
  BY CallbackLearns
<1>2. pdu \in Sms => ~h.receiver.awaitingPdu
  BY HandedEffect
<1>. QED  BY <1>1, <1>2

\* No line is on its way at the start.
LEMMA InitHeaders == Init => HeadersInv
BY DEF Init, HeadersInv, Headers, ReceiverBegin

\* Every step keeps a header next to its PDU.
LEMMA NextHeaders == ChannelInv /\ HeadersInv /\ [Next]_vars => HeadersInv'
<1>. SUFFICES ASSUME ChannelInv, HeadersInv, [Next]_vars PROVE HeadersInv'
  OBVIOUS
<1>0. /\ State \in States /\ OwnTypes /\ ModemTypes /\ awaitingCmtPdu \in BOOLEAN
      /\ uart \in Seq(Lines)
  BY TypesAre DEF ChannelInv, OwnTypes, ModemTypes
<1>1. CASE ReadLine
  <2>. DEFINE line == Head(uart)
              result == IF line.kind = "OK" THEN "Ok" ELSE "Error"
  <2>1. /\ uart \in Seq(Lines) /\ uart # <<>> /\ uart' = Tail(uart) /\ line \in Lines
        /\ pc' = "drain" /\ Channel(waiting, current, reader)
    BY <1>1, ReadLineCases
  <2>2. /\ Headers(uart', ~awaitingCmtPdu /\ line.kind = "CMT")
        /\ awaitingCmtPdu <=> line.kind = "PDU"
    BY <1>0, <2>1, LineRead DEF HeadersInv
  <2>3. CASE /\ awaitingCmtPdu' <=> (~awaitingCmtPdu /\ line.kind = "CMT")
             /\ State' = OnUrc(State, line)
    <3>1. receiver'.awaitingPdu <=> ~receiver.awaitingPdu /\ line.kind = "CMT"
      <4>. DEFINE t == OnUrc(State, line)
      <4>1. CASE receiver.awaitingPdu /\ line.kind \in {"PDU", "DATA"}
        <5>1. t = Handed(State, line.of)
          BY <1>0, <2>1, <4>1, OnUrcEffect, StateIs
        <5>2. line.of \in Sms
          BY <2>1, <4>1, LineFields
        <5>3. ~t.receiver.awaitingPdu
          BY <1>0, <5>1, <5>2, HandedEffect
        <5>. QED  BY <2>3, <4>1, <5>3, StateIsNext
      <4>2. CASE ~(receiver.awaitingPdu /\ line.kind \in {"PDU", "DATA"})
        <5>1. t.receiver.awaitingPdu <=> ~receiver.awaitingPdu /\ line.kind = "CMT"
          BY <1>0, <2>1, <4>2, OnUrcEffect, StateIs
        <5>. QED  BY <2>3, <5>1, StateIsNext
      <4>. QED  BY <4>1, <4>2
    <3>2. Headers(uart', awaitingCmtPdu')
      BY <2>2, <2>3 DEF Headers
    <3>. QED  BY <2>1, <2>3, <3>1, <3>2 DEF HeadersInv
  <2>4. CASE ~awaitingCmtPdu /\ line.kind = "DATA" /\ awaitingCmtPdu' = awaitingCmtPdu /\ State' = State
    <3>1. Headers(uart', awaitingCmtPdu')
      BY <2>2, <2>4 DEF Headers
    <3>. QED  BY <2>1, <2>4, <3>1, StateIs, StateIsNext DEF HeadersInv
  <2>5. CASE /\ ~awaitingCmtPdu /\ line.kind \in {"OK", "ERROR"} /\ awaitingCmtPdu' = awaitingCmtPdu
             /\ current \in Command /\ response \in Sms \cup {NoSms}
             /\ State' = Callback(State, current, result, response)
    <3>1. Headers(uart', awaitingCmtPdu')
      BY <2>2, <2>5 DEF Headers
    <3>. HIDE DEF result
    <3>2. ~Callback(State, current, result, response).receiver.awaitingPdu
      BY <1>0, <2>1, <2>5, CallbackReceiver, StateIs DEF HeadersInv
    <3>. QED  BY <2>1, <2>5, <3>1, <3>2, StateIsNext DEF HeadersInv
  <2>. HIDE DEF result
  <2>. QED  BY <1>1, <2>3, <2>4, <2>5, ReadLineCases DEF result
<1>2. ASSUME NEW timeout \in BOOLEAN, Poll(timeout) PROVE HeadersInv'
  <2>. DEFINE s == IF timeout THEN Callback(State, current, "Timeout", NoSms) ELSE State
  <2>1. /\ uart = <<>> /\ uart' = uart /\ awaitingCmtPdu' = awaitingCmtPdu
        /\ Channel(waiting, current, reader) /\ s \in States
        /\ timeout => current \in Command
        /\ State' = s \/ State' = [s EXCEPT !.waiting = Tail(@)]
    BY <1>2, PollCases
  <2>2. ~awaitingCmtPdu /\ ~receiver.awaitingPdu
    BY <2>1 DEF HeadersInv, Headers
  <2>3. ~s.receiver.awaitingPdu
    BY <1>0, <2>1, <2>2, CallbackReceiver, StateIs
  <2>. HIDE DEF s
  <2>4. State'.receiver = s.receiver
    BY <2>1 DEF States, StateRecord
  <2>. QED  BY <2>1, <2>2, <2>3, <2>4, StateIsNext DEF HeadersInv
<1>3. ASSUME NEW due \in SUBSET ConcatSlots, NEW pduTimeout \in BOOLEAN, SmsTasks(due, pduTimeout)
      PROVE  HeadersInv'
  <2>. DEFINE s1 == IF pduTimeout THEN [State EXCEPT !.receiver = PduTimeout(@)] ELSE State
              s2 == TimeOutSlots(s1, due)
              s3 == SubmitDelete(s2)
  <2>1. /\ s1 \in States /\ s2 \in States /\ State' = SubmitRead(s3)
        /\ s1.receiver.awaitingPdu <=> receiver.awaitingPdu /\ ~pduTimeout
    BY <1>3, SmsTasksSteps DEF ChannelInv
  <2>2. pc = "sms" /\ UNCHANGED <<uart, awaitingCmtPdu>>
    BY <1>3 DEF SmsTasks
  <2>3. ~awaitingCmtPdu /\ ~receiver.awaitingPdu
    BY <2>2 DEF HeadersInv
  <2>4. s3 \in States /\ s3.receiver = s2.receiver
    BY <2>1, SubmitDeleteEffect
  <2>5. State'.receiver = s3.receiver
    BY <2>1, <2>4, SubmitReadEffect
  <2>6. s2.receiver.awaitingPdu = s1.receiver.awaitingPdu
    BY <2>1, TimeOutSlotsEffect
  <2>. HIDE DEF s1, s2, s3
  <2>7. ~receiver'.awaitingPdu
    BY <2>1, <2>3, <2>4, <2>5, <2>6, StateIsNext
  <2>. QED  BY <2>2, <2>3, <2>7 DEF HeadersInv, Headers
<1>4. CASE TurnEnds
  BY <1>4 DEF TurnEnds, channelVars, HeadersInv, Headers
<1>5. ASSUME NEW c \in Clients, ClientSubmits(c) PROVE HeadersInv'
  BY <1>5 DEF ClientSubmits, HeadersInv, Headers
<1>6. ASSUME NEW i \in DOMAIN queue, Forward(i) PROVE HeadersInv'
  BY <1>6 DEF Forward, channelVars, HeadersInv, Headers
<1>7. CASE Modem \/ \E s \in Sms : NetworkDelivers(s)
  <2>1. UNCHANGED <<channelVars, receiver, reader, queue, pc, queued>>
    BY <1>0, <1>7, ModemStepTypes
  <2>2. \/ uart' = uart
        \/ \E v \in Seq(Lines) : Headers(v, FALSE) /\ uart' = uart \o v
    <3>1. \/ uart' = uart
          \/ \E kind \in {"OK", "ERROR"} : uart' = uart \o <<L(kind, NoIndex)>>
          \/ \E s \in Sms : uart' = uart \o <<L("DATA", s), L("OK", NoIndex)>>
          \/ \E s \in Sms : uart' = uart \o <<L("CMT", NoIndex), L("PDU", s)>>
          \/ \E i \in Indices : uart' = uart \o <<L("CMTI", i)>>
      BY <1>0, <1>7, ModemCases
    <3>2. CASE \E kind \in {"OK", "ERROR"} : uart' = uart \o <<L(kind, NoIndex)>>
      BY <3>2, SentLines
    <3>3. CASE \E s \in Sms : uart' = uart \o <<L("DATA", s), L("OK", NoIndex)>>
      BY <3>3, SentLines
    <3>4. CASE \E s \in Sms : uart' = uart \o <<L("CMT", NoIndex), L("PDU", s)>>
      BY <3>4, SentLines
    <3>5. CASE \E i \in Indices : uart' = uart \o <<L("CMTI", i)>>
      BY <3>5, SentLines
    <3>. QED  BY <3>1, <3>2, <3>3, <3>4, <3>5
  <2>3. Headers(uart', awaitingCmtPdu)
    BY <1>0, <2>2, HeadersAdded DEF HeadersInv
  <2>4. awaitingCmtPdu' = awaitingCmtPdu /\ pc' = pc /\ receiver' = receiver
    BY <2>1 DEF channelVars
  <2>5. Headers(uart', awaitingCmtPdu')
    BY <2>3, <2>4
  <2>. QED  BY <2>4, <2>5 DEF HeadersInv
<1>8. CASE Restart
  BY <1>8 DEF Restart, ReceiverBegin, HeadersInv, Headers
<1>9. CASE UNCHANGED vars
  BY <1>9 DEF vars, channelVars, HeadersInv, Headers
<1>. QED  BY <1>1, <1>2, <1>3, <1>4, <1>5, <1>6, <1>7, <1>8, <1>9 DEF Next, Loop

\* A header and its PDU are never parted.
LEMMA HeadersInvariance == Spec => []HeadersInv
BY InitHeaders, NextHeaders, ChannelInvariance, PTL DEF Spec

-----------------------------------------------------------------------------
(* If no answer is late: the modem works on the command under way, and     *)
(* what it sends answers that one.                                         *)

AnswersInv ==
  /\ pending # <<>> => pending = <<current>> /\ current # NoCommand /\ NoAnswers(uart)
  /\ current = NoCommand => NoAnswers(uart)
  /\ OneAnswer(uart)
  /\ \A k \in DOMAIN uart : uart[k].kind = "DATA" =>
       current.op = "read" /\ sim[current.arg] = uart[k].of
  /\ response # NoSms => current.op = "read" /\ sim[current.arg] = response

\* No answer is on its way at the start.
LEMMA InitAnswers == Init => AnswersInv
BY DEF Init, AnswersInv, NoAnswers, OneAnswer

\* Every step keeps the answers to those of the command that runs.
LEMMA NextAnswers == ~LateAnswers /\ ChannelInv /\ AnswersInv /\ [Next]_vars => AnswersInv'
<1>. SUFFICES ASSUME ~LateAnswers, ChannelInv, AnswersInv, [Next]_vars PROVE AnswersInv'
  OBVIOUS
<1>0. /\ State \in States /\ OwnTypes /\ ModemTypes /\ uart \in Seq(Lines) /\ pending \in Seq(Command)
      /\ sim \in [Indices -> Sms \cup {NoSms}] /\ response \in Sms \cup {NoSms}
      /\ current \in Command \cup {NoCommand}
  BY TypesAre DEF ChannelInv, OwnTypes, ModemTypes
<1>1. CASE ReadLine
  <2>. DEFINE line == Head(uart)
  <2>1. /\ uart # <<>> /\ uart' = Tail(uart) /\ line \in Lines
        /\ UNCHANGED <<pending, sim>>
    BY <1>1, ReadLineCases
  <2>2. /\ OneAnswer(uart')
        /\ line.kind \in {"OK", "ERROR"} => NoAnswers(uart')
        /\ NoAnswers(uart) => NoAnswers(uart')
        /\ \A k \in DOMAIN uart' : \E j \in DOMAIN uart : uart'[k] = uart[j]
    BY <1>0, <2>1, LineRead DEF AnswersInv
  <2>3. 1 \in DOMAIN uart /\ line = uart[1]
    BY <1>0, <2>1
  <2>4. CASE current' = current /\ response' = response
    BY <2>1, <2>2, <2>4 DEF AnswersInv
  <2>5. CASE /\ line.kind = "DATA" /\ current' = current
             /\ response' = IF response = NoSms THEN line.of ELSE response
    BY <2>1, <2>2, <2>3, <2>5 DEF AnswersInv
  <2>6. CASE line.kind \in {"OK", "ERROR"} /\ current' = NoCommand /\ response' = NoSms
    <3>1. NoAnswers(uart') /\ ~NoAnswers(uart)
      BY <2>2, <2>3, <2>6 DEF NoAnswers, Answers
    <3>2. pending' = <<>>
      BY <2>1, <3>1 DEF AnswersInv
    <3>. QED  BY <2>2, <2>6, <3>1, <3>2 DEF AnswersInv, NoAnswers, Answers
  <2>. QED  BY <1>1, <2>4, <2>5, <2>6, ReadLineCases
<1>2. ASSUME NEW timeout \in BOOLEAN, Poll(timeout) PROVE AnswersInv'
  <2>. DEFINE s == IF timeout THEN Callback(State, current, "Timeout", NoSms) ELSE State
  <2>1. /\ uart = <<>> /\ uart' = uart /\ sim' = sim
        /\ timeout => current \in Command /\ pending = <<>>
        /\ \/ /\ timeout \/ current = NoCommand
              /\ s.waiting # <<>> /\ current' = Head(s.waiting) /\ Head(s.waiting) \in Command
              /\ response' = NoSms /\ pending' = Append(pending, Head(s.waiting))
           \/ /\ current' = IF timeout THEN NoCommand ELSE current
              /\ response' = IF timeout THEN NoSms ELSE response
              /\ pending' = pending
    BY <1>2, PollCases
  <2>. HIDE DEF s
  <2>2. NoAnswers(uart') /\ OneAnswer(uart') /\ DOMAIN uart' = {}
    BY <2>1 DEF NoAnswers, OneAnswer
  <2>3. CASE /\ timeout \/ current = NoCommand
             /\ current' = Head(s.waiting) /\ Head(s.waiting) \in Command
             /\ response' = NoSms /\ pending' = Append(pending, Head(s.waiting))
    <3>1. pending = <<>>
      BY <2>1, <2>3 DEF AnswersInv
    <3>2. pending' = <<current'>>
      BY <2>3, <3>1
    <3>3. current' # NoCommand
      BY <2>3, CommandFacts
    <3>. QED  BY <2>2, <2>3, <3>2, <3>3 DEF AnswersInv
  <2>4. CASE /\ current' = IF timeout THEN NoCommand ELSE current
             /\ response' = IF timeout THEN NoSms ELSE response
             /\ pending' = pending
    BY <2>1, <2>2, <2>4 DEF AnswersInv
  <2>. QED  BY <2>1, <2>3, <2>4
<1>3. ASSUME UNCHANGED <<pending, uart, current, response, sim>> PROVE AnswersInv'
  BY <1>3 DEF AnswersInv, NoAnswers, OneAnswer
<1>4. CASE \/ \E due \in SUBSET ConcatSlots, pduTimeout \in BOOLEAN : SmsTasks(due, pduTimeout)
           \/ TurnEnds \/ UNCHANGED vars
           \/ \E c \in Clients : ClientSubmits(c)
           \/ \E i \in DOMAIN queue : Forward(i)
  BY <1>3, <1>4 DEF SmsTasks, TurnEnds, vars, ClientSubmits, Forward, channelVars, modemVars
<1>5. CASE Modem \/ \E s \in Sms : NetworkDelivers(s)
  <2>1. current' = current /\ response' = response
    BY <1>0, <1>5, ModemStepTypes DEF channelVars
  <2>2. pending # <<>> => Head(pending) = current /\ Tail(pending) = <<>> /\ NoAnswers(uart)
    <3>1. \A c : Head(<<c>>) = c /\ Tail(<<c>>) = <<>>
      OBVIOUS
    <3>. QED  BY <3>1 DEF AnswersInv
  <2>3. CASE /\ uart' = uart /\ pending' = pending /\ pending # <<>>
             /\ \E i \in Indices : Head(pending) = Delete(i) /\ sim' = [sim EXCEPT ![i] = NoSms]
    <3>1. current.op = "delete"
      BY <2>2, <2>3, CommandFacts
    <3>. QED  BY <2>1, <2>2, <2>3, <3>1 DEF AnswersInv, NoAnswers, OneAnswer, Answers
  <2>4. CASE /\ pending # <<>> /\ pending' = Tail(pending) /\ sim' = sim
             /\ \/ uart' = uart
                \/ \E kind \in {"OK", "ERROR"} : uart' = uart \o <<L(kind, NoIndex)>>
                \/ LET c == Head(pending)
                   IN  /\ c.op = "read" /\ sim[c.arg] \in Sms
                       /\ uart' = uart \o <<L("DATA", sim[c.arg]), L("OK", NoIndex)>>
    <3>1. NoAnswers(uart) /\ current # NoCommand /\ pending' = <<>>
      BY <2>2, <2>4 DEF AnswersInv
    <3>2. CASE uart' = uart
      BY <2>1, <2>4, <3>1, <3>2 DEF AnswersInv, NoAnswers, OneAnswer
    <3>3. ASSUME NEW v \in Seq(Lines), OneAnswer(v), uart' = uart \o v,
                 \A k \in DOMAIN v : v[k].kind = "DATA" =>
                   current.op = "read" /\ sim[current.arg] = v[k].of
          PROVE  AnswersInv'
      <4>1. OneAnswer(uart')
        BY <1>0, <3>1, <3>3, SentAdded
      <4>2. ASSUME NEW k \in DOMAIN uart', uart'[k].kind = "DATA"
            PROVE  current.op = "read" /\ sim[current.arg] = uart'[k].of
        <5>. DEFINE m == Len(uart)
        <5>1. \/ k \in DOMAIN uart /\ uart'[k] = uart[k]
              \/ k - m \in DOMAIN v /\ uart'[k] = v[k - m]
          <6>. DEFINE w == uart \o v
          <6>1. /\ DOMAIN uart = 1 .. m /\ DOMAIN v = 1 .. Len(v)
                /\ \A j \in 1 .. m : w[j] = uart[j]
                /\ \A j \in 1 .. Len(v) : w[m + j] = v[j]
                /\ \A j \in DOMAIN w : j \in 1 .. m \/ (j > m /\ j - m \in 1 .. Len(v) /\ m + (j - m) = j)
            BY <1>0, <3>3, LinesAdded
          <6>2. w = uart'
            BY <3>3
          <6>. HIDE DEF w, m
          <6>3. w[k] = uart'[k] /\ k \in DOMAIN w
            BY <6>2
          <6>4. CASE k \in 1 .. m
            BY <6>1, <6>3, <6>4
          <6>5. CASE k - m \in 1 .. Len(v) /\ m + (k - m) = k
            BY <6>1, <6>3, <6>5
          <6>. QED  BY <6>1, <6>3, <6>4, <6>5
        <5>2. k \in DOMAIN uart => uart[k].kind # "DATA"
          BY <3>1 DEF NoAnswers, Answers
        <5>. HIDE DEF m
        <5>. QED  BY <3>3, <4>2, <5>1, <5>2
      <4>. QED  BY <2>1, <2>4, <3>1, <4>1, <4>2 DEF AnswersInv
    <3>4. CASE \E kind \in {"OK", "ERROR"} : uart' = uart \o <<L(kind, NoIndex)>>
      <4>1. PICK kind \in {"OK", "ERROR"} : uart' = uart \o <<L(kind, NoIndex)>>
        BY <3>4
      <4>. DEFINE v == <<L(kind, NoIndex)>>
      <4>2. v \in Seq(Lines) /\ OneAnswer(v) /\ \A k \in DOMAIN v : v[k].kind # "DATA"
        BY SentLines
      <4>3. uart' = uart \o v
        BY <4>1
      <4>. HIDE DEF v
      <4>. QED  BY <3>3, <4>2, <4>3
    <3>5. CASE /\ Head(pending).op = "read" /\ sim[Head(pending).arg] \in Sms
               /\ uart' = uart \o <<L("DATA", sim[Head(pending).arg]), L("OK", NoIndex)>>
      <4>. DEFINE p == sim[current.arg]
                  v == <<L("DATA", p), L("OK", NoIndex)>>
      <4>1. p \in Sms /\ current.op = "read" /\ uart' = uart \o v
        BY <2>2, <2>4, <3>5
      <4>2. v \in Seq(Lines) /\ OneAnswer(v) /\ \A k \in DOMAIN v : v[k].kind = "DATA" => v[k].of = p
        BY <4>1, SentLines
      <4>. HIDE DEF v
      <4>. QED  BY <3>3, <4>1, <4>2
    <3>. QED  BY <2>4, <3>2, <3>4, <3>5
  <2>5. ASSUME NEW s \in Sms \ arrived, NEW v \in Seq(Lines), NoAnswers(v), uart' = uart \o v,
               pending' = pending,
               sim' = sim \/ \E i \in Indices : sim[i] = NoSms /\ sim' = [sim EXCEPT ![i] = s]
        PROVE  AnswersInv'
    <3>1. /\ OneAnswer(uart')
          /\ NoAnswers(uart) => NoAnswers(uart')
      BY <1>0, <2>5, SentAdded DEF AnswersInv
    <3>2. \A i \in Indices : sim[i] \in Sms => sim'[i] = sim[i]
      BY <1>0, <2>5, StoredSmsAssumption
    <3>3. ASSUME NEW k \in DOMAIN uart', uart'[k].kind = "DATA"
          PROVE  current.op = "read" /\ sim'[current.arg] = uart'[k].of
      <4>1. k \in DOMAIN uart /\ uart'[k] = uart[k]
        <5>. DEFINE m == Len(uart)
                    w == uart \o v
        <5>1. /\ DOMAIN uart = 1 .. m /\ DOMAIN v = 1 .. Len(v)
              /\ \A j \in 1 .. m : w[j] = uart[j]
              /\ \A j \in 1 .. Len(v) : w[m + j] = v[j]
              /\ \A j \in DOMAIN w : j \in 1 .. m \/ (j > m /\ j - m \in 1 .. Len(v) /\ m + (j - m) = j)
          BY <1>0, <2>5, LinesAdded
        <5>2. w = uart'
          BY <2>5
        <5>. HIDE DEF w, m
        <5>3. w[k] = uart'[k] /\ k \in DOMAIN w /\ w[k].kind = "DATA"
          BY <3>3, <5>2
        <5>4. CASE k \in 1 .. m
          BY <5>1, <5>3, <5>4
        <5>5. CASE k - m \in 1 .. Len(v) /\ m + (k - m) = k
          <6>1. v[k - m] = w[k]
            BY <5>1, <5>5
          <6>2. FALSE
            BY <2>5, <5>1, <5>3, <5>5, <6>1 DEF NoAnswers, Answers
          <6>. QED  BY <6>2
        <5>. QED  BY <5>1, <5>3, <5>4, <5>5
      <4>2. current.op = "read" /\ sim[current.arg] = uart[k].of /\ uart[k].kind = "DATA"
        BY <3>3, <4>1 DEF AnswersInv
      <4>3. uart[k].of \in Sms
        BY <1>0, <4>1, <4>2, LineFields
      <4>4. current.arg \in Indices
        BY <1>0, <4>2, CommandFacts
      <4>. QED  BY <3>2, <4>1, <4>2, <4>3, <4>4
    <3>4. response # NoSms => current.op = "read" /\ sim'[current.arg] = response
      <4>. SUFFICES ASSUME response # NoSms PROVE current.op = "read" /\ sim'[current.arg] = response
        OBVIOUS
      <4>1. current.op = "read" /\ sim[current.arg] = response /\ response \in Sms
        BY <1>0 DEF AnswersInv
      <4>2. current.arg \in Indices
        BY <1>0, <4>1, CommandFacts
      <4>. QED  BY <3>2, <4>1, <4>2
    <3>5. /\ pending' # <<>> => pending' = <<current'>> /\ current' # NoCommand /\ NoAnswers(uart')
          /\ current' = NoCommand => NoAnswers(uart')
      <4>1. pending' = pending
        BY <2>5
      <4>. QED  BY <2>1, <3>1, <4>1 DEF AnswersInv
    <3>6. /\ \A k \in DOMAIN uart' : uart'[k].kind = "DATA" =>
               current'.op = "read" /\ sim'[current'.arg] = uart'[k].of
          /\ response' # NoSms => current'.op = "read" /\ sim'[current'.arg] = response'
      BY <2>1, <3>3, <3>4
    <3>. QED  BY <3>1, <3>5, <3>6 DEF AnswersInv
  <2>6. CASE /\ pending' = pending
             /\ \E s \in Sms \ arrived :
                  \/ sim' = sim /\ uart' = uart \o <<L("CMT", NoIndex), L("PDU", s)>>
                  \/ \E i \in Indices : /\ sim[i] = NoSms
                                        /\ sim' = [sim EXCEPT ![i] = s]
                                        /\ uart' = uart \o <<L("CMTI", i)>>
    <3>1. PICK s \in Sms \ arrived :
                  \/ sim' = sim /\ uart' = uart \o <<L("CMT", NoIndex), L("PDU", s)>>
                  \/ \E i \in Indices : /\ sim[i] = NoSms
                                        /\ sim' = [sim EXCEPT ![i] = s]
                                        /\ uart' = uart \o <<L("CMTI", i)>>
      BY <2>6
    <3>2. CASE sim' = sim /\ uart' = uart \o <<L("CMT", NoIndex), L("PDU", s)>>
      <4>. DEFINE v == <<L("CMT", NoIndex), L("PDU", s)>>
      <4>1. v \in Seq(Lines) /\ NoAnswers(v)
        BY SentLines
      <4>2. uart' = uart \o v
        BY <3>2
      <4>. HIDE DEF v
      <4>. QED  BY <2>5, <2>6, <3>2, <4>1, <4>2
    <3>3. CASE \E i \in Indices : /\ sim[i] = NoSms
                                  /\ sim' = [sim EXCEPT ![i] = s]
                                  /\ uart' = uart \o <<L("CMTI", i)>>
      <4>0. PICK i \in Indices : /\ sim[i] = NoSms
                                 /\ sim' = [sim EXCEPT ![i] = s]
                                 /\ uart' = uart \o <<L("CMTI", i)>>
        BY <3>3
      <4>. DEFINE v == <<L("CMTI", i)>>
      <4>1. v \in Seq(Lines) /\ NoAnswers(v)
        BY SentLines
      <4>2. uart' = uart \o v
        BY <4>0
      <4>. HIDE DEF v
      <4>. QED  BY <2>5, <2>6, <4>0, <4>1, <4>2
    <3>. QED  BY <3>1, <3>2, <3>3
  <2>. QED  BY <1>0, <1>5, <2>3, <2>4, <2>6, ModemCases
<1>6. CASE Restart
  <2>1. uart' = <<>> /\ pending' = <<>> /\ current' = NoCommand /\ response' = NoSms
    BY <1>6 DEF Restart
  <2>. QED  BY <2>1 DEF AnswersInv, NoAnswers, OneAnswer
<1>. QED  BY <1>1, <1>2, <1>4, <1>5, <1>6 DEF Next, Loop

\* Without late answers, what is answered is the command that runs.
LEMMA AnswersInvariance == ~LateAnswers => (Spec => []AnswersInv)
<1>. SUFFICES ASSUME ~LateAnswers PROVE Spec => []AnswersInv
  OBVIOUS
<1>1. ChannelInv /\ AnswersInv /\ [Next]_vars => AnswersInv'
  BY NextAnswers
<1>. QED  BY <1>1, InitAnswers, ChannelInvariance, PTL DEF Spec

-----------------------------------------------------------------------------
(* If no answer is late: a place is known for one reason only, from its    *)
(* notice to its deletion, and holds a message all that time.              *)

\* The deletion the modem has still to carry out, and every place the
\* firmware means to read or to delete.
UnderWay == {i \in Indices : pending = <<Delete(i)>> /\ ~executed}

Expected == Known(reader) \cup Deletions(waiting) \cup UnderWay

PlacesInv ==
  /\ Sound(reader)
  /\ OnceSent(uart)
  /\ Delivered(uart) \subseteq arrived
  /\ Reported(uart) \cap Expected = {}
  /\ \A i \in Expected \cup Reported(uart) : sim[i] # NoSms

\* A reader that begins knows no place.
LEMMA BeginsSound == Sound(ReaderBegin) /\ Known(ReaderBegin) = {}
<1>. DEFINE rd == ReaderBegin
<1>1. /\ rd.queue = <<>> /\ rd.deletes = <<>> /\ rd.state = "None" /\ rd.active = NoIndex
      /\ \A g \in ConcatGroups : rd.groups[g] = FreeGroup
  BY DEF ReaderBegin
<1>2. ToSet(rd.queue) = {} /\ ToSet(rd.deletes) = {} /\ Distinct(rd.queue) /\ Distinct(rd.deletes)
  BY <1>1 DEF ToSet, Distinct
<1>3. NoIndex \notin Indices
  BY SmsStorageReaderCoreAssumption DEF NoIndex
<1>. HIDE DEF rd
<1>4. Grouped(rd) = {}
  BY <1>1, <1>3, NothingFree DEF Grouped
<1>5. OneGroup(rd) /\ FreeIsEmpty(rd)
  BY <1>1, NothingFree DEF OneGroup, FreeIsEmpty
<1>. QED  BY <1>1, <1>2, <1>4, <1>5 DEF rd, Sound, OneReason, ActiveApart, Known, ToRead

\* No place is known at the start.
LEMMA InitPlaces == Init => PlacesInv
<1>. SUFFICES ASSUME Init PROVE PlacesInv
  OBVIOUS
<1>1. uart = <<>> /\ waiting = <<>> /\ pending = <<>> /\ reader = ReaderBegin
  BY DEF Init
<1>2. OnceSent(uart) /\ Delivered(uart) = {} /\ Reported(uart) = {}
  BY <1>1 DEF OnceSent, Delivered, Reported
<1>3. Expected = {}
  BY <1>1, BeginsSound DEF Expected, Deletions, UnderWay
<1>. QED  BY <1>1, <1>2, <1>3, BeginsSound DEF PlacesInv

\* A notice comes to be a place to read.
LEMMA NoticeLearns ==
  ASSUME ReaderAssumption, NEW rd \in Readers, NEW i \in Indices, Sound(rd), i \notin Known(rd)
  PROVE  LET r == EnqueueRead(rd, i)
         IN  /\ Sound(r) /\ Known(r) \subseteq Known(rd) \cup {i}
             /\ ToRead(r) \subseteq ToRead(rd) \cup {i}
             /\ r.deletes = rd.deletes /\ r.groups = rd.groups
<1>. DEFINE r == EnqueueRead(rd, i)
<1>1. /\ r \in Readers
      /\ r.deletes = rd.deletes /\ r.groups = rd.groups
      /\ r.state = rd.state /\ r.active = rd.active
      /\ \/ r = rd
         \/ /\ ToSet(r.queue) = ToSet(rd.queue) \cup {i} /\ i \notin ToSet(rd.queue)
            /\ Distinct(rd.queue) => Distinct(r.queue)
            /\ ~(rd.state # "None" /\ rd.active = i)
  BY EnqueueReadEffect
<1>2. rd.active # i \/ r = rd
  <2>1. rd.state = "None" => rd.active # i
    BY ReaderTypes
  <2>. QED  BY <1>1, <2>1
<1>. HIDE DEF r
<1>3. Grouped(r) = Grouped(rd)
  BY <1>1 DEF Grouped
<1>4. ToRead(r) \subseteq ToRead(rd) \cup {i}
  BY <1>1 DEF ToRead
<1>5. Known(r) \subseteq Known(rd) \cup {i}
  BY <1>1, <1>3, <1>4 DEF Known
<1>6. Sound(r)
  <2>. SUFFICES ASSUME r # rd PROVE Sound(r)
    OBVIOUS
  <2>1. i \notin ToSet(rd.deletes) /\ i \notin Grouped(rd)
    BY DEF Known
  <2>2. OneGroup(r) /\ FreeIsEmpty(r)
    BY <1>1 DEF Sound, OneReason, OneGroup, FreeIsEmpty
  <2>3. OneReason(r)
    BY <1>1, <1>3, <2>1, <2>2 DEF Sound, OneReason
  <2>4. ActiveApart(r)
    BY <1>1, <1>2, <1>3 DEF Sound, ActiveApart
  <2>. QED  BY <2>3, <2>4 DEF Sound
<1>. QED  BY <1>1, <1>4, <1>5, <1>6 DEF r

\* Nothing is learnt, nothing is sent: the places stay as they are.
LEMMA NothingLearnt ==
  ASSUME PlacesInv, LearnsNothing(State, State'), UnderWay' \subseteq UnderWay,
         OnceSent(uart'), Reported(uart') \subseteq Reported(uart),
         Delivered(uart') \subseteq Delivered(uart), UNCHANGED <<sim, arrived>>
  PROVE  PlacesInv'
<1>1. Sound(reader')
  BY StateIs, StateIsNext DEF PlacesInv, LearnsNothing
<1>2. Expected' \subseteq Expected
  BY StateIs, StateIsNext DEF PlacesInv, LearnsNothing, Expected
<1>. QED  BY <1>1, <1>2 DEF PlacesInv

\* Two steps that teach no place are one.
LEMMA LearnsNothingTwice ==
  ASSUME NEW s, NEW t, NEW u, LearnsNothing(s, t), LearnsNothing(t, u)
  PROVE  LearnsNothing(s, u)
BY DEF LearnsNothing

\* The same reader and the same commands.
LEMMA LearnsNothingSame ==
  ASSUME NEW s, NEW t, t.reader = s.reader, t.waiting = s.waiting
  PROVE  LearnsNothing(s, t)
BY DEF LearnsNothing

\* A line keeps what is known of the places.
LEMMA ReadLinePlaces ==
  ASSUME ChannelInv, HeadersInv, PlacesInv, ReadLine
  PROVE  PlacesInv'
<1>. DEFINE line == Head(uart)
            v == Tail(uart)
<1>0. State \in States
  BY TypesAre DEF ChannelInv
<1>1. /\ uart \in Seq(Lines) /\ uart # <<>> /\ uart' = v /\ line \in Lines
      /\ UNCHANGED <<pending, executed, sim, arrived>>
      /\ Channel(waiting, current, reader)
  BY ReadLineCases
<1>2. /\ Reported(v) \subseteq Reported(uart) /\ Delivered(v) \subseteq Delivered(uart)
      /\ OnceSent(v)
      /\ line.kind = "CMTI" => line.of \in Reported(uart) /\ line.of \notin Reported(v)
  BY <1>1, LineRead DEF PlacesInv
<1>3. UnderWay' = UnderWay
  BY <1>1 DEF UnderWay
<1>4. ASSUME LearnsNothing(State, State') PROVE PlacesInv'
  BY <1>1, <1>2, <1>3, <1>4, NothingLearnt
<1>5. CASE State' = OnUrc(State, line)
  <2>1. /\ waiting' = waiting
        /\ reader' = IF ~receiver.awaitingPdu /\ line.kind = "CMTI"
                     THEN EnqueueRead(reader, line.of) ELSE reader
    BY <1>0, <1>1, <1>5, OnUrcEffect, StateIs, StateIsNext
  <2>2. CASE ~(~receiver.awaitingPdu /\ line.kind = "CMTI")
    <3>1. LearnsNothing(State, State')
      BY <2>1, <2>2, LearnsNothingSame, StateIs, StateIsNext
    <3>. QED  BY <1>4, <3>1
  <2>3. CASE line.kind = "CMTI" /\ reader' = EnqueueRead(reader, line.of)
    <3>. DEFINE i == line.of
    <3>1. i \in Indices /\ i \in Reported(uart) /\ i \notin Reported(v)
      BY <1>1, <1>2, <2>3, LineFields
    <3>2. reader \in Readers
      BY <1>0, StateFields, StateIs
    <3>3. i \notin Known(reader) /\ Sound(reader)
      BY <3>1 DEF PlacesInv, Expected
    <3>4. Sound(reader') /\ Known(reader') \subseteq Known(reader) \cup {i}
      BY <2>3, <3>1, <3>2, <3>3, NoticeLearns, ReaderConstants
    <3>. HIDE DEF i, v
    <3>5. Expected' \subseteq Expected \cup {i}
      BY <1>3, <2>1, <3>4 DEF Expected
    <3>6. Reported(uart') \cap Expected' = {}
      BY <1>1, <1>2, <3>1, <3>5 DEF PlacesInv
    <3>7. \A j \in Expected' \cup Reported(uart') : sim'[j] # NoSms
      BY <1>1, <1>2, <3>1, <3>5 DEF PlacesInv
    <3>. QED  BY <1>1, <1>2, <3>4, <3>6, <3>7 DEF PlacesInv
  <2>. QED  BY <2>1, <2>2, <2>3
<1>6. CASE State' = State
  BY <1>4, <1>6, LearnsNothingSame
<1>7. CASE \E result : /\ current \in Command /\ response \in Sms \cup {NoSms}
                       /\ State' = Callback(State, current, result, response)
  BY <1>0, <1>1, <1>4, <1>7, CallbackLearns, StateIs
<1>. QED  BY <1>5, <1>6, <1>7, ReadLineCases

\* A poll of the AT channel keeps it,
LEMMA PollPlaces ==
  ASSUME ~LateAnswers, ChannelInv, AnswersInv, PlacesInv, NEW timeout \in BOOLEAN, Poll(timeout)
  PROVE  PlacesInv'
<1>. DEFINE s == IF timeout THEN Callback(State, current, "Timeout", NoSms) ELSE State
<1>1. /\ uart = <<>> /\ uart' = uart
      /\ UNCHANGED <<executed, sim, arrived>>
      /\ State \in States /\ Channel(waiting, current, reader)
      /\ pending \in Seq(Command) /\ s \in States /\ s.waiting \in Seq(Command)
      /\ timeout => current \in Command /\ pending = <<>>
      /\ \/ /\ timeout \/ current = NoCommand
            /\ s.waiting # <<>> /\ Head(s.waiting) \in Command
            /\ State' = [s EXCEPT !.waiting = Tail(@)]
            /\ pending' = Append(pending, Head(s.waiting))
         \/ State' = s /\ pending' = pending
  BY PollCases
<1>2. LearnsNothing(State, s)
  BY <1>1, CallbackLearns, LearnsNothingSame, StateIs
<1>. HIDE DEF s
<1>3. CASE State' = s /\ pending' = pending
  <2>1. UnderWay' = UnderWay
    BY <1>1, <1>3 DEF UnderWay
  <2>. QED  BY <1>1, <1>2, <1>3, <2>1, NothingLearnt DEF PlacesInv
<1>4. CASE /\ timeout \/ current = NoCommand
           /\ s.waiting # <<>> /\ Head(s.waiting) \in Command
           /\ State' = [s EXCEPT !.waiting = Tail(@)]
           /\ pending' = Append(pending, Head(s.waiting))
  <2>. DEFINE c == Head(s.waiting)
  <2>1. reader' = s.reader /\ waiting' = Tail(s.waiting)
    <3>1. /\ [s EXCEPT !.waiting = Tail(@)].reader = s.reader
          /\ [s EXCEPT !.waiting = Tail(@)].waiting = Tail(s.waiting)
      BY <1>1 DEF States, StateRecord
    <3>. QED  BY <1>4, <3>1, StateIsNext
  <2>2. pending' = <<c>>
    <3>1. pending = <<>>
      BY <1>1, <1>4 DEF AnswersInv
    <3>. QED  BY <1>4, <3>1
  <2>3. Deletions(s.waiting) = Deletions(waiting') \cup {i \in Indices : c = Delete(i)}
    BY <1>1, <1>4, <2>1, DeletionsStarted
  <2>4. UnderWay' \subseteq {i \in Indices : c = Delete(i)}
    <3>1. \A i : <<c>> = <<Delete(i)>> => c = Delete(i)
      OBVIOUS
    <3>. QED  BY <2>2, <3>1 DEF UnderWay
  <2>. HIDE DEF c
  <2>5. Sound(reader') /\ Known(s.reader) \cup Deletions(s.waiting) \subseteq Known(reader) \cup Deletions(waiting)
    BY <1>2, <2>1, StateIs DEF LearnsNothing, PlacesInv
  <2>6. Expected' \subseteq Expected
    BY <2>1, <2>3, <2>4, <2>5 DEF Expected
  <2>. QED  BY <1>1, <2>5, <2>6 DEF PlacesInv
<1>. QED  BY <1>1, <1>3, <1>4

\* as do the polls of the receiver and of the reader,
LEMMA SmsTasksPlaces ==
  ASSUME ChannelInv, PlacesInv, NEW due \in SUBSET ConcatSlots, NEW pduTimeout \in BOOLEAN,
         SmsTasks(due, pduTimeout)
  PROVE  PlacesInv'
<1>. DEFINE s1 == IF pduTimeout THEN [State EXCEPT !.receiver = PduTimeout(@)] ELSE State
            s2 == TimeOutSlots(s1, due)
            s3 == SubmitDelete(s2)
<1>1. /\ s1 \in States /\ s2 \in States /\ State' = SubmitRead(s3)
      /\ s1.waiting = waiting /\ s1.reader = reader
  BY SmsTasksSteps DEF ChannelInv
<1>. HIDE DEF s1
<1>2. s2.waiting = s1.waiting /\ s2.reader = s1.reader
  BY <1>1, TimeOutSlotsEffect
<1>3. s3 \in States /\ LearnsNothing(s2, s3)
  BY <1>1, SubmitDeleteLearns
<1>4. LearnsNothing(s3, State')
  BY <1>1, <1>3, SubmitReadLearns
<1>. HIDE DEF s2, s3
<1>5. LearnsNothing(State, s2)
  BY <1>1, <1>2, StateIs, LearnsNothingSame
<1>6. LearnsNothing(State, State')
  <2>1. LearnsNothing(State, s3)
    BY <1>3, <1>5, LearnsNothingTwice
  <2>. QED  BY <1>4, <2>1, LearnsNothingTwice
<1>7. UNCHANGED <<uart, pending, executed, sim, arrived>>
  BY DEF SmsTasks, modemVars
<1>8. UnderWay' = UnderWay
  BY <1>7 DEF UnderWay
<1>. QED  BY <1>6, <1>7, <1>8, NothingLearnt DEF PlacesInv

\* What is sent now and was not sent before is on its way once.
LEMMA SentOne ==
  ASSUME NEW u \in Seq(Lines), NEW v \in Seq(Lines), NEW w, w = u \o v, OnceSent(u), OnceSent(v),
         Reported(u) \cap Reported(v) = {}, Delivered(u) \cap Delivered(v) = {}
  PROVE  /\ OnceSent(w)
         /\ Reported(w) = Reported(u) \cup Reported(v)
         /\ Delivered(w) = Delivered(u) \cup Delivered(v)
BY SentAdded

\* and the modem.
LEMMA ModemPlaces ==
  ASSUME ChannelInv, AnswersInv, PlacesInv, Modem \/ \E s \in Sms : NetworkDelivers(s)
  PROVE  PlacesInv'
<1>0. /\ ModemTypes /\ uart \in Seq(Lines) /\ pending \in Seq(Command)
      /\ sim \in [Indices -> Sms \cup {NoSms}] /\ Channel(waiting, current, reader)
      /\ NoSms \notin Sms
  BY TypesAre, StoredSmsAssumption DEF ChannelInv, ModemTypes
<1>1. waiting' = waiting /\ reader' = reader
  BY <1>0, ModemStepTypes DEF channelVars
<1>2. pending # <<>> => pending = <<current>> /\ Head(pending) = current /\ Tail(pending) = <<>>
  <2>1. \A c : Head(<<c>>) = c /\ Tail(<<c>>) = <<>>
    OBVIOUS
  <2>. QED  BY <2>1 DEF AnswersInv
<1>3. ASSUME NEW i \in Indices, pending # <<>>, ~executed, Head(pending) = Delete(i),
             sim' = [sim EXCEPT ![i] = NoSms], uart' = uart, pending' = pending, executed',
             arrived' = arrived
      PROVE  PlacesInv'
  <2>1. current = Delete(i) /\ pending = <<Delete(i)>>
    BY <1>2, <1>3
  <2>2. i \in UnderWay
    BY <1>3, <2>1 DEF UnderWay
  <2>3. UnderWay' = {}
    BY <1>3 DEF UnderWay
  <2>4. reader.state = "Deleting" /\ reader.active = i
    <3>1. current.op = "delete"
      BY <2>1, CommandFacts
    <3>2. reader.state # "None" /\ Delete(i) = CommandOf(reader)
      BY <1>0, <2>1, <3>1 DEF Channel
    <3>3. CommandOf(reader) = Delete(i) /\ reader.state # "None"
      BY <3>2
    <3>4. reader.state = "Reading" => CommandOf(reader).op = "read"
      BY CommandFacts
    <3>5. reader.state \in {"None", "Reading", "Deleting"}
      BY ReadersCommand
    <3>6. reader.state = "Deleting"
      BY <3>3, <3>4, <3>5, CommandFacts
    <3>7. Delete(i) = Delete(reader.active)
      BY <3>3, <3>6 DEF CommandOf
    <3>. QED  BY <3>6, <3>7, DeleteIs
  <2>5. i \notin Known(reader)
    BY <2>4 DEF PlacesInv, Sound, ActiveApart, Known, ToRead
  <2>6. i \notin Deletions(waiting)
    BY <1>0, <2>1 DEF Channel, Deletions
  <2>7. i \notin Expected' /\ Expected' \subseteq Expected
    BY <1>1, <2>3, <2>5, <2>6 DEF Expected
  <2>8. i \notin Reported(uart)
    BY <2>2 DEF PlacesInv, Expected
  <2>9. \A j \in Expected' \cup Reported(uart') : sim'[j] # NoSms
    <3>. SUFFICES ASSUME NEW j \in Expected' \cup Reported(uart') PROVE sim'[j] # NoSms
      OBVIOUS
    <3>1. j # i /\ j \in Expected \cup Reported(uart)
      BY <1>3, <2>7, <2>8
    <3>2. sim'[j] = sim[j]
      BY <1>0, <1>3, <3>1
    <3>. QED  BY <3>1, <3>2 DEF PlacesInv
  <2>. QED  BY <1>1, <1>3, <2>7, <2>9 DEF PlacesInv
<1>4. ASSUME NEW v \in Seq(Lines), uart' = uart \o v, OnceSent(v), Reported(v) = {}, Delivered(v) = {},
             sim' = sim, arrived' = arrived, pending' = <<>>
      PROVE  PlacesInv'
  <2>1. OnceSent(uart') /\ Reported(uart') = Reported(uart) /\ Delivered(uart') = Delivered(uart)
    <3>1. OnceSent(uart) /\ Reported(uart) \cap Reported(v) = {} /\ Delivered(uart) \cap Delivered(v) = {}
      BY <1>4 DEF PlacesInv
    <3>2. /\ OnceSent(uart') /\ Reported(uart') = Reported(uart) \cup Reported(v)
          /\ Delivered(uart') = Delivered(uart) \cup Delivered(v)
      BY <1>0, <1>4, <3>1, SentOne, ZenonT(40)
    <3>. QED  BY <1>4, <3>2
  <2>2. UnderWay' = {}
    BY <1>4 DEF UnderWay
  <2>3. Expected' \subseteq Expected
    BY <1>1, <2>2 DEF Expected
  <2>. QED  BY <1>1, <1>4, <2>1, <2>3 DEF PlacesInv
<1>5. CASE /\ pending # <<>> /\ pending' = Tail(pending) /\ UNCHANGED <<sim, arrived>>
           /\ \/ uart' = uart
              \/ \E kind \in {"OK", "ERROR"} : uart' = uart \o <<L(kind, NoIndex)>>
              \/ LET c == Head(pending)
                 IN  /\ c.op = "read" /\ sim[c.arg] \in Sms
                     /\ uart' = uart \o <<L("DATA", sim[c.arg]), L("OK", NoIndex)>>
  <2>1. pending' = <<>>
    BY <1>2, <1>5
  <2>2. CASE uart' = uart
    <3>1. UnderWay' = {}
      BY <2>1 DEF UnderWay
    <3>2. Expected' \subseteq Expected
      BY <1>1, <3>1 DEF Expected
    <3>. QED  BY <1>1, <1>5, <2>2, <3>2 DEF PlacesInv
  <2>3. CASE \E kind \in {"OK", "ERROR"} : uart' = uart \o <<L(kind, NoIndex)>>
    <3>1. PICK kind \in {"OK", "ERROR"} : uart' = uart \o <<L(kind, NoIndex)>>
      BY <2>3
    <3>. DEFINE v == <<L(kind, NoIndex)>>
    <3>2. v \in Seq(Lines) /\ OnceSent(v) /\ Reported(v) = {} /\ Delivered(v) = {}
      BY SentLines
    <3>3. uart' = uart \o v
      BY <3>1
    <3>. HIDE DEF v
    <3>. QED  BY <1>4, <1>5, <2>1, <3>2, <3>3
  <2>4. CASE \E p \in Sms : uart' = uart \o <<L("DATA", p), L("OK", NoIndex)>>
    <3>1. PICK p \in Sms : uart' = uart \o <<L("DATA", p), L("OK", NoIndex)>>
      BY <2>4
    <3>. DEFINE v == <<L("DATA", p), L("OK", NoIndex)>>
    <3>2. v \in Seq(Lines) /\ OnceSent(v) /\ Reported(v) = {} /\ Delivered(v) = {}
      BY SentLines
    <3>3. uart' = uart \o v
      BY <3>1
    <3>. HIDE DEF v
    <3>. QED  BY <1>4, <1>5, <2>1, <3>2, <3>3
  <2>. QED  BY <1>5, <2>2, <2>3, <2>4
<1>6. ASSUME NEW s \in Sms \ arrived, arrived' = arrived \cup {s}, UNCHANGED <<pending, executed>>,
             \/ sim' = sim /\ uart' = uart \o <<L("CMT", NoIndex), L("PDU", s)>>
             \/ \E i \in Indices : /\ sim[i] = NoSms
                                   /\ sim' = [sim EXCEPT ![i] = s]
                                   /\ uart' = uart \o <<L("CMTI", i)>>
      PROVE  PlacesInv'
  <2>1. Expected' = Expected
    BY <1>1, <1>6 DEF Expected, UnderWay
  <2>2. CASE sim' = sim /\ uart' = uart \o <<L("CMT", NoIndex), L("PDU", s)>>
    <3>. DEFINE v == <<L("CMT", NoIndex), L("PDU", s)>>
    <3>1. v \in Seq(Lines) /\ OnceSent(v) /\ Reported(v) = {} /\ Delivered(v) = {s}
      BY SentLines
    <3>2. uart' = uart \o v
      BY <2>2
    <3>. HIDE DEF v
    <3>3. s \notin Delivered(uart)
      BY <1>6 DEF PlacesInv
    <3>4. OnceSent(uart') /\ Reported(uart') = Reported(uart) /\ Delivered(uart') = Delivered(uart) \cup {s}
      <4>1. OnceSent(uart) /\ Reported(uart) \cap Reported(v) = {} /\ Delivered(uart) \cap Delivered(v) = {}
        BY <3>1, <3>3 DEF PlacesInv
      <4>2. /\ OnceSent(uart') /\ Reported(uart') = Reported(uart) \cup Reported(v)
            /\ Delivered(uart') = Delivered(uart) \cup Delivered(v)
        BY <1>0, <3>1, <3>2, <4>1, SentOne
      <4>. QED  BY <3>1, <4>2
    <3>. QED  BY <1>1, <1>6, <2>1, <2>2, <3>4 DEF PlacesInv
  <2>3. CASE \E i \in Indices : /\ sim[i] = NoSms
                                /\ sim' = [sim EXCEPT ![i] = s]
                                /\ uart' = uart \o <<L("CMTI", i)>>
    <3>0. PICK i \in Indices : /\ sim[i] = NoSms
                               /\ sim' = [sim EXCEPT ![i] = s]
                               /\ uart' = uart \o <<L("CMTI", i)>>
      BY <2>3
    <3>. DEFINE v == <<L("CMTI", i)>>
    <3>1. v \in Seq(Lines) /\ OnceSent(v) /\ Reported(v) = {i} /\ Delivered(v) = {}
      BY SentLines
    <3>2. uart' = uart \o v
      BY <3>0
    <3>. HIDE DEF v
    <3>3. i \notin Expected /\ i \notin Reported(uart)
      BY <3>0 DEF PlacesInv
    <3>4. OnceSent(uart') /\ Reported(uart') = Reported(uart) \cup {i} /\ Delivered(uart') = Delivered(uart)
      <4>1. OnceSent(uart) /\ Reported(uart) \cap Reported(v) = {} /\ Delivered(uart) \cap Delivered(v) = {}
        BY <3>1, <3>3 DEF PlacesInv
      <4>2. /\ OnceSent(uart') /\ Reported(uart') = Reported(uart) \cup Reported(v)
            /\ Delivered(uart') = Delivered(uart) \cup Delivered(v)
        BY <1>0, <3>1, <3>2, <4>1, SentOne
      <4>. QED  BY <3>1, <4>2
    <3>5. \A j \in Expected \cup Reported(uart) : sim'[j] # NoSms
      <4>. SUFFICES ASSUME NEW j \in Expected \cup Reported(uart) PROVE sim'[j] # NoSms
        OBVIOUS
      <4>1. sim'[j] = sim[j]
        BY <1>0, <3>0, <3>3
      <4>. QED  BY <4>1 DEF PlacesInv
    <3>6. sim'[i] # NoSms
      BY <1>0, <1>6, <3>0
    <3>. QED  BY <1>1, <1>6, <2>1, <3>3, <3>4, <3>5, <3>6 DEF PlacesInv
  <2>. QED  BY <1>6, <2>2, <2>3
<1>. QED  BY <1>0, <1>3, <1>5, <1>6, ModemCases

\* Every step keeps what is known of the places.
LEMMA NextPlaces ==
  ~LateAnswers /\ ChannelInv /\ HeadersInv /\ AnswersInv /\ PlacesInv /\ [Next]_vars => PlacesInv'
<1>. SUFFICES ASSUME ~LateAnswers, ChannelInv, HeadersInv, AnswersInv, PlacesInv, [Next]_vars
              PROVE  PlacesInv'
  OBVIOUS
<1>1. ASSUME NEW c \in Clients, ClientSubmits(c) PROVE PlacesInv'
  <2>1. /\ waiting' = Append(waiting, Other(c))
        /\ UNCHANGED <<reader, uart, pending, executed, sim, arrived>>
    BY <1>1 DEF ClientSubmits, modemVars
  <2>2. waiting \in Seq(Command) /\ Other(c) \in Command
    BY StateFields, StateIs, TypesAre DEF ChannelInv, Command
  <2>3. Deletions(waiting') = Deletions(waiting)
    <3>. DEFINE o == Other(c)
    <3>1. \A i : o # Delete(i)
      BY DeleteIs
    <3>2. o \in Command /\ waiting' = Append(waiting, o)
      BY <2>1, <2>2
    <3>. HIDE DEF o
    <3>3. Deletions(waiting') = Deletions(waiting) \cup {i \in Indices : o = Delete(i)}
      BY <2>2, <3>2, DeletionsAdded
    <3>. QED  BY <3>1, <3>3
  <2>4. Expected' = Expected
    BY <2>1, <2>3 DEF Expected, UnderWay
  <2>. QED  BY <2>1, <2>4 DEF PlacesInv
<1>2. ASSUME UNCHANGED <<waiting, reader, uart, pending, executed, sim, arrived>> PROVE PlacesInv'
  <2>1. Expected' = Expected
    BY <1>2 DEF Expected, UnderWay
  <2>. QED  BY <1>2, <2>1 DEF PlacesInv
<1>3. CASE TurnEnds \/ UNCHANGED vars \/ \E i \in DOMAIN queue : Forward(i)
  BY <1>2, <1>3 DEF TurnEnds, Forward, vars, channelVars, modemVars
<1>4. CASE Restart
  <2>1. /\ waiting' = <<>> /\ reader' = ReaderBegin /\ uart' = <<>> /\ pending' = <<>>
    BY <1>4 DEF Restart
  <2>2. Expected' = {}
    BY <2>1, BeginsSound DEF Expected, UnderWay, Deletions
  <2>3. OnceSent(uart') /\ Delivered(uart') = {} /\ Reported(uart') = {}
    BY <2>1 DEF OnceSent, Delivered, Reported
  <2>. QED  BY <2>1, <2>2, <2>3, BeginsSound DEF PlacesInv
<1>. QED  BY <1>1, <1>3, <1>4, ReadLinePlaces, PollPlaces, SmsTasksPlaces, ModemPlaces DEF Next,
             Loop

\* Without late answers a known place holds the message it is known for.
LEMMA PlacesInvariance == ~LateAnswers => (Spec => []PlacesInv)
<1>. SUFFICES ASSUME ~LateAnswers PROVE Spec => []PlacesInv
  OBVIOUS
<1>1. ChannelInv /\ HeadersInv /\ AnswersInv /\ PlacesInv /\ [Next]_vars => PlacesInv'
  BY NextPlaces
<1>2. Spec => []AnswersInv
  BY AnswersInvariance
<1>. QED  BY <1>1, <1>2, InitPlaces, ChannelInvariance, HeadersInvariance, PTL DEF Spec

-----------------------------------------------------------------------------
(* If no answer is late: no PDU is handed to the forwarder twice.          *)

\* Of the PDUs, those of U have not been seen; r holds each of the others in
\* one slot at most, and only those that were never queued.
Once(U, r, q) ==
  \A p \in Sms :
    /\ q[p] <= 1
    /\ p \in U => q[p] = 0
    /\ \A i \in ConcatSlots : p \in r.slots[i] =>
         /\ q[p] = 0 /\ p \notin U
         /\ \A j \in ConcatSlots : p \in r.slots[j] => i = j

\* What the receiver has not seen: what has not arrived, what is on its way,
\* and what is stored at a place that is reported or to be read.
Unread ==
  (Sms \ arrived) \cup Delivered(uart) \cup {sim[i] : i \in Reported(uart) \cup ToRead(reader)}

OnceInv ==
  /\ \A i, j \in Indices : sim[i] = sim[j] /\ sim[i] # NoSms => i = j
  /\ \A i \in Indices : sim[i] # NoSms => sim[i] \in arrived /\ sim[i] \notin Delivered(uart)
  /\ Once(Unread, receiver, queued)

\* With less on its way a PDU is still handed over once.
LEMMA OnceLess ==
  ASSUME NEW U, NEW r, NEW q, NEW V, NEW r2, NEW q2, Once(U, r, q), V \subseteq U,
         \A i \in ConcatSlots : r2.slots[i] = r.slots[i] \/ r2.slots[i] = {},
         \A p \in Sms : q2[p] = q[p]
  PROVE  Once(V, r2, q2)
<1>. SUFFICES ASSUME NEW p \in Sms
              PROVE  /\ q2[p] <= 1
                     /\ p \in V => q2[p] = 0
                     /\ \A i \in ConcatSlots : p \in r2.slots[i] =>
                          /\ q2[p] = 0 /\ p \notin V
                          /\ \A j \in ConcatSlots : p \in r2.slots[j] => i = j
  BY DEF Once
<1>1. q[p] <= 1 /\ (p \in U => q[p] = 0) /\ q2[p] = q[p]
  BY DEF Once
<1>2. ASSUME NEW i \in ConcatSlots, p \in r2.slots[i]
      PROVE  q2[p] = 0 /\ p \notin V /\ \A j \in ConcatSlots : p \in r2.slots[j] => i = j
  <2>1. p \in r.slots[i]
    BY <1>2
  <2>2. q[p] = 0 /\ p \notin U /\ \A j \in ConcatSlots : p \in r.slots[j] => i = j
    BY <2>1 DEF Once
  <2>3. \A j \in ConcatSlots : p \in r2.slots[j] => p \in r.slots[j]
    OBVIOUS
  <2>. QED  BY <1>1, <2>2, <2>3
<1>. QED  BY <1>1, <1>2

\* The receiver is handed a PDU it has not seen.
LEMMA OnceHanded ==
  ASSUME NEW s \in States, NEW pdu \in Sms, NEW U, NEW V, Once(U, s.receiver, s.queued),
         pdu \in U, V \subseteq U, pdu \notin V
  PROVE  Once(V, Handed(s, pdu).receiver, Handed(s, pdu).queued)
<1>. DEFINE o == HandlePdu(s.receiver, pdu)
            h == Handed(s, pdu)
            r == s.receiver
            q == s.queued
            r2 == h.receiver
            q2 == h.queued
<1>0. /\ r \in Receivers /\ q \in [Sms -> Nat]
      /\ r.slots \in [ConcatSlots -> SUBSET Sms]
  BY StateFields DEF Receivers
<1>1. /\ r2 = o.receiver
      /\ \/ o.received = <<>> /\ q2 = q
         \/ \E parts \in SUBSET Sms :
              /\ o.received = <<Message(parts)>>
              /\ \A m \in Sms : q2[m] = IF HasRoom(s.queue) /\ m \in parts THEN q[m] + 1 ELSE q[m]
  BY HandedEffect
<1>2. \/ o.received = <<>> /\ o.receiver.slots = r.slots
      \/ ~IsConcat(pdu) /\ o.received = <<Message({pdu})>> /\ o.receiver.slots = r.slots
      \/ /\ IsConcat(pdu) /\ ValidPart(pdu)
         /\ \E i \in ConcatSlots :
              /\ Takes(r.slots[i], pdu)
              /\ \/ /\ o.received = <<>>
                    /\ o.receiver.slots = [r.slots EXCEPT ![i] = @ \cup {pdu}]
                 \/ /\ Whole(r.slots[i] \cup {pdu})
                    /\ o.received = <<Message(r.slots[i] \cup {pdu})>>
                    /\ o.receiver.slots = [r.slots EXCEPT ![i] = {}]
  BY <1>0, HandlePduEffect
<1>3. \A A, B : <<Message(A)>> = <<Message(B)>> => A = B
  BY DEF Message
<1>4. \A A : <<Message(A)>> # <<>>
  OBVIOUS
<1>5. /\ \A p \in Sms : q[p] \in Nat /\ q[p] <= 1
      /\ \A p \in Sms : p \in U => q[p] = 0 /\ \A i \in ConcatSlots : p \notin r.slots[i]
      /\ \A p \in Sms : \A i \in ConcatSlots : p \in r.slots[i] =>
           q[p] = 0 /\ p \notin U /\ \A j \in ConcatSlots : p \in r.slots[j] => i = j
      /\ q[pdu] = 0 /\ \A i \in ConcatSlots : pdu \notin r.slots[i]
  BY <1>0 DEF Once
<1>. SUFFICES Once(V, r2, q2)
  OBVIOUS
<1>. HIDE DEF o, h, r, q, r2, q2
<1>6. CASE o.received = <<>> /\ r2.slots = r.slots
  <2>1. q2 = q
    BY <1>1, <1>4, <1>6
  <2>. QED  BY <1>5, <1>6, <2>1 DEF Once
<1>7. CASE o.received = <<Message({pdu})>> /\ r2.slots = r.slots
  <2>1. \A m \in Sms : q2[m] = IF HasRoom(s.queue) /\ m \in {pdu} THEN q[m] + 1 ELSE q[m]
    BY <1>1, <1>3, <1>4, <1>7
  <2>2. \A m \in Sms : m # pdu => q2[m] = q[m]
    BY <2>1
  <2>3. q2[pdu] <= 1
    BY <1>5, <2>1
  <2>. QED  BY <1>5, <1>7, <2>2, <2>3 DEF Once
<1>8. ASSUME NEW i \in ConcatSlots, o.received = <<>>,
             r2.slots = [r.slots EXCEPT ![i] = @ \cup {pdu}]
      PROVE  Once(V, r2, q2)
  <2>1. q2 = q
    BY <1>1, <1>4, <1>8
  <2>2. \A j \in ConcatSlots : r2.slots[j] = IF j = i THEN r.slots[j] \cup {pdu} ELSE r.slots[j]
    BY <1>0, <1>8
  <2>3. \A p \in Sms, j \in ConcatSlots : p # pdu => (p \in r2.slots[j] <=> p \in r.slots[j])
    BY <2>2
  <2>4. \A j \in ConcatSlots : pdu \in r2.slots[j] => j = i
    BY <1>5, <2>2
  <2>. QED  BY <1>5, <2>1, <2>3, <2>4 DEF Once
<1>9. ASSUME NEW i \in ConcatSlots, o.received = <<Message(r.slots[i] \cup {pdu})>>,
             r2.slots = [r.slots EXCEPT ![i] = {}]
      PROVE  Once(V, r2, q2)
  <2>. DEFINE parts == r.slots[i] \cup {pdu}
  <2>1. \A m \in Sms : q2[m] = IF HasRoom(s.queue) /\ m \in parts THEN q[m] + 1 ELSE q[m]
    BY <1>1, <1>3, <1>4, <1>9
  <2>2. \A m \in parts : m \in Sms /\ q[m] = 0 /\ m \notin V
    <3>1. r.slots[i] \subseteq Sms
      BY <1>0
    <3>. QED  BY <1>5, <3>1
  <2>. HIDE DEF parts
  <2>3. \A m \in Sms : m \notin parts => q2[m] = q[m]
    BY <2>1
  <2>4. \A m \in parts : q2[m] <= 1
    BY <2>1, <2>2
  <2>5. \A j \in ConcatSlots : r2.slots[j] = IF j = i THEN {} ELSE r.slots[j]
    BY <1>0, <1>9
  <2>6. \A m \in Sms, j \in ConcatSlots : m \in r2.slots[j] => m \in r.slots[j] /\ m \notin parts
    <3>. SUFFICES ASSUME NEW m \in Sms, NEW j \in ConcatSlots, m \in r2.slots[j]
                  PROVE  m \in r.slots[j] /\ m \notin parts
      OBVIOUS
    <3>1. m \in r.slots[j] /\ j # i
      BY <2>5
    <3>2. m \notin r.slots[i]
      BY <1>5, <3>1
    <3>3. m # pdu
      BY <1>5, <3>1
    <3>. QED  BY <3>1, <3>2, <3>3 DEF parts
  <2>7. \A p \in Sms : q2[p] <= 1 /\ (p \in V => q2[p] = 0)
    BY <1>5, <2>2, <2>3, <2>4
  <2>8. \A p \in Sms : \A j \in ConcatSlots : p \in r2.slots[j] =>
          q2[p] = 0 /\ p \notin V /\ \A k \in ConcatSlots : p \in r2.slots[k] => j = k
    BY <1>5, <2>3, <2>6
  <2>. QED  BY <2>7, <2>8 DEF Once
<1>10. r2.slots = o.receiver.slots
  BY <1>1
<1>. QED  BY <1>2, <1>6, <1>7, <1>8, <1>9, <1>10

\* Slots are handed on with what they hold.
LEMMA OnceTimedOut ==
  ASSUME NEW s \in States, NEW due \in SUBSET ConcatSlots, NEW U, Once(U, s.receiver, s.queued)
  PROVE  Once(U, TimeOutSlots(s, due).receiver, TimeOutSlots(s, due).queued)
<1>. DEFINE t == TimeOutSlots(s, due)
            r == s.receiver
            q == s.queued
            r2 == t.receiver
            q2 == t.queued
<1>0. q \in [Sms -> Nat] /\ q2 \in [Sms -> Nat]
  BY TimeOutSlotsEffect, StateFields
<1>1. /\ \A j \in ConcatSlots : r2.slots[j] = IF j \in due THEN {} ELSE r.slots[j]
      /\ \A m \in Sms :
           /\ (\A j \in due : m \notin r.slots[j]) => q2[m] = q[m]
           /\ (\A i, j \in ConcatSlots : m \in r.slots[i] /\ m \in r.slots[j] => i = j)
                => q2[m] <= q[m] + 1
  BY TimeOutSlotsEffect
<1>2. Once(U, r, q)
  OBVIOUS
<1>. HIDE DEF t, r, q, r2, q2
<1>. SUFFICES ASSUME NEW p \in Sms
              PROVE  /\ q2[p] <= 1
                     /\ p \in U => q2[p] = 0
                     /\ \A i \in ConcatSlots : p \in r2.slots[i] =>
                          /\ q2[p] = 0 /\ p \notin U
                          /\ \A j \in ConcatSlots : p \in r2.slots[j] => i = j
  BY DEF Once, r2, q2, t
<1>3. /\ q[p] <= 1 /\ (p \in U => q[p] = 0)
      /\ \A i \in ConcatSlots : p \in r.slots[i] =>
           q[p] = 0 /\ p \notin U /\ \A j \in ConcatSlots : p \in r.slots[j] => i = j
  BY <1>2 DEF Once
<1>4. \A j \in ConcatSlots : p \in r2.slots[j] => p \in r.slots[j] /\ j \notin due
  BY <1>1
<1>5. CASE \E j \in due : p \in r.slots[j]
  <2>1. PICK j \in due : p \in r.slots[j]
    BY <1>5
  <2>2. q[p] = 0 /\ p \notin U /\ \A k \in ConcatSlots : p \in r.slots[k] => k = j
    BY <1>3, <2>1
  <2>3. q2[p] <= q[p] + 1
    BY <1>1, <2>2
  <2>4. q2[p] <= 1
    BY <1>0, <2>2, <2>3
  <2>5. \A k \in ConcatSlots : p \notin r2.slots[k]
    BY <1>4, <2>1, <2>2
  <2>. QED  BY <2>2, <2>4, <2>5
<1>6. CASE \A j \in due : p \notin r.slots[j]
  <2>1. q2[p] = q[p]
    BY <1>1, <1>6
  <2>. QED  BY <1>3, <1>4, <2>1
<1>. QED  BY <1>5, <1>6

\* No PDU is anywhere at the start.
LEMMA InitOnce == Init => OnceInv
<1>. SUFFICES ASSUME Init PROVE OnceInv
  OBVIOUS
<1>1. \A i \in Indices : sim[i] = NoSms
  BY DEF Init
<1>2. \A p \in Sms : queued[p] = 0
  BY DEF Init
<1>3. \A i \in ConcatSlots : receiver.slots[i] = {}
  BY DEF Init, ReceiverBegin
<1>. QED  BY <1>1, <1>2, <1>3 DEF OnceInv, Once

\* Nothing is handed on, nothing is stored, nothing is sent.
LEMMA NothingHanded ==
  ASSUME OnceInv, UNCHANGED <<sim, arrived>>, receiver'.slots = receiver.slots,
         queued' = queued, Reported(uart') \cup ToRead(reader') \subseteq Reported(uart) \cup ToRead(reader),
         Delivered(uart') \subseteq Delivered(uart)
  PROVE  OnceInv'
<1>1. Unread' \subseteq Unread
  BY DEF Unread
<1>2. Once(Unread', receiver', queued')
  <2>1. Once(Unread, receiver, queued)
    BY DEF OnceInv
  <2>. QED  BY <1>1, <2>1, OnceLess
<1>. QED  BY <1>2 DEF OnceInv

\* Only places are reported.
LEMMA ReportedTyped == \A u \in Seq(Lines) : Reported(u) \subseteq Indices
BY LineFields DEF Reported

\* A line hands over no PDU a second time,
LEMMA ReadLineOnce ==
  ASSUME ChannelInv, HeadersInv, AnswersInv, PlacesInv, OnceInv, ReadLine
  PROVE  OnceInv'
<1>. DEFINE line == Head(uart)
            v == Tail(uart)
<1>0. /\ State \in States /\ awaitingCmtPdu \in BOOLEAN
      /\ sim \in [Indices -> Sms \cup {NoSms}] /\ NoSms \notin Sms
      /\ reader \in Readers
  BY TypesAre, StateFields, StateIs, StoredSmsAssumption DEF ChannelInv, OwnTypes, ModemTypes
<1>1. /\ uart \in Seq(Lines) /\ uart # <<>> /\ uart' = v /\ line \in Lines
      /\ UNCHANGED <<sim, arrived>> /\ Channel(waiting, current, reader)
  BY ReadLineCases
<1>2. /\ Reported(v) \subseteq Reported(uart) /\ Delivered(v) \subseteq Delivered(uart)
      /\ line.kind = "CMTI" => line.of \in Reported(uart)
      /\ line.kind = "PDU" => line.of \in Delivered(uart) /\ line.of \notin Delivered(v)
      /\ awaitingCmtPdu <=> line.kind = "PDU"
  BY <1>0, <1>1, LineRead DEF PlacesInv, HeadersInv
<1>3. Once(Unread, receiver, queued) /\ Sound(reader)
  BY DEF OnceInv, PlacesInv
\* A PDU is handed on, read or delivered.
<1>4. ASSUME NEW pdu \in Unread \cap Sms, pdu \in arrived, pdu \notin Delivered(v),
             receiver' = Handed(State, pdu).receiver, queued' = Handed(State, pdu).queued,
             Reported(v) \cup ToRead(reader') \subseteq Reported(uart) \cup ToRead(reader),
             \A i \in Reported(v) \cup ToRead(reader') : sim[i] # pdu
      PROVE  OnceInv'
  <2>1. Unread' \subseteq Unread /\ pdu \notin Unread'
    <3>1. Unread' = (Sms \ arrived) \cup Delivered(v) \cup {sim[i] : i \in Reported(v) \cup ToRead(reader')}
      BY <1>1 DEF Unread
    <3>2. {sim[i] : i \in Reported(v) \cup ToRead(reader')}
            \subseteq {sim[i] : i \in Reported(uart) \cup ToRead(reader)}
      BY <1>4
    <3>3. pdu \notin {sim[i] : i \in Reported(v) \cup ToRead(reader')}
      BY <1>4
    <3>. QED  BY <1>2, <1>4, <3>1, <3>2, <3>3 DEF Unread
  <2>2. Once(Unread', receiver', queued')
    BY <1>0, <1>3, <1>4, <2>1, OnceHanded, StateIs
  <2>. QED  BY <1>1, <1>2, <2>2 DEF OnceInv
<1>5. CASE State' = OnUrc(State, line)
  <2>1. /\ reader' = IF ~receiver.awaitingPdu /\ line.kind = "CMTI"
                     THEN EnqueueRead(reader, line.of) ELSE reader
        /\ \/ /\ receiver.awaitingPdu /\ line.kind \in {"PDU", "DATA"}
              /\ State' = Handed(State, line.of)
           \/ /\ ~(receiver.awaitingPdu /\ line.kind \in {"PDU", "DATA"})
              /\ receiver'.slots = receiver.slots /\ queued' = queued
    BY <1>0, <1>1, <1>5, OnUrcEffect, StateIs, StateIsNext
  <2>2. Reported(v) \cup ToRead(reader') \subseteq Reported(uart) \cup ToRead(reader)
    <3>1. CASE line.kind = "CMTI" /\ reader' = EnqueueRead(reader, line.of)
      <4>1. line.of \in Indices /\ line.of \in Reported(uart)
        BY <1>1, <1>2, <3>1, LineFields
      <4>2. line.of \notin Known(reader)
        BY <4>1 DEF PlacesInv, Expected
      <4>3. ToRead(reader') \subseteq ToRead(reader) \cup {line.of}
        BY <1>0, <1>3, <3>1, <4>1, <4>2, NoticeLearns, ReaderConstants
      <4>. QED  BY <1>2, <4>1, <4>3
    <3>2. CASE reader' = reader
      BY <1>2, <3>2
    <3>. QED  BY <2>1, <3>1, <3>2
  <2>3. CASE receiver.awaitingPdu /\ line.kind \in {"PDU", "DATA"} /\ State' = Handed(State, line.of)
    <3>. DEFINE pdu == line.of
    <3>1. line.kind = "PDU" /\ reader' = reader
      BY <1>2, <2>1, <2>3 DEF HeadersInv
    <3>2. pdu \in Sms /\ pdu \in Delivered(uart) /\ pdu \notin Delivered(v)
      BY <1>1, <1>2, <3>1, LineFields
    <3>3. pdu \in arrived /\ pdu \in Unread
      BY <3>2 DEF PlacesInv, Unread
    <3>4. \A i \in Indices : sim[i] # pdu
      BY <1>0, <3>2 DEF OnceInv
    <3>5. Reported(uart) \subseteq Indices /\ ToRead(reader) \subseteq Indices
      BY <1>0, <1>1, ReaderTypes, ReaderConstants, ReportedTyped DEF ToRead
    <3>6. \A i \in Reported(v) \cup ToRead(reader') : sim[i] # pdu
      BY <2>2, <3>4, <3>5
    <3>. QED  BY <1>4, <2>2, <2>3, <3>2, <3>3, <3>6, StateIsNext
  <2>4. CASE receiver'.slots = receiver.slots /\ queued' = queued
    BY <1>1, <1>2, <2>2, <2>4, NothingHanded
  <2>. QED  BY <2>1, <2>3, <2>4
<1>6. CASE State' = State
  BY <1>1, <1>2, <1>6, NothingHanded, StateIs, StateIsNext
<1>7. ASSUME NEW result, current \in Command, response \in Sms \cup {NoSms},
             State' = Callback(State, current, result, response)
      PROVE  OnceInv'
  <2>. DEFINE h == Handed(State, response)
  <2>1. /\ LearnsNothing(State, State')
        /\ current.op = "read" => /\ reader.state = "Reading" /\ reader.active = current.arg
                                  /\ ToRead(reader') \subseteq ToSet(reader.queue)
        /\ \/ receiver' = receiver /\ queued' = queued
           \/ /\ current.op = "read" /\ response \in Sms
              /\ receiver' = h.receiver /\ queued' = h.queued
    BY <1>0, <1>1, <1>7, CallbackLearns, StateIs, StateIsNext
  <2>2. ToRead(reader') \subseteq ToRead(reader)
    BY <1>3, <2>1, StateIs, StateIsNext DEF LearnsNothing
  <2>3. CASE receiver' = receiver /\ queued' = queued
    BY <1>1, <1>2, <2>2, <2>3, NothingHanded
  <2>4. CASE /\ current.op = "read" /\ response \in Sms
             /\ receiver' = h.receiver /\ queued' = h.queued
    <3>. DEFINE a == current.arg
    <3>1. reader.state = "Reading" /\ reader.active = a /\ ToRead(reader') \subseteq ToSet(reader.queue)
      BY <2>1, <2>4
    <3>2. a \in Indices /\ sim[a] = response
      BY <1>0, <1>7, <2>4, CommandFacts DEF AnswersInv
    <3>3. a \in ToRead(reader) /\ a \in Known(reader) /\ a \notin ToSet(reader.queue)
      BY <1>3, <3>1, <3>2 DEF ToRead, Known, Sound, ActiveApart
    <3>4. a \notin Reported(uart)
      BY <3>3 DEF PlacesInv, Expected
    <3>5. response \in arrived /\ response \notin Delivered(uart)
      BY <1>0, <2>4, <3>2 DEF OnceInv
    <3>6. response \in Unread
      <4>1. a \in Reported(uart) \cup ToRead(reader)
        BY <3>3
      <4>. QED  BY <3>2, <4>1 DEF Unread
    <3>7. \A i \in Reported(v) \cup ToRead(reader') : sim[i] # response
      <4>. SUFFICES ASSUME NEW i \in Reported(v) \cup ToRead(reader') PROVE sim[i] # response
        OBVIOUS
      <4>1. i \in Indices
        BY <1>0, <1>1, <1>2, <3>1, ReaderTypes, ReaderConstants, ReportedTyped
      <4>2. i # a
        BY <1>2, <3>1, <3>3, <3>4
      <4>. QED  BY <1>0, <2>4, <3>2, <4>1, <4>2 DEF OnceInv
    <3>. QED  BY <1>2, <1>4, <2>2, <2>4, <3>5, <3>6, <3>7
  <2>. QED  BY <2>1, <2>3, <2>4
<1>. QED  BY <1>5, <1>6, <1>7, ReadLineCases

\* nor does a poll of the AT channel,
LEMMA PollOnce ==
  ASSUME ChannelInv, PlacesInv, OnceInv, NEW timeout \in BOOLEAN, Poll(timeout)
  PROVE  OnceInv'
<1>. DEFINE s == IF timeout THEN Callback(State, current, "Timeout", NoSms) ELSE State
<1>1. /\ uart' = uart /\ UNCHANGED <<sim, arrived>>
      /\ State \in States /\ Channel(waiting, current, reader) /\ s \in States
      /\ timeout => current \in Command
      /\ State' = [s EXCEPT !.waiting = Tail(@)] \/ State' = s
  BY PollCases
<1>2. LearnsNothing(State, s) /\ s.receiver = receiver /\ s.queued = queued
  <2>1. CASE timeout
    <3>1. NoSms \in Sms \cup {NoSms} /\ "Timeout" # "Ok"
      OBVIOUS
    <3>. QED  BY <1>1, <2>1, <3>1, CallbackLearns, StateIs
  <2>2. CASE ~timeout
    BY <2>2, LearnsNothingSame, StateIs
  <2>. QED  BY <2>1, <2>2
<1>. HIDE DEF s
<1>3. reader' = s.reader /\ receiver' = s.receiver /\ queued' = s.queued
  <2>1. State'.reader = s.reader /\ State'.receiver = s.receiver /\ State'.queued = s.queued
    BY <1>1 DEF States, StateRecord
  <2>. QED  BY <2>1, StateIsNext
<1>4. ToRead(reader') \subseteq ToRead(reader)
  BY <1>2, <1>3, StateIs DEF LearnsNothing, PlacesInv
<1>. QED  BY <1>1, <1>2, <1>3, <1>4, NothingHanded

\* nor do those of the receiver and of the reader.
LEMMA SmsTasksOnce ==
  ASSUME ChannelInv, PlacesInv, OnceInv, NEW due \in SUBSET ConcatSlots, NEW pduTimeout \in BOOLEAN,
         SmsTasks(due, pduTimeout)
  PROVE  OnceInv'
<1>. DEFINE s1 == IF pduTimeout THEN [State EXCEPT !.receiver = PduTimeout(@)] ELSE State
            s2 == TimeOutSlots(s1, due)
            s3 == SubmitDelete(s2)
<1>1. /\ s1 \in States /\ s2 \in States /\ State' = SubmitRead(s3)
      /\ s1.waiting = waiting /\ s1.reader = reader
      /\ s1.queued = queued /\ s1.receiver.slots = receiver.slots
  BY SmsTasksSteps DEF ChannelInv
<1>. HIDE DEF s1
<1>2. s2.waiting = s1.waiting /\ s2.reader = s1.reader
  BY <1>1, TimeOutSlotsEffect
<1>3. /\ s3 \in States /\ LearnsNothing(s2, s3) /\ s3.receiver = s2.receiver /\ s3.queued = s2.queued
  BY <1>1, SubmitDeleteLearns
<1>4. LearnsNothing(s3, State') /\ receiver' = s3.receiver /\ queued' = s3.queued
  BY <1>1, <1>3, SubmitReadLearns, StateIsNext
<1>5. Once(Unread, s1.receiver, s1.queued)
  <2>1. Once(Unread, receiver, queued)
    BY DEF OnceInv
  <2>. QED  BY <1>1, <2>1, OnceLess
<1>6. Once(Unread, s2.receiver, s2.queued)
  BY <1>1, <1>5, OnceTimedOut
<1>. HIDE DEF s2, s3
<1>7. UNCHANGED <<uart, sim, arrived>>
  BY DEF SmsTasks, modemVars
<1>8. ToRead(reader') \subseteq ToRead(reader)
  <2>1. LearnsNothing(State, s2)
    BY <1>1, <1>2, StateIs, LearnsNothingSame
  <2>2. LearnsNothing(State, State')
    BY <1>3, <1>4, <2>1, LearnsNothingTwice
  <2>. QED  BY <2>2, StateIs, StateIsNext DEF LearnsNothing, PlacesInv
<1>9. Unread' \subseteq Unread
  BY <1>7, <1>8 DEF Unread
<1>10. Once(Unread', receiver', queued')
  BY <1>3, <1>4, <1>6, <1>9, OnceLess
<1>. QED  BY <1>7, <1>10 DEF OnceInv

\* What the receiver has not seen can only grow by what the modem stores, and
\* that had not arrived before.
LEMMA ModemOnce ==
  ASSUME ChannelInv, AnswersInv, PlacesInv, PlacesInv', OnceInv,
         Modem \/ \E s \in Sms : NetworkDelivers(s)
  PROVE  OnceInv'
<1>0. /\ ModemTypes /\ uart \in Seq(Lines) /\ reader \in Readers
      /\ sim \in [Indices -> Sms \cup {NoSms}] /\ NoSms \notin Sms
  BY TypesAre, StateFields, StateIs, StoredSmsAssumption DEF ChannelInv, ModemTypes
<1>1. reader' = reader /\ receiver' = receiver /\ queued' = queued
  BY <1>0, ModemStepTypes
<1>2. Once(Unread, receiver, queued)
  BY DEF OnceInv
<1>3. ASSUME Unread' \subseteq Unread PROVE Once(Unread', receiver', queued')
  BY <1>1, <1>2, <1>3, OnceLess
<1>4. Reported(uart) \subseteq Indices /\ ToRead(reader) \subseteq Indices
  BY <1>0, ReaderTypes, ReaderConstants, ReportedTyped DEF ToRead
<1>5. ASSUME NEW i \in Indices, sim' = [sim EXCEPT ![i] = NoSms], uart' = uart, arrived' = arrived
      PROVE  OnceInv'
  <2>1. i \notin Reported(uart) \cup ToRead(reader)
    <3>1. sim'[i] = NoSms
      BY <1>0, <1>5
    <3>2. i \notin Reported(uart') \cup ToRead(reader')
      BY <3>1 DEF PlacesInv, Expected, Known
    <3>. QED  BY <1>1, <1>5, <3>2
  <2>2. \A j \in Indices : sim'[j] = IF j = i THEN NoSms ELSE sim[j]
    BY <1>0, <1>5
  <2>3. \A j \in Reported(uart) \cup ToRead(reader) : sim'[j] = sim[j]
    BY <1>4, <2>1, <2>2
  <2>4. Unread' = Unread
    BY <1>1, <1>5, <2>3 DEF Unread
  <2>5. Once(Unread', receiver', queued')
    BY <1>3, <2>4
  <2>. QED  BY <1>5, <2>2, <2>5 DEF OnceInv
<1>6. ASSUME NEW v \in Seq(Lines), uart' = uart \o v, Reported(v) = {}, Delivered(v) = {},
             sim' = sim, arrived' = arrived
      PROVE  OnceInv'
  <2>1. Reported(uart') = Reported(uart) \cup Reported(v) /\ Delivered(uart') = Delivered(uart) \cup Delivered(v)
    BY <1>0, <1>6, SentAdded
  <2>2. Reported(uart') = Reported(uart) /\ Delivered(uart') = Delivered(uart)
    BY <1>6, <2>1
  <2>. QED  BY <1>1, <1>6, <2>2, NothingHanded
<1>7. CASE /\ UNCHANGED <<sim, arrived>>
           /\ \/ uart' = uart
              \/ \E kind \in {"OK", "ERROR"} : uart' = uart \o <<L(kind, NoIndex)>>
              \/ \E p \in Sms : uart' = uart \o <<L("DATA", p), L("OK", NoIndex)>>
  <2>1. CASE uart' = uart
    BY <1>1, <1>7, <2>1, NothingHanded
  <2>2. CASE \E kind \in {"OK", "ERROR"} : uart' = uart \o <<L(kind, NoIndex)>>
    <3>1. PICK kind \in {"OK", "ERROR"} : uart' = uart \o <<L(kind, NoIndex)>>
      BY <2>2
    <3>. DEFINE v == <<L(kind, NoIndex)>>
    <3>2. v \in Seq(Lines) /\ Reported(v) = {} /\ Delivered(v) = {}
      BY SentLines
    <3>3. uart' = uart \o v
      BY <3>1
    <3>. HIDE DEF v
    <3>. QED  BY <1>6, <1>7, <3>2, <3>3
  <2>3. CASE \E p \in Sms : uart' = uart \o <<L("DATA", p), L("OK", NoIndex)>>
    <3>1. PICK p \in Sms : uart' = uart \o <<L("DATA", p), L("OK", NoIndex)>>
      BY <2>3
    <3>. DEFINE v == <<L("DATA", p), L("OK", NoIndex)>>
    <3>2. v \in Seq(Lines) /\ Reported(v) = {} /\ Delivered(v) = {}
      BY SentLines
    <3>3. uart' = uart \o v
      BY <3>1
    <3>. HIDE DEF v
    <3>. QED  BY <1>6, <1>7, <3>2, <3>3
  <2>. QED  BY <1>7, <2>1, <2>2, <2>3
<1>8. ASSUME NEW s \in Sms \ arrived, arrived' = arrived \cup {s},
             \/ sim' = sim /\ uart' = uart \o <<L("CMT", NoIndex), L("PDU", s)>>
             \/ \E i \in Indices : /\ sim[i] = NoSms
                                   /\ sim' = [sim EXCEPT ![i] = s]
                                   /\ uart' = uart \o <<L("CMTI", i)>>
      PROVE  OnceInv'
  <2>0. s \in Unread /\ (Sms \ arrived') \subseteq Unread /\ s \notin Delivered(uart)
    BY <1>8 DEF Unread, PlacesInv
  <2>1. CASE sim' = sim /\ uart' = uart \o <<L("CMT", NoIndex), L("PDU", s)>>
    <3>. DEFINE v == <<L("CMT", NoIndex), L("PDU", s)>>
    <3>1. v \in Seq(Lines) /\ Reported(v) = {} /\ Delivered(v) = {s}
      BY SentLines
    <3>2. uart' = uart \o v
      BY <2>1
    <3>. HIDE DEF v
    <3>3. Reported(uart') = Reported(uart) \cup Reported(v) /\ Delivered(uart') = Delivered(uart) \cup Delivered(v)
      BY <1>0, <3>1, <3>2, SentAdded
    <3>4. Reported(uart') = Reported(uart) /\ Delivered(uart') = Delivered(uart) \cup {s}
      BY <3>1, <3>3
    <3>5. Unread' \subseteq Unread
      BY <1>1, <2>0, <2>1, <3>4 DEF Unread
    <3>6. \A i \in Indices : sim[i] # NoSms => sim[i] \in arrived' /\ sim[i] \notin Delivered(uart')
      BY <1>8, <3>4 DEF OnceInv
    <3>. QED  BY <1>3, <2>1, <3>5, <3>6 DEF OnceInv
  <2>2. CASE \E i \in Indices : /\ sim[i] = NoSms
                                /\ sim' = [sim EXCEPT ![i] = s]
                                /\ uart' = uart \o <<L("CMTI", i)>>
    <3>0. PICK i \in Indices : /\ sim[i] = NoSms
                               /\ sim' = [sim EXCEPT ![i] = s]
                               /\ uart' = uart \o <<L("CMTI", i)>>
      BY <2>2
    <3>. DEFINE v == <<L("CMTI", i)>>
    <3>1. v \in Seq(Lines) /\ Reported(v) = {i} /\ Delivered(v) = {}
      BY SentLines
    <3>2. uart' = uart \o v
      BY <3>0
    <3>. HIDE DEF v
    <3>3. Reported(uart') = Reported(uart) \cup Reported(v) /\ Delivered(uart') = Delivered(uart) \cup Delivered(v)
      BY <1>0, <3>1, <3>2, SentAdded
    <3>4. Reported(uart') = Reported(uart) \cup {i} /\ Delivered(uart') = Delivered(uart)
      BY <3>1, <3>3
    <3>5. \A j \in Indices : sim'[j] = IF j = i THEN s ELSE sim[j]
      BY <1>0, <3>0
    <3>6. Unread' \subseteq Unread
      <4>1. \A j \in Reported(uart') \cup ToRead(reader') : sim'[j] \in Unread
        <5>. SUFFICES ASSUME NEW j \in Reported(uart') \cup ToRead(reader') PROVE sim'[j] \in Unread
          OBVIOUS
        <5>1. CASE j = i
          BY <2>0, <3>5, <5>1
        <5>2. CASE j # i
          <6>1. j \in Reported(uart) \cup ToRead(reader)
            BY <1>1, <3>4, <5>2
          <6>2. sim[j] \in Unread
            BY <6>1 DEF Unread
          <6>3. sim'[j] = sim[j]
            BY <1>4, <3>5, <5>2, <6>1
          <6>. QED  BY <6>2, <6>3
        <5>. QED  BY <5>1, <5>2
      <4>2. Delivered(uart') \subseteq Unread
        BY <3>4 DEF Unread
      <4>. QED  BY <2>0, <4>1, <4>2 DEF Unread
    <3>7. \A j, k \in Indices : sim'[j] = sim'[k] /\ sim'[j] # NoSms => j = k
      <4>1. \A j \in Indices : sim[j] # s
        BY <1>0, <1>8 DEF OnceInv
      <4>. QED  BY <3>5, <4>1 DEF OnceInv
    <3>8. \A j \in Indices : sim'[j] # NoSms => sim'[j] \in arrived' /\ sim'[j] \notin Delivered(uart')
      BY <1>8, <2>0, <3>4, <3>5 DEF OnceInv
    <3>. QED  BY <1>3, <3>6, <3>7, <3>8 DEF OnceInv
  <2>. QED  BY <1>8, <2>1, <2>2
<1>. QED  BY <1>0, <1>5, <1>7, <1>8, ModemCases

\* No step hands over a PDU a second time.
LEMMA NextOnce ==
  ChannelInv /\ HeadersInv /\ AnswersInv /\ PlacesInv /\ PlacesInv' /\ OnceInv /\ [Next]_vars
    => OnceInv'
<1>. SUFFICES ASSUME ChannelInv, HeadersInv, AnswersInv, PlacesInv, PlacesInv', OnceInv, [Next]_vars
              PROVE  OnceInv'
  OBVIOUS
<1>1. ASSUME UNCHANGED <<receiver, reader, uart, sim, arrived, queued>> PROVE OnceInv'
  BY <1>1, NothingHanded
<1>2. CASE TurnEnds \/ UNCHANGED vars \/ \E i \in DOMAIN queue : Forward(i)
  BY <1>1, <1>2 DEF TurnEnds, Forward, vars, channelVars, modemVars, history
<1>3. CASE \E c \in Clients : ClientSubmits(c)
  BY <1>1, <1>3 DEF ClientSubmits, modemVars, history
<1>4. CASE Restart
  <2>1. /\ receiver' = ReceiverBegin /\ reader' = ReaderBegin /\ uart' = <<>>
        /\ UNCHANGED <<sim, arrived, queued>>
    BY <1>4 DEF Restart
  <2>2. Delivered(uart') = {} /\ Reported(uart') = {}
    BY <2>1 DEF Delivered, Reported
  <2>3. ToRead(reader') = {}
    BY <2>1, BeginsSound DEF Known
  <2>4. Unread' \subseteq Unread
    BY <2>1, <2>2, <2>3 DEF Unread
  <2>5. \A i \in ConcatSlots : receiver'.slots[i] = {}
    BY <2>1 DEF ReceiverBegin
  <2>6. Once(Unread, receiver, queued)
    BY DEF OnceInv
  <2>7. Once(Unread', receiver', queued')
    BY <2>1, <2>4, <2>5, <2>6, OnceLess
  <2>. QED  BY <2>1, <2>2, <2>7 DEF OnceInv
<1>. QED  BY <1>2, <1>3, <1>4, ReadLineOnce, PollOnce, SmsTasksOnce, ModemOnce DEF Next, Loop

\* Without late answers a PDU is in one place all the time.
LEMMA OnceInvariance == ~LateAnswers => (Spec => []OnceInv)
<1>. SUFFICES ASSUME ~LateAnswers PROVE Spec => []OnceInv
  OBVIOUS
<1>1. Spec => []AnswersInv /\ []PlacesInv
  BY AnswersInvariance, PlacesInvariance
<1>. QED  BY <1>1, InitOnce, NextOnce, ChannelInvariance, HeadersInvariance, PTL DEF Spec

\* No PDU is handed to the forwarder twice, whatever the sizes of the queues
\* and whichever messages arrive when, if the modem answers before the
\* timeout: a place is read once for each notice and is not reported again
\* before it is deleted, and what is in a slot of the receiver is in no other.
THEOREM NeverTwice == ~LateAnswers => (Spec => []NeverQueuedTwice)
<1>1. OnceInv => NeverQueuedTwice
  BY DEF OnceInv, Once, NeverQueuedTwice
<1>. QED  BY <1>1, OnceInvariance, PTL

-----------------------------------------------------------------------------
(* If no answer is late and no sender reuses a reference: what is deleted  *)
(* was queued.                                                             *)

\* Two PDUs with the same sender, reference, total and part are one.
UniqueReferences ==
  \A s, t \in Sms : IsConcat(s) /\ Key[s] = Key[t] /\ Part[s] = Part[t] => s = t

\* The places to be deleted.
Ordering == ToSet(reader.deletes) \cup Deletions(waiting) \cup UnderWay

QueuedInv ==
  /\ \A i \in ConcatSlots : PartsOnce(receiver.slots[i])
  /\ GroupsMatch(reader, sim)
  /\ \A i \in Ordering : queued[sim[i]] > 0
  /\ \A p \in deleted : p \in Sms /\ queued[p] > 0

\* The groups of a reader that begins match any SIM.
LEMMA GroupsMatchBegins == \A sm : GroupsMatch(ReaderBegin, sm)
<1>1. \A g \in ConcatGroups : ReaderBegin.groups[g] = FreeGroup
  BY DEF ReaderBegin
<1>. QED  BY <1>1, NothingFree DEF GroupsMatch

\* Nothing is to be deleted at the start.
LEMMA InitQueued == Init => QueuedInv
<1>. SUFFICES ASSUME Init PROVE QueuedInv
  OBVIOUS
<1>1. /\ waiting = <<>> /\ pending = <<>> /\ reader = ReaderBegin /\ receiver = ReceiverBegin
      /\ deleted = {}
  BY DEF Init
<1>2. Ordering = {}
  BY <1>1, BeginsSound DEF Ordering, Deletions, UnderWay, Known
<1>3. \A i \in ConcatSlots : PartsOnce(receiver.slots[i])
  BY <1>1 DEF ReceiverBegin, PartsOnce
<1>. QED  BY <1>1, <1>2, <1>3, GroupsMatchBegins DEF QueuedInv

\* What is known holds a PDU.
LEMMA OrderingHolds ==
  ASSUME ChannelInv, PlacesInv
  PROVE  Ordering \subseteq Expected /\ \A i \in Expected : i \in Indices /\ sim[i] \in Sms
<1>1. reader \in Readers /\ sim \in [Indices -> Sms \cup {NoSms}]
  BY TypesAre, StateFields, StateIs DEF ChannelInv, ModemTypes
<1>2. Expected \subseteq Indices
  BY <1>1, ReaderTypes, ReaderConstants DEF Expected, Known, ToRead, Grouped, Deletions,
     UnderWay
<1>3. Ordering \subseteq Expected
  BY DEF Ordering, Expected, Known
<1>. QED  BY <1>1, <1>2, <1>3 DEF PlacesInv

\* A place in a group is one that is known, and not for deletion.
LEMMA GroupedAreExpected ==
  ASSUME ChannelInv, NEW g \in ConcatGroups, NEW p \in 1 .. MaxConcatParts,
         reader.groups[g].places[p] # NoIndex
  PROVE  reader.groups[g].places[p] \in Expected
<1>1. reader \in Readers
  BY TypesAre, StateFields, StateIs DEF ChannelInv
<1>2. reader.groups[g].places[p] \in Indices
  <2>1. reader.groups[g].places \in [1 .. MaxConcatParts -> Indices \cup {NoIndex}]
    BY <1>1, ReaderTypes, ReaderConstants
  <2>. QED  BY <2>1
<1>3. reader.groups[g].places[p] \in Grouped(reader)
  BY <1>2 DEF Grouped
<1>. QED  BY <1>3 DEF Expected, Known

\* Nothing more is to be deleted.
LEMMA NothingOrdered ==
  ASSUME ChannelInv, PlacesInv, QueuedInv, UNCHANGED <<sim, deleted>>,
         \A i \in ConcatSlots : PartsOnce(receiver'.slots[i]),
         reader'.groups = reader.groups, Ordering' \subseteq Ordering,
         queued' \in [Sms -> Nat], \A p \in Sms : queued'[p] >= queued[p]
  PROVE  QueuedInv'
<1>1. queued \in [Sms -> Nat]
  BY TypesAre, StateFields, StateIs DEF ChannelInv
<1>2. \A p \in Sms : queued[p] > 0 => queued'[p] > 0
  BY <1>1
<1>3. \A i \in Ordering' : queued'[sim'[i]] > 0
  BY <1>2, OrderingHolds DEF QueuedInv
<1>4. GroupsMatch(reader', sim')
  BY DEF QueuedInv, GroupsMatch
<1>. QED  BY <1>2, <1>3, <1>4 DEF QueuedInv

\* The slots of the receiver hold parts of one message each.
LEMMA PartsOnceHanded ==
  ASSUME NEW s \in States, NEW pdu \in Sms, \A i \in ConcatSlots : PartsOnce(s.receiver.slots[i])
  PROVE  LET h == Handed(s, pdu)
         IN  /\ \A i \in ConcatSlots : PartsOnce(h.receiver.slots[i])
             /\ h.queued \in [Sms -> Nat] /\ \A p \in Sms : h.queued[p] >= s.queued[p]
<1>. DEFINE o == HandlePdu(s.receiver, pdu)
            h == Handed(s, pdu)
            r == s.receiver
<1>0. /\ r \in Receivers /\ s.queued \in [Sms -> Nat]
      /\ r.slots \in [ConcatSlots -> SUBSET Sms]
  BY StateFields DEF Receivers
<1>1. /\ h \in States /\ h.receiver = o.receiver
      /\ \/ h.queued = s.queued
         \/ \E parts \in SUBSET Sms :
              \A m \in Sms : h.queued[m] = IF HasRoom(s.queue) /\ m \in parts
                                           THEN s.queued[m] + 1 ELSE s.queued[m]
  BY HandedEffect, ZenonT(40)
<1>2. h.queued \in [Sms -> Nat]
  BY <1>1, StateFields
<1>3. \A p \in Sms : h.queued[p] >= s.queued[p]
  <2>. DEFINE q == s.queued
              q2 == h.queued
  <2>1. \A m \in Sms : q[m] \in Nat
    BY <1>0
  <2>2. q2 = q \/ \A m \in Sms : q2[m] = q[m] + 1 \/ q2[m] = q[m]
    BY <1>1
  <2>. HIDE DEF q, q2
  <2>3. \A m \in Sms : q2[m] >= q[m]
    BY <2>1, <2>2
  <2>. QED  BY <2>3 DEF q, q2
<1>4. \/ o.receiver.slots = r.slots
      \/ /\ IsConcat(pdu) /\ ValidPart(pdu)
         /\ \E i \in ConcatSlots :
              /\ Takes(r.slots[i], pdu)
              /\ \/ o.receiver.slots = [r.slots EXCEPT ![i] = @ \cup {pdu}]
                 \/ o.receiver.slots = [r.slots EXCEPT ![i] = {}]
  <2>1. \/ o.received = <<>> /\ o.receiver.slots = r.slots
        \/ ~IsConcat(pdu) /\ o.received = <<Message({pdu})>> /\ o.receiver.slots = r.slots
        \/ /\ IsConcat(pdu) /\ ValidPart(pdu)
           /\ \E i \in ConcatSlots :
                /\ Takes(r.slots[i], pdu)
                /\ \/ /\ o.received = <<>>
                      /\ o.receiver.slots = [r.slots EXCEPT ![i] = @ \cup {pdu}]
                   \/ /\ Whole(r.slots[i] \cup {pdu})
                      /\ o.received = <<Message(r.slots[i] \cup {pdu})>>
                      /\ o.receiver.slots = [r.slots EXCEPT ![i] = {}]
    BY <1>0, HandlePduEffect
  <2>. HIDE DEF o, r
  <2>. QED  BY <2>1
<1>5. PartsOnce({})
  BY DEF PartsOnce
<1>6. \A i \in ConcatSlots : PartsOnce(o.receiver.slots[i])
  <2>1. CASE o.receiver.slots = r.slots
    BY <2>1
  <2>2. ASSUME NEW i \in ConcatSlots, IsConcat(pdu), ValidPart(pdu), Takes(r.slots[i], pdu),
               o.receiver.slots = [r.slots EXCEPT ![i] = @ \cup {pdu}]
        PROVE  \A j \in ConcatSlots : PartsOnce(o.receiver.slots[j])
    <3>1. PartsOnce(r.slots[i] \cup {pdu})
      BY <1>0, <2>2, TakesKeepsPartsOnce
    <3>. HIDE DEF o, r
    <3>2. \A j \in ConcatSlots : o.receiver.slots[j] = IF j = i THEN r.slots[i] \cup {pdu} ELSE r.slots[j]
      BY <1>0, <2>2
    <3>3. \A j \in ConcatSlots : PartsOnce(r.slots[j])
      BY DEF r
    <3>. QED  BY <3>1, <3>2, <3>3
  <2>3. ASSUME NEW i \in ConcatSlots, o.receiver.slots = [r.slots EXCEPT ![i] = {}]
        PROVE  \A j \in ConcatSlots : PartsOnce(o.receiver.slots[j])
    <3>. HIDE DEF o, r
    <3>2. \A j \in ConcatSlots : o.receiver.slots[j] = IF j = i THEN {} ELSE r.slots[j]
      BY <1>0, <2>3
    <3>3. \A j \in ConcatSlots : PartsOnce(r.slots[j])
      BY DEF r
    <3>. QED  BY <1>5, <3>2, <3>3
  <2>. QED  BY <1>4, <2>1, <2>2, <2>3
<1>. QED  BY <1>1, <1>2, <1>3, <1>6

\* A message that is queued takes every part of it along: whatever belongs to
\* the PDU that completed it was queued with it.
LEMMA BelongsIsQueued ==
  ASSUME UniqueReferences, NEW s \in States, NEW pdu \in Sms, NEW p \in Sms, Belongs(p, pdu),
         \A i \in ConcatSlots : PartsOnce(s.receiver.slots[i]),
         HandlePdu(s.receiver, pdu).received # <<>>, HasRoom(s.queue)
  PROVE  Handed(s, pdu).queued[p] > 0
<1>. DEFINE o == HandlePdu(s.receiver, pdu)
            h == Handed(s, pdu)
            r == s.receiver
<1>0. /\ r \in Receivers /\ s.queued \in [Sms -> Nat]
      /\ r.slots \in [ConcatSlots -> SUBSET Sms]
  BY StateFields DEF Receivers
<1>1. PICK parts \in SUBSET Sms :
        /\ o.received = <<Message(parts)>>
        /\ \A m \in Sms : h.queued[m] = IF HasRoom(s.queue) /\ m \in parts
                                        THEN s.queued[m] + 1 ELSE s.queued[m]
  BY HandedEffect
<1>2. \/ ~IsConcat(pdu) /\ o.received = <<Message({pdu})>>
      \/ /\ IsConcat(pdu) /\ ValidPart(pdu)
         /\ \E i \in ConcatSlots :
              /\ Takes(r.slots[i], pdu)
              /\ Whole(r.slots[i] \cup {pdu})
              /\ o.received = <<Message(r.slots[i] \cup {pdu})>>
  BY <1>0, HandlePduEffect
<1>3. \A A, B : <<Message(A)>> = <<Message(B)>> => A = B
  BY DEF Message
<1>4. p \in parts
  <2>1. CASE ~IsConcat(pdu) /\ o.received = <<Message({pdu})>>
    <3>1. parts = {pdu}
      BY <1>1, <1>3, <2>1
    <3>. QED  BY <2>1, <3>1 DEF Belongs
  <2>2. ASSUME NEW i \in ConcatSlots, IsConcat(pdu), ValidPart(pdu), Takes(r.slots[i], pdu),
               Whole(r.slots[i] \cup {pdu}), o.received = <<Message(r.slots[i] \cup {pdu})>>
        PROVE  p \in parts
    <3>1. parts = r.slots[i] \cup {pdu}
      BY <1>1, <1>3, <2>2
    <3>2. PartsOnce(r.slots[i] \cup {pdu})
      BY <1>0, <2>2, TakesKeepsPartsOnce
    <3>3. PartsOnce(parts) /\ Whole(parts) /\ pdu \in parts
      BY <2>2, <3>1, <3>2
    <3>4. Key[p] = Key[pdu] /\ Part[p] \in 1 .. Total[pdu]
      BY <2>2 DEF Belongs
    <3>5. PICK t \in parts : Key[t] = Key[pdu] /\ Part[t] = Part[p]
      BY <3>3, <3>4, WholeHasEveryPart, ReaderConstants
    <3>6. IsConcat(t)
      BY <3>3 DEF PartsOnce
    <3>. QED  BY <3>4, <3>5, <3>6 DEF UniqueReferences
  <2>. QED  BY <1>2, <2>1, <2>2
<1>5. h.queued[p] = s.queued[p] + 1 /\ s.queued[p] \in Nat
  BY <1>0, <1>1, <1>4
<1>. DEFINE n == h.queued[p]
            m == s.queued[p]
<1>. HIDE DEF n, m
<1>6. n > 0
  <2>1. n = m + 1 /\ m \in Nat
    BY <1>5 DEF n, m
  <2>. QED  BY <2>1
<1>. QED  BY <1>6 DEF n

\* A line orders no deletion of what was not queued,
LEMMA ReadLineQueued ==
  ASSUME UniqueReferences, ChannelInv, HeadersInv, AnswersInv, PlacesInv, QueuedInv, ReadLine
  PROVE  QueuedInv'
<1>. DEFINE line == Head(uart)
<1>0. /\ State \in States /\ State.receiver = receiver /\ queued \in [Sms -> Nat]
      /\ awaitingCmtPdu \in BOOLEAN /\ reader \in Readers
      /\ \A i \in ConcatSlots : PartsOnce(State.receiver.slots[i])
  BY TypesAre, StateFields, StateIs DEF ChannelInv, OwnTypes, QueuedInv
<1>1. /\ uart \in Seq(Lines) /\ uart # <<>> /\ line \in Lines
      /\ UNCHANGED <<pending, executed, sim, arrived, deleted>>
      /\ Channel(waiting, current, reader)
  BY ReadLineCases
<1>2. UnderWay' = UnderWay
  BY <1>1 DEF UnderWay
<1>3. CASE State' = OnUrc(State, line)
  <2>1. /\ waiting' = waiting
        /\ reader' = IF ~receiver.awaitingPdu /\ line.kind = "CMTI"
                     THEN EnqueueRead(reader, line.of) ELSE reader
        /\ \/ /\ receiver.awaitingPdu /\ line.kind \in {"PDU", "DATA"}
              /\ State' = Handed(State, line.of)
           \/ /\ receiver'.slots = receiver.slots /\ queued' = queued
    BY <1>0, <1>1, <1>3, OnUrcEffect, StateIs, StateIsNext
  <2>2. reader'.groups = reader.groups /\ reader'.deletes = reader.deletes
    <3>1. CASE line.kind = "CMTI" /\ reader' = EnqueueRead(reader, line.of)
      <4>1. line.of \in Indices
        BY <1>1, <3>1, LineFields
      <4>. QED  BY <1>0, <3>1, <4>1, EnqueueReadEffect, ReaderConstants
    <3>. QED  BY <2>1, <3>1
  <2>3. Ordering' = Ordering
    BY <1>2, <2>1, <2>2 DEF Ordering
  <2>4. CASE receiver.awaitingPdu /\ line.kind \in {"PDU", "DATA"} /\ State' = Handed(State, line.of)
    <3>1. line.of \in Sms
      BY <1>1, <2>4, LineFields
    <3>2. /\ \A i \in ConcatSlots : PartsOnce(receiver'.slots[i])
          /\ queued' \in [Sms -> Nat] /\ \A p \in Sms : queued'[p] >= queued[p]
      BY <1>0, <2>4, <3>1, PartsOnceHanded, StateIs, StateIsNext
    <3>. QED  BY <1>1, <2>2, <2>3, <3>2, NothingOrdered
  <2>5. CASE receiver'.slots = receiver.slots /\ queued' = queued
    <3>1. \A p \in Sms : queued'[p] >= queued[p]
      BY <1>0, <2>5
    <3>. QED  BY <1>0, <1>1, <2>2, <2>3, <2>5, <3>1, NothingOrdered, StateIs
  <2>. QED  BY <2>1, <2>4, <2>5
<1>4. CASE State' = State
  <2>1. UNCHANGED <<waiting, reader, receiver, queued>>
    BY <1>4, StateIs, StateIsNext
  <2>2. Ordering' = Ordering
    BY <1>2, <2>1 DEF Ordering
  <2>3. \A p \in Sms : queued'[p] >= queued[p]
    BY <1>0, <2>1
  <2>. QED  BY <1>0, <1>1, <2>1, <2>2, <2>3, NothingOrdered, StateIs
<1>5. ASSUME NEW result, current \in Command, response \in Sms \cup {NoSms},
             State' = Callback(State, current, result, response)
      PROVE  QueuedInv'
  <2>. DEFINE h == Handed(State, response)
              Ordered(x) == ToSet(x.reader.deletes) \cup Deletions(x.waiting)
  <2>1. /\ LearnsNothing(State, State')
        /\ \/ receiver' = receiver /\ queued' = queued /\ OrdersNothing(State, State')
           \/ /\ current.op = "read" /\ response \in Sms
              /\ receiver' = h.receiver /\ queued' = h.queued
              /\ \A sm : sm[current.arg] = response /\ FreeIsEmpty(reader) /\ GroupsMatch(reader, sm) =>
                   /\ GroupsMatch(reader', sm)
                   /\ \A i \in Ordered(State') \ Ordered(State) :
                        /\ HandlePdu(receiver, response).received # <<>> /\ HasRoom(queue)
                        /\ Belongs(sm[i], response)
    <3>. DEFINE t == Callback(State, current, result, response)
    <3>1. Channel(State.waiting, current, State.reader)
      BY <1>1, StateIs
    <3>2. /\ LearnsNothing(State, t)
          /\ \/ t.receiver = State.receiver /\ t.queued = State.queued /\ OrdersNothing(State, t)
             \/ /\ current.op = "read" /\ result = "Ok" /\ response \in Sms
                /\ t.receiver = h.receiver /\ t.queued = h.queued
                /\ \A sm : sm[current.arg] = response /\ FreeIsEmpty(State.reader)
                            /\ GroupsMatch(State.reader, sm) =>
                     /\ GroupsMatch(t.reader, sm)
                     /\ \A i \in Ordered(t) \ Ordered(State) :
                          /\ HandlePdu(State.receiver, response).received # <<>> /\ HasRoom(State.queue)
                          /\ Belongs(sm[i], response)
      BY <1>0, <1>5, <3>1, CallbackLearns
    <3>3. State' = t
      BY <1>5
    <3>. HIDE DEF t, h, Ordered
    <3>4. /\ receiver' = t.receiver /\ queued' = t.queued /\ reader' = t.reader
          /\ Ordered(State') = Ordered(t)
      BY <3>3, StateIsNext
    <3>. QED  BY <3>2, <3>3, <3>4, StateIs
  <2>2. CASE receiver' = receiver /\ queued' = queued /\ OrdersNothing(State, State')
    <3>1. Ordering' \subseteq Ordering /\ reader'.groups = reader.groups
      BY <1>2, <2>2, StateIs, StateIsNext DEF OrdersNothing, Ordering
    <3>2. \A p \in Sms : queued'[p] >= queued[p]
      BY <1>0, <2>2
    <3>. QED  BY <1>0, <1>1, <2>2, <3>1, <3>2, NothingOrdered, StateIs
  <2>3. CASE /\ current.op = "read" /\ response \in Sms
             /\ receiver' = h.receiver /\ queued' = h.queued
             /\ \A sm : sm[current.arg] = response /\ FreeIsEmpty(reader) /\ GroupsMatch(reader, sm) =>
                   /\ GroupsMatch(reader', sm)
                   /\ \A i \in Ordered(State') \ Ordered(State) :
                        /\ HandlePdu(receiver, response).received # <<>> /\ HasRoom(queue)
                        /\ Belongs(sm[i], response)
    <3>1. /\ \A i \in ConcatSlots : PartsOnce(receiver'.slots[i])
          /\ queued' \in [Sms -> Nat] /\ \A p \in Sms : h.queued[p] >= State.queued[p]
      BY <1>0, <2>3, PartsOnceHanded
    <3>2. \A p \in Sms : queued[p] > 0 => queued'[p] > 0
      <4>1. \A p \in Sms : queued'[p] >= queued[p]
        BY <2>3, <3>1, StateIs
      <4>. QED  BY <1>0, <3>1, <4>1
    <3>3. sim[current.arg] = response
      BY <1>5, <2>3, StoredSmsAssumption DEF AnswersInv
    <3>4. FreeIsEmpty(reader) /\ GroupsMatch(reader, sim)
      BY DEF PlacesInv, Sound, OneReason, QueuedInv
    <3>5. /\ GroupsMatch(reader', sim)
          /\ \A i \in Ordered(State') \ Ordered(State) :
               /\ HandlePdu(receiver, response).received # <<>> /\ HasRoom(queue)
               /\ Belongs(sim[i], response)
      BY <2>3, <3>3, <3>4
    <3>6. Ordered(State) = ToSet(reader.deletes) \cup Deletions(waiting)
      BY StateIs
    <3>7. Ordered(State') = ToSet(reader'.deletes) \cup Deletions(waiting')
      BY StateIsNext
    <3>8. Ordered(State') \subseteq Expected
      <4>1. Ordered(State') \subseteq Known(reader') \cup Deletions(waiting')
        BY <3>7 DEF Known
      <4>2. Known(reader') \cup Deletions(waiting') \subseteq Known(reader) \cup Deletions(waiting)
        BY <2>1, StateIs, StateIsNext DEF LearnsNothing, PlacesInv
      <4>. QED  BY <4>1, <4>2 DEF Expected
    <3>9. \A i \in Ordered(State') \ Ordered(State) : queued'[sim[i]] > 0
      <4>. SUFFICES ASSUME NEW i \in Ordered(State') \ Ordered(State) PROVE queued'[sim[i]] > 0
        OBVIOUS
      <4>1. sim[i] \in Sms
        BY <3>8, OrderingHolds
      <4>2. /\ HandlePdu(State.receiver, response).received # <<>> /\ HasRoom(State.queue)
            /\ Belongs(sim[i], response)
        BY <3>5, StateIs
      <4>3. h.queued[sim[i]] > 0
        BY <1>0, <2>3, <4>1, <4>2, BelongsIsQueued
      <4>. QED  BY <2>3, <4>3
    <3>10. \A i \in Ordering : queued'[sim[i]] > 0
      BY <3>2, OrderingHolds DEF QueuedInv
    <3>. HIDE DEF Ordered
    <3>11. Ordering' \subseteq Ordering \cup (Ordered(State') \ Ordered(State))
      BY <1>2, <3>6, <3>7 DEF Ordering
    <3>12. \A i \in Ordering' : queued'[sim[i]] > 0
      BY <3>9, <3>10, <3>11
    <3>13. \A p \in deleted : p \in Sms /\ queued'[p] > 0
      BY <3>2 DEF QueuedInv
    <3>. QED  BY <1>1, <3>1, <3>5, <3>12, <3>13 DEF QueuedInv
  <2>. QED  BY <2>1, <2>2, <2>3
<1>. QED  BY <1>3, <1>4, <1>5, ReadLineCases

\* nor does a poll of the AT channel,
LEMMA PollQueued ==
  ASSUME ~LateAnswers, ChannelInv, AnswersInv, PlacesInv, QueuedInv, NEW timeout \in BOOLEAN, Poll(timeout)
  PROVE  QueuedInv'
<1>. DEFINE s == IF timeout THEN Callback(State, current, "Timeout", NoSms) ELSE State
<1>1. /\ UNCHANGED <<executed, sim, deleted>>
      /\ State \in States /\ Channel(waiting, current, reader) /\ s \in States
      /\ pending \in Seq(Command) /\ s.waiting \in Seq(Command)
      /\ timeout => current \in Command /\ pending = <<>>
      /\ \/ /\ timeout \/ current = NoCommand
            /\ s.waiting # <<>> /\ Head(s.waiting) \in Command
            /\ State' = [s EXCEPT !.waiting = Tail(@)]
            /\ pending' = Append(pending, Head(s.waiting))
         \/ State' = s /\ pending' = pending
  BY PollCases
<1>2. OrdersNothing(State, s) /\ s.receiver = receiver /\ s.queued = queued
  <2>1. CASE timeout
    <3>1. NoSms \in Sms \cup {NoSms} /\ "Timeout" # "Ok"
      OBVIOUS
    <3>. QED  BY <1>1, <2>1, <3>1, CallbackLearns, StateIs
  <2>2. CASE ~timeout
    BY <2>2, StateIs DEF OrdersNothing
  <2>. QED  BY <2>1, <2>2
<1>. HIDE DEF s
<1>3. reader' = s.reader /\ receiver' = s.receiver /\ queued' = s.queued
  <2>1. State'.reader = s.reader /\ State'.receiver = s.receiver /\ State'.queued = s.queued
    BY <1>1 DEF States, StateRecord
  <2>. QED  BY <2>1, StateIsNext
<1>4. Ordering' \subseteq Ordering
  <2>1. ToSet(s.reader.deletes) \cup Deletions(s.waiting) \subseteq ToSet(reader.deletes) \cup Deletions(waiting)
    BY <1>2, StateIs DEF OrdersNothing
  <2>2. CASE State' = s /\ pending' = pending
    <3>1. waiting' = s.waiting /\ UnderWay' = UnderWay
      BY <1>1, <2>2, StateIsNext DEF UnderWay
    <3>. QED  BY <1>3, <2>1, <3>1 DEF Ordering
  <2>3. CASE /\ timeout \/ current = NoCommand
             /\ s.waiting # <<>> /\ Head(s.waiting) \in Command
             /\ State' = [s EXCEPT !.waiting = Tail(@)]
             /\ pending' = Append(pending, Head(s.waiting))
    <3>. DEFINE c == Head(s.waiting)
    <3>1. waiting' = Tail(s.waiting)
      <4>1. [s EXCEPT !.waiting = Tail(@)].waiting = Tail(s.waiting)
        BY <1>1 DEF States, StateRecord
      <4>. QED  BY <2>3, <4>1, StateIsNext
    <3>2. pending' = <<c>>
      <4>1. pending = <<>>
        BY <1>1, <2>3 DEF AnswersInv
      <4>. QED  BY <2>3, <4>1
    <3>3. Deletions(s.waiting) = Deletions(waiting') \cup {i \in Indices : c = Delete(i)}
      BY <1>1, <2>3, <3>1, DeletionsStarted
    <3>4. UnderWay' \subseteq {i \in Indices : c = Delete(i)}
      <4>1. \A i : <<c>> = <<Delete(i)>> => c = Delete(i)
        OBVIOUS
      <4>. QED  BY <3>2, <4>1 DEF UnderWay
    <3>. HIDE DEF c
    <3>. QED  BY <1>3, <2>1, <3>3, <3>4 DEF Ordering
  <2>. QED  BY <1>1, <2>2, <2>3
<1>5. reader'.groups = reader.groups
  BY <1>2, <1>3, StateIs DEF OrdersNothing
<1>6. queued' \in [Sms -> Nat] /\ \A p \in Sms : queued'[p] >= queued[p]
  <2>1. queued \in [Sms -> Nat]
    BY <1>1, StateFields, StateIs
  <2>2. queued' = queued
    BY <1>2, <1>3
  <2>3. \A p \in Sms : queued[p] >= queued[p]
    BY <2>1
  <2>. QED  BY <2>1, <2>2, <2>3
<1>7. \A i \in ConcatSlots : PartsOnce(receiver'.slots[i])
  BY <1>2, <1>3 DEF QueuedInv
<1>. QED  BY <1>1, <1>4, <1>5, <1>6, <1>7, NothingOrdered

\* nor do those of the receiver and of the reader.
LEMMA SmsTasksQueued ==
  ASSUME ChannelInv, PlacesInv, QueuedInv, NEW due \in SUBSET ConcatSlots, NEW pduTimeout \in BOOLEAN,
         SmsTasks(due, pduTimeout)
  PROVE  QueuedInv'
<1>. DEFINE s1 == IF pduTimeout THEN [State EXCEPT !.receiver = PduTimeout(@)] ELSE State
            s2 == TimeOutSlots(s1, due)
            s3 == SubmitDelete(s2)
<1>1. /\ s1 \in States /\ s2 \in States /\ State' = SubmitRead(s3)
      /\ s1.waiting = waiting /\ s1.reader = reader
      /\ s1.queued = queued /\ s1.receiver.slots = receiver.slots
  BY SmsTasksSteps DEF ChannelInv
<1>. HIDE DEF s1
<1>2. /\ s2.waiting = s1.waiting /\ s2.reader = s1.reader
      /\ \A j \in ConcatSlots : s2.receiver.slots[j] = IF j \in due THEN {} ELSE s1.receiver.slots[j]
      /\ \A m \in Sms : s2.queued[m] >= s1.queued[m]
  BY <1>1, TimeOutSlotsEffect
<1>3. /\ s3 \in States /\ OrdersNothing(s2, s3) /\ s3.receiver = s2.receiver /\ s3.queued = s2.queued
  BY <1>1, SubmitDeleteLearns
<1>4. /\ State' \in States /\ OrdersNothing(s3, State')
      /\ receiver' = s3.receiver /\ queued' = s3.queued
  BY <1>1, <1>3, SubmitReadLearns, StateIsNext
<1>. HIDE DEF s2, s3
<1>5. UNCHANGED <<pending, executed, sim, deleted>>
  BY DEF SmsTasks, modemVars
<1>6. reader'.groups = reader.groups /\ Ordering' \subseteq Ordering
  <2>1. UnderWay' = UnderWay
    BY <1>5 DEF UnderWay
  <2>2. reader' = State'.reader /\ waiting' = State'.waiting
    BY StateIsNext
  <2>. QED  BY <1>1, <1>2, <1>3, <1>4, <2>1, <2>2 DEF Ordering, OrdersNothing
<1>7. queued' \in [Sms -> Nat]
  BY <1>4, StateFields, StateIsNext
<1>8. \A p \in Sms : queued'[p] >= queued[p]
  BY <1>1, <1>2, <1>3, <1>4
<1>9. \A i \in ConcatSlots : PartsOnce(receiver'.slots[i])
  <2>1. PartsOnce({})
    BY DEF PartsOnce
  <2>2. \A i \in ConcatSlots : receiver'.slots[i] = {} \/ receiver'.slots[i] = receiver.slots[i]
    BY <1>1, <1>2, <1>3, <1>4
  <2>. QED  BY <2>1, <2>2 DEF QueuedInv
<1>. QED  BY <1>5, <1>6, <1>7, <1>8, <1>9, NothingOrdered

\* A deletion is carried out.
LEMMA ModemQueued ==
  ASSUME ChannelInv, AnswersInv, PlacesInv, PlacesInv', QueuedInv,
         Modem \/ \E s \in Sms : NetworkDelivers(s)
  PROVE  QueuedInv'
<1>0. /\ ModemTypes /\ sim \in [Indices -> Sms \cup {NoSms}] /\ NoSms \notin Sms
      /\ queued \in [Sms -> Nat]
  BY TypesAre, StateFields, StateIs, StoredSmsAssumption DEF ChannelInv, ModemTypes
<1>1. UNCHANGED <<waiting, reader, receiver, queued>>
  BY <1>0, ModemStepTypes DEF channelVars
<1>2. ASSUME UnderWay' \subseteq UnderWay, NEW i \in Indices, i \notin Expected',
             \A j \in Indices : j # i => sim'[j] = sim[j],
             \A p \in deleted' : p \in deleted \/ (i \in UnderWay /\ p = sim[i])
      PROVE  QueuedInv'
  <2>1. Ordering' \subseteq Ordering /\ Ordering' \subseteq Expected'
    BY <1>1, <1>2 DEF Ordering, Expected, Known
  <2>2. \A j \in Ordering : j \in Indices /\ sim[j] \in Sms /\ queued[sim[j]] > 0
    BY OrderingHolds DEF QueuedInv
  <2>3. \A j \in Ordering' : queued'[sim'[j]] > 0
    <3>. SUFFICES ASSUME NEW j \in Ordering' PROVE queued'[sim'[j]] > 0
      OBVIOUS
    <3>1. j # i /\ j \in Indices /\ queued[sim[j]] > 0
      BY <1>2, <2>1, <2>2
    <3>2. sim'[j] = sim[j] /\ queued' = queued
      BY <1>1, <1>2, <3>1
    <3>. QED  BY <3>1, <3>2
  <2>4. \A p \in deleted' : p \in Sms /\ queued'[p] > 0
    <3>. SUFFICES ASSUME NEW p \in deleted' PROVE p \in Sms /\ queued'[p] > 0
      OBVIOUS
    <3>1. CASE p \in deleted
      BY <1>1, <3>1 DEF QueuedInv
    <3>2. CASE i \in UnderWay /\ p = sim[i]
      <4>1. i \in Ordering
        BY <3>2 DEF Ordering
      <4>. QED  BY <1>1, <2>2, <3>2, <4>1
    <3>. QED  BY <1>2, <3>1, <3>2
  <2>5. GroupsMatch(reader', sim')
    <3>. SUFFICES ASSUME NEW g \in ConcatGroups, NEW p \in 1 .. MaxConcatParts,
                         reader.groups[g].places[p] # NoIndex
                  PROVE  LET j == reader.groups[g].places[p]
                         IN  reader.groups[g].of = {Key[sim'[j]]} /\ Part[sim'[j]] = p
      BY <1>1 DEF GroupsMatch
    <3>. DEFINE j == reader.groups[g].places[p]
    <3>1. j \in Expected /\ j \in Known(reader)
      <4>1. reader \in Readers
        BY TypesAre, StateFields, StateIs DEF ChannelInv
      <4>2. reader.groups[g].places \in [1 .. MaxConcatParts -> Indices \cup {NoIndex}]
        BY <4>1, ReaderTypes, ReaderConstants
      <4>3. j \in Indices
        BY <4>2
      <4>4. j \in Grouped(reader)
        BY <4>3 DEF Grouped
      <4>. QED  BY <4>4 DEF Expected, Known
    <3>2. j # i /\ j \in Indices
      <4>1. j \in Expected'
        BY <1>1, <3>1 DEF Expected
      <4>. QED  BY <1>2, <3>1, <4>1, OrderingHolds
    <3>3. reader.groups[g].of = {Key[sim[j]]} /\ Part[sim[j]] = p
      BY DEF QueuedInv, GroupsMatch
    <3>. HIDE DEF j
    <3>4. sim'[j] = sim[j]
      BY <1>2, <3>2
    <3>. QED  BY <3>3, <3>4 DEF j
  <2>. QED  BY <1>1, <2>3, <2>4, <2>5 DEF QueuedInv
<1>3. CASE /\ pending # <<>> /\ executed' /\ pending' = pending /\ ~executed
           /\ \E i \in Indices : /\ Head(pending) = Delete(i)
                                 /\ sim' = [sim EXCEPT ![i] = NoSms]
                                 /\ deleted' = deleted \cup ({sim[i]} \ {NoSms})
  <2>1. PICK i \in Indices : /\ Head(pending) = Delete(i)
                             /\ sim' = [sim EXCEPT ![i] = NoSms]
                             /\ deleted' = deleted \cup ({sim[i]} \ {NoSms})
    BY <1>3
  <2>2. UnderWay' = {}
    BY <1>3 DEF UnderWay
  <2>3. i \in UnderWay
    <3>1. pending = <<Delete(i)>>
      <4>1. \A c : Head(<<c>>) = c
        OBVIOUS
      <4>. QED  BY <1>3, <2>1, <4>1 DEF AnswersInv
    <3>. QED  BY <1>3, <3>1 DEF UnderWay
  <2>4. sim'[i] = NoSms /\ \A j \in Indices : j # i => sim'[j] = sim[j]
    BY <1>0, <2>1
  <2>5. i \notin Expected'
    BY <2>4 DEF PlacesInv
  <2>6. \A p \in deleted' : p \in deleted \/ p = sim[i]
    BY <2>1
  <2>. QED  BY <1>2, <2>2, <2>3, <2>4, <2>5, <2>6
<1>4. CASE UNCHANGED <<sim, deleted>> /\ UnderWay' \subseteq UnderWay
  <2>1. Ordering' \subseteq Ordering
    BY <1>1, <1>4 DEF Ordering
  <2>2. \A p \in Sms : queued'[p] >= queued[p]
    BY <1>0, <1>1
  <2>3. \A i \in ConcatSlots : PartsOnce(receiver'.slots[i])
    BY <1>1 DEF QueuedInv
  <2>. QED  BY <1>0, <1>1, <1>4, <2>1, <2>2, <2>3, NothingOrdered
<1>5. CASE pending # <<>> /\ pending' = Tail(pending) /\ UNCHANGED <<sim, deleted>>
  <2>1. pending' = <<>>
    <3>1. \A c : Tail(<<c>>) = <<>>
      OBVIOUS
    <3>. QED  BY <1>5, <3>1 DEF AnswersInv
  <2>2. UnderWay' = {}
    BY <2>1 DEF UnderWay
  <2>. QED  BY <1>4, <1>5, <2>2
<1>6. CASE /\ UNCHANGED <<pending, executed, deleted>>
           /\ sim' = sim \/ \E s \in Sms : \E i \in Indices : /\ sim[i] = NoSms
                                                             /\ sim' = [sim EXCEPT ![i] = s]
  <2>1. UnderWay' = UnderWay
    BY <1>6 DEF UnderWay
  <2>2. CASE sim' = sim
    BY <1>4, <1>6, <2>1, <2>2
  <2>3. ASSUME NEW s \in Sms, NEW i \in Indices, sim[i] = NoSms, sim' = [sim EXCEPT ![i] = s]
        PROVE  QueuedInv'
    <3>1. i \notin Expected
      BY <2>3 DEF PlacesInv
    <3>2. Expected' = Expected
      BY <1>1, <2>1 DEF Expected
    <3>3. \A j \in Indices : j # i => sim'[j] = sim[j]
      BY <1>0, <2>3
    <3>. QED  BY <1>2, <1>6, <2>1, <3>1, <3>2, <3>3
  <2>. QED  BY <1>6, <2>2, <2>3
<1>. QED  BY <1>0, <1>3, <1>5, <1>6, ModemCases

\* No step orders the deletion of what was not queued.
LEMMA NextQueued ==
  (/\ ~LateAnswers /\ UniqueReferences /\ ChannelInv /\ HeadersInv /\ AnswersInv
   /\ PlacesInv /\ PlacesInv' /\ QueuedInv /\ [Next]_vars)
     => QueuedInv'
<1>. SUFFICES ASSUME ~LateAnswers, UniqueReferences, ChannelInv, HeadersInv, AnswersInv,
                     PlacesInv, PlacesInv', QueuedInv, [Next]_vars
              PROVE  QueuedInv'
  OBVIOUS
<1>0. queued \in [Sms -> Nat]
  BY TypesAre, StateFields, StateIs DEF ChannelInv
<1>1. ASSUME UNCHANGED <<receiver, reader, pending, executed, sim, queued, deleted>>,
             Deletions(waiting') = Deletions(waiting)
      PROVE  QueuedInv'
  <2>1. Ordering' = Ordering
    BY <1>1 DEF Ordering, UnderWay
  <2>2. \A p \in Sms : queued'[p] >= queued[p]
    BY <1>0, <1>1
  <2>3. \A i \in ConcatSlots : PartsOnce(receiver'.slots[i])
    BY <1>1 DEF QueuedInv
  <2>. QED  BY <1>0, <1>1, <2>1, <2>2, <2>3, NothingOrdered
<1>2. CASE TurnEnds \/ UNCHANGED vars \/ \E i \in DOMAIN queue : Forward(i)
  BY <1>1, <1>2 DEF TurnEnds, Forward, vars, channelVars, modemVars, history
<1>3. ASSUME NEW c \in Clients, ClientSubmits(c) PROVE QueuedInv'
  <2>. DEFINE o == Other(c)
  <2>1. waiting \in Seq(Command) /\ o \in Command
    BY StateFields, StateIs, TypesAre DEF ChannelInv, Command
  <2>2. /\ waiting' = Append(waiting, o)
        /\ UNCHANGED <<receiver, reader, pending, executed, sim, queued, deleted>>
    BY <1>3 DEF ClientSubmits, modemVars, history
  <2>3. \A i : o # Delete(i)
    BY DeleteIs
  <2>. HIDE DEF o
  <2>4. Deletions(waiting') = Deletions(waiting) \cup {i \in Indices : o = Delete(i)}
    BY <2>1, <2>2, DeletionsAdded
  <2>5. Deletions(waiting') = Deletions(waiting)
    BY <2>3, <2>4
  <2>. QED  BY <1>1, <2>2, <2>5
<1>4. CASE Restart
  <2>1. /\ waiting' = <<>> /\ pending' = <<>>
        /\ receiver' = ReceiverBegin /\ reader' = ReaderBegin
        /\ UNCHANGED <<queued, deleted>>
    BY <1>4 DEF Restart
  <2>2. Ordering' = {}
    BY <2>1, BeginsSound DEF Ordering, Deletions, UnderWay, Known
  <2>3. \A i \in ConcatSlots : PartsOnce(receiver'.slots[i])
    BY <2>1 DEF ReceiverBegin, PartsOnce
  <2>4. GroupsMatch(reader', sim')
    BY <2>1, GroupsMatchBegins
  <2>. QED  BY <2>1, <2>2, <2>3, <2>4 DEF QueuedInv
<1>. QED  BY <1>2, <1>3, <1>4, ReadLineQueued, PollQueued, SmsTasksQueued, ModemQueued DEF Next,
             Loop

\* Without late answers and reused references, what is to be deleted was queued.
LEMMA QueuedInvariance == ~LateAnswers /\ UniqueReferences => (Spec => []QueuedInv)
<1>. SUFFICES ASSUME ~LateAnswers, UniqueReferences PROVE Spec => []QueuedInv
  OBVIOUS
<1>1. (/\ ChannelInv /\ HeadersInv /\ AnswersInv /\ PlacesInv /\ PlacesInv' /\ QueuedInv
       /\ [Next]_vars)
         => QueuedInv'
  BY NextQueued
<1>2. Spec => []AnswersInv /\ []PlacesInv
  BY AnswersInvariance, PlacesInvariance
<1>. QED  BY <1>1, <1>2, InitQueued, ChannelInvariance, HeadersInvariance, PTL DEF Spec

\* A message leaves the SIM only when it is in the forwarder's queue or was,
\* whatever the sizes of the queues, whichever messages arrive when, and
\* through restarts, refused commands and timeouts, if the modem answers
\* before the timeout and a reference is not used twice.
THEOREM DeletedWasQueued ==
  ~LateAnswers /\ UniqueReferences => (Spec => []DeletedOnlyIfQueued)
<1>1. QueuedInv => DeletedOnlyIfQueued
  BY DEF QueuedInv, DeletedOnlyIfQueued
<1>. QED  BY <1>1, QueuedInvariance, PTL
==============================================================================
