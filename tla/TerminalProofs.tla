---------------------------- MODULE TerminalProofs ----------------------------
(***************************************************************************)
(* Proofs about the line editor of Shell, for every size of the buffers    *)
(* and the history, every set of characters and every bound, about what    *)
(* the terminal shows of the line, for every size of the terminal, and     *)
(* about the lock of the terminal.                                         *)
(*                                                                         *)
(* The C strings are what needs an argument first: strlen of an array      *)
(* means something only if a NUL ends the array.  EditorInv says that each *)
(* does, and that buf holds characters, and no NUL, below buflen.  What    *)
(* the terminal shows is not part of it, no step of the editor reads it:   *)
(* LineShown, at the end, is an invariant on top of EditorInv.             *)
(***************************************************************************)
EXTENDS Shell, Tty, CommonLemmas

Index == 0 .. BufSize - 1

\* The arrays that end behind the longest line at the latest.
EndedArray == {a \in Array : a[MaxLine] = Nul}

HistoryRows == [0 .. HistSize - 1 -> EndedArray]

\* The first n elements of a are characters.
Holds(a, n) == \A i \in 0 .. n - 1 : a[i] \in Chars

EditorInv ==
  /\ buf \in EndedArray
  /\ history \in HistoryRows
  /\ buflen \in 0 .. MaxLine /\ bufpos \in 0 .. buflen
  /\ Holds(buf, buflen)
  /\ history_cnt \in 0 .. HistSize - 1
  /\ history_idx \in -1 .. history_cnt - 1
  /\ executed \in Seq(Chars)
  /\ keys \in 0 .. MaxKeys

----------------------------------------------------------------------------
(* Lemmas about C strings *)

\* No character is the NUL, and every index of a line is one of the array.
LEMMA IndexLemma ==
  /\ Nul \notin Chars
  /\ BufSize \in Nat /\ MaxLine \in Nat /\ MaxLine \in Index
  /\ 0 .. MaxLine \subseteq Index
  BY ShellAssumption DEF Index

\* strlen finds a NUL with no NUL in front of it.
LEMMA StrlenLemma ==
  ASSUME NEW a \in EndedArray
  PROVE  strlen(a) \in 0 .. MaxLine /\ a[strlen(a)] = Nul /\ Holds(a, strlen(a))
  <1> DEFINE S == {i \in Index : a[i] = Nul}
  <1>1. a \in [Index -> Chars \cup {Nul}] /\ a[MaxLine] = Nul
    BY DEF EndedArray, Array, Index
  <1>2. MaxLine \in S /\ S \in SUBSET Nat
    BY <1>1, IndexLemma DEF Index
  <1>3. PICK x \in S : \A y \in S : x <= y
    BY <1>2, LeastLemma
  <1>4. x \in Index /\ a[x] = Nul /\ x <= MaxLine
    BY <1>2, <1>3
  <1>5. \A i \in 0 .. x - 1 : a[i] # Nul
    <2> SUFFICES ASSUME NEW i \in 0 .. x - 1, a[i] = Nul PROVE FALSE
      OBVIOUS
    <2>1. i \in Index /\ i < x
      BY <1>4, IndexLemma DEF Index
    <2>2. i \in S
      BY <2>1
    <2> QED
      BY <1>3, <1>4, <2>1, <2>2, IndexLemma DEF Index
  <1> DEFINE n == strlen(a)
  <1>6. n \in Index /\ a[n] = Nul /\ \A i \in 0 .. n - 1 : a[i] # Nul
    BY <1>4, <1>5 DEF strlen, Index
  <1> HIDE DEF n, S
  <1>7. ~ (MaxLine < n)
    BY <1>1, <1>6, IndexLemma DEF Index
  <1>8. n \in 0 .. MaxLine
    BY <1>6, <1>7, IndexLemma DEF Index
  <1>9. \A i \in 0 .. n - 1 : a[i] \in Chars
    <2> TAKE i \in 0 .. n - 1
    <2>1. i \in Index
      BY <1>8, IndexLemma DEF Index
    <2> QED
      BY <1>1, <1>6, <2>1
  <1> QED
    BY <1>6, <1>8, <1>9 DEF n, Holds

\* It is the only such place.
LEMMA StrlenIs ==
  ASSUME NEW a \in EndedArray, NEW n \in 0 .. MaxLine, a[n] = Nul, Holds(a, n)
  PROVE  strlen(a) = n
  <1> DEFINE m == strlen(a)
  <1>1. m \in 0 .. MaxLine /\ a[m] = Nul /\ Holds(a, m)
    BY StrlenLemma
  <1> HIDE DEF m
  <1>2. n \in Int /\ m \in Int /\ n >= 0 /\ m >= 0
    BY <1>1, IndexLemma
  <1>3. ~ (m < n)
    <2> SUFFICES ASSUME m < n PROVE FALSE
      OBVIOUS
    <2>1. m \in 0 .. n - 1
      BY <1>2
    <2> QED
      BY <1>1, <2>1, IndexLemma DEF Holds
  <1>4. ~ (n < m)
    <2> SUFFICES ASSUME n < m PROVE FALSE
      OBVIOUS
    <2>1. n \in 0 .. m - 1
      BY <1>2
    <2> QED
      BY <1>1, <2>1, IndexLemma DEF Holds
  <1>5. m = n
    BY <1>2, <1>3, <1>4
  <1> QED
    BY <1>5 DEF m

\* A line as a sequence.
LEMMA PrefixLemma ==
  ASSUME NEW a \in Array, NEW n \in 0 .. MaxLine, Holds(a, n)
  PROVE  /\ Prefix(a, n) \in Seq(Chars)
         /\ Len(Prefix(a, n)) = n
         /\ \A k \in 1 .. n : Prefix(a, n)[k] = a[k - 1]
  <1>1. n \in Nat
    BY IndexLemma
  <1>2. \A k \in 1 .. n : a[k - 1] \in Chars
    BY <1>1 DEF Holds
  <1>3. Prefix(a, n) \in [1 .. n -> Chars]
    BY <1>2 DEF Prefix
  <1>4. Prefix(a, n) \in Seq(Chars) /\ Len(Prefix(a, n)) = n
    BY <1>1, <1>3, FunctionIsSeq
  <1> QED
    BY <1>4 DEF Prefix

\* The string in an array that ends is a sequence of characters.
LEMMA StringLemma ==
  ASSUME NEW a \in EndedArray
  PROVE  String(a) \in Seq(Chars)
  <1>1. a \in Array /\ strlen(a) \in 0 .. MaxLine /\ Holds(a, strlen(a))
    BY StrlenLemma DEF EndedArray
  <1> QED
    BY <1>1, PrefixLemma DEF String

\* memcpy of at most a line leaves the end of the array alone.
LEMMA MemcpyLemma ==
  ASSUME NEW dst \in EndedArray, NEW src \in EndedArray, NEW n \in 0 .. MaxLine
  PROVE  /\ memcpy(dst, src, n) \in EndedArray
         /\ \A i \in 0 .. n - 1 : memcpy(dst, src, n)[i] = src[i]
  <1>1. n \in Int /\ 0 .. n - 1 \subseteq Index /\ Index \subseteq Int
    BY IndexLemma DEF Index
  <1>2. dst \in [Index -> Chars \cup {Nul}] /\ src \in [Index -> Chars \cup {Nul}]
    BY DEF EndedArray, Array, Index
  <1>3. memcpy(dst, src, n) = [i \in Index |-> IF i < n THEN src[i] ELSE dst[i]]
    BY DEF memcpy, Index
  <1>4. memcpy(dst, src, n) \in [Index -> Chars \cup {Nul}]
    BY <1>2, <1>3
  <1>5. memcpy(dst, src, n)[MaxLine] = Nul
    BY <1>3, IndexLemma DEF EndedArray
  <1>6. \A i \in 0 .. n - 1 : memcpy(dst, src, n)[i] = src[i]
    BY <1>1, <1>3
  <1> QED
    BY <1>4, <1>5, <1>6 DEF EndedArray, Array, Index

\* strcpy copies as far as the end of the longest line at most.
LEMMA StrcpyLemma ==
  ASSUME NEW dst \in EndedArray, NEW src \in EndedArray
  PROVE  strcpy(dst, src) \in EndedArray
  <1> DEFINE n == strlen(src) + 1
  <1>1. strlen(src) \in 0 .. MaxLine
    BY StrlenLemma
  <1>2. n \in Int /\ Index \subseteq Int
    BY <1>1, IndexLemma DEF Index
  <1>3. dst \in [Index -> Chars \cup {Nul}] /\ src \in [Index -> Chars \cup {Nul}]
    BY DEF EndedArray, Array, Index
  <1> HIDE DEF n
  <1>4. memcpy(dst, src, n) = [i \in Index |-> IF i < n THEN src[i] ELSE dst[i]]
    BY DEF memcpy, Index
  <1>5. memcpy(dst, src, n) \in [Index -> Chars \cup {Nul}]
    BY <1>3, <1>4
  <1>6. memcpy(dst, src, n)[MaxLine] = Nul
    BY <1>4, IndexLemma DEF EndedArray
  <1> QED
    BY <1>5, <1>6 DEF EndedArray, Array, Index, strcpy, n

\* A NUL at any place of a line leaves an array that ends.
LEMMA NulLemma ==
  ASSUME NEW a \in EndedArray, NEW i \in 0 .. MaxLine
  PROVE  /\ [a EXCEPT ![i] = Nul] \in EndedArray
         /\ [a EXCEPT ![i] = Nul][i] = Nul
         /\ \A j \in 0 .. i - 1 : [a EXCEPT ![i] = Nul][j] = a[j]
  <1>1. i \in Index /\ MaxLine \in Index /\ 0 .. i - 1 \subseteq Index
    BY IndexLemma DEF Index
  <1>2. a \in [Index -> Chars \cup {Nul}] /\ a[MaxLine] = Nul
    BY DEF EndedArray, Array, Index
  <1>3. [a EXCEPT ![i] = Nul] \in [Index -> Chars \cup {Nul}]
    BY <1>2
  <1>4. [a EXCEPT ![i] = Nul][MaxLine] = Nul
    BY <1>1, <1>2
  <1>5. [a EXCEPT ![i] = Nul][i] = Nul
    BY <1>1, <1>2
  <1>6. \A j \in 0 .. i - 1 : [a EXCEPT ![i] = Nul][j] = a[j]
    <2> TAKE j \in 0 .. i - 1
    <2>1. j \in Index /\ j # i
      BY <1>1, IndexLemma
    <2> QED
      BY <1>2, <2>1
  <1> QED
    BY <1>3, <1>4, <1>5, <1>6 DEF EndedArray, Array, Index

----------------------------------------------------------------------------
(* Lemmas about the operations *)

\* A character typed into the line: what is behind it moves up.
LEMMA InsertedLemma ==
  ASSUME EditorInv, buflen < MaxLine, NEW c \in Chars
  PROVE  /\ Inserted(c) \in EndedArray
         /\ Holds(Inserted(c), buflen + 1)
         /\ \A i \in 0 .. buflen :
              Inserted(c)[i] = IF i < bufpos THEN buf[i]
                               ELSE IF i = bufpos THEN c ELSE buf[i - 1]
  <1>1. /\ buf \in [Index -> Chars \cup {Nul}] /\ buf[MaxLine] = Nul
        /\ buflen \in Nat /\ bufpos \in Nat /\ bufpos <= buflen
        /\ MaxLine \in Index /\ Index = 0 .. BufSize - 1
        /\ BufSize \in Nat /\ MaxLine \in Nat
        /\ \A i \in 0 .. buflen - 1 : buf[i] \in Chars
    BY IndexLemma DEF EditorInv, EndedArray, Array, Index, Holds
  <1> DEFINE a == Inserted(c)
  <1>2. a = [i \in Index |-> IF i = bufpos THEN c
                             ELSE IF bufpos < i /\ i <= buflen THEN buf[i - 1]
                             ELSE buf[i]]
    BY <1>1 DEF Inserted
  <1> HIDE DEF a
  <1>3. a \in [Index -> Chars \cup {Nul}]
    <2> SUFFICES ASSUME NEW i \in Index PROVE a[i] \in Chars \cup {Nul}
      BY <1>2
    <2>1. CASE bufpos < i /\ i <= buflen
      <3>1. i - 1 \in 0 .. buflen - 1
        BY <1>1, <2>1
      <3> QED
        BY <1>1, <1>2, <2>1, <3>1
    <2>2. CASE ~ (bufpos < i /\ i <= buflen)
      BY <1>1, <1>2, <2>2
    <2> QED
      BY <2>1, <2>2
  <1>4. a[MaxLine] = Nul
    BY <1>1, <1>2
  <1>5. ASSUME NEW i \in 0 .. buflen
        PROVE  a[i] = IF i < bufpos THEN buf[i]
                      ELSE IF i = bufpos THEN c ELSE buf[i - 1]
    <2>1. i \in Index
      BY <1>1
    <2> QED
      BY <1>1, <1>2, <2>1
  <1>6. ASSUME NEW i \in 0 .. buflen PROVE a[i] \in Chars
    <2>1. i < bufpos => i \in 0 .. buflen - 1
      BY <1>1
    <2>2. i > bufpos => i - 1 \in 0 .. buflen - 1
      BY <1>1
    <2> QED
      BY <1>1, <1>5, <2>1, <2>2
  <1>7. buflen + 1 - 1 = buflen
    BY <1>1
  <1> QED
    BY <1>1, <1>3, <1>4, <1>5, <1>6, <1>7 DEF a, EndedArray, Array, Holds

\* A character removed from the line: what is behind it moves down.
LEMMA ErasedLemma ==
  ASSUME EditorInv, bufpos > 0
  PROVE  /\ Erased \in EndedArray
         /\ Holds(Erased, buflen - 1)
         /\ \A i \in 0 .. buflen - 2 :
              Erased[i] = IF i < bufpos - 1 THEN buf[i] ELSE buf[i + 1]
  <1>1. /\ buf \in [Index -> Chars \cup {Nul}] /\ buf[MaxLine] = Nul
        /\ buflen \in Nat /\ bufpos \in Nat /\ bufpos <= buflen
        /\ MaxLine \in Index /\ Index = 0 .. BufSize - 1
        /\ BufSize \in Nat /\ MaxLine \in Nat /\ buflen <= MaxLine
        /\ \A i \in 0 .. buflen - 1 : buf[i] \in Chars
    BY IndexLemma DEF EditorInv, EndedArray, Array, Index, Holds
  <1> DEFINE a == Erased
  <1>2. a = [i \in Index |-> IF bufpos - 1 <= i /\ i < buflen - 1
                               THEN buf[i + 1] ELSE buf[i]]
    BY <1>1 DEF Erased
  <1> HIDE DEF a
  <1>3. a \in [Index -> Chars \cup {Nul}]
    <2> SUFFICES ASSUME NEW i \in Index PROVE a[i] \in Chars \cup {Nul}
      BY <1>2
    <2>1. CASE i < buflen - 1
      <3>1. i + 1 \in 0 .. buflen - 1
        BY <1>1, <2>1
      <3> QED
        BY <1>1, <1>2, <2>1, <3>1
    <2>2. CASE ~ (i < buflen - 1)
      BY <1>1, <1>2, <2>2
    <2> QED
      BY <2>1, <2>2
  <1>4. a[MaxLine] = Nul
    BY <1>1, <1>2
  <1>5. ASSUME NEW i \in 0 .. buflen - 2
        PROVE  a[i] = IF i < bufpos - 1 THEN buf[i] ELSE buf[i + 1]
    <2>1. i \in Index /\ i < buflen - 1
      BY <1>1
    <2> QED
      BY <1>1, <1>2, <2>1
  <1>6. ASSUME NEW i \in 0 .. buflen - 2 PROVE a[i] \in Chars
    <2>1. i \in 0 .. buflen - 1 /\ i + 1 \in 0 .. buflen - 1
      BY <1>1
    <2> QED
      BY <1>1, <1>5, <2>1
  <1>7. buflen - 1 - 1 = buflen - 2
    BY <1>1
  <1> QED
    BY <1>1, <1>3, <1>4, <1>5, <1>6, <1>7 DEF a, EndedArray, Array, Holds

\* A row of the history cut off at its start.
LEMMA ClearedRowLemma ==
  ASSUME NEW rows \in HistoryRows, NEW r \in 0 .. HistSize - 1
  PROVE  [rows EXCEPT ![r][0] = Nul] \in HistoryRows
  <1> DEFINE a == [rows[r] EXCEPT ![0] = Nul]
  <1>1. rows[r] \in EndedArray /\ 0 \in 0 .. MaxLine
    BY IndexLemma DEF HistoryRows
  <1>2. a \in EndedArray
    BY <1>1, NulLemma
  <1>3. [rows EXCEPT ![r][0] = Nul] = [rows EXCEPT ![r] = a]
    OBVIOUS
  <1> HIDE DEF a
  <1> QED
    BY <1>2, <1>3 DEF HistoryRows

\* Whether Enter stores the line or not, and wherever: the arrays end, and the
\* line in buf is not touched.
LEMMA StoredLemma ==
  ASSUME EditorInv
  PROVE  /\ AfterStore.buf \in EndedArray
         /\ \A i \in 0 .. buflen - 1 : AfterStore.buf[i] = buf[i]
         /\ AfterStore.cnt \in 0 .. HistSize - 1
         /\ AfterStore.rows \in HistoryRows
  <1>1. /\ buf \in EndedArray /\ history \in HistoryRows /\ buflen \in 0 .. MaxLine
        /\ history_cnt \in 0 .. HistSize - 1 /\ HistSize \in Nat /\ HistSize >= 2
    BY ShellAssumption DEF EditorInv, HistoryRows
  <1>2. CASE ~ ToBeStored
    <2>1. /\ AfterStore.buf = buf /\ AfterStore.cnt = history_cnt
          /\ AfterStore.rows = history
      BY <1>2 DEF AfterStore
    <2> QED
      BY <1>1, <2>1
  <1>3. CASE ToBeStored /\ history_cnt < HistSize - 1
    <2> DEFINE line == [buf EXCEPT ![buflen] = Nul]
               row  == strcpy(history[history_cnt], line)
    <2>1. /\ AfterStore.buf = line /\ AfterStore.cnt = history_cnt + 1
          /\ AfterStore.rows = [history EXCEPT ![history_cnt] = row]
      BY <1>3 DEF AfterStore, Stored
    <2>2. line \in EndedArray /\ \A i \in 0 .. buflen - 1 : line[i] = buf[i]
      BY <1>1, NulLemma
    <2> HIDE DEF line
    <2>3. history[history_cnt] \in EndedArray
      BY <1>1 DEF HistoryRows
    <2>4. row \in EndedArray
      BY <2>2, <2>3, StrcpyLemma
    <2> HIDE DEF row
    <2>5. AfterStore.rows \in HistoryRows
      BY <1>1, <2>1, <2>4 DEF HistoryRows
    <2>6. AfterStore.cnt \in 0 .. HistSize - 1
      BY <1>1, <1>3, <2>1
    <2> QED
      BY <2>1, <2>2, <2>5, <2>6
  <1>4. CASE ToBeStored /\ ~ (history_cnt < HistSize - 1)
    <2> DEFINE rows == [r \in 0 .. HistSize - 1 |->
                          IF r < HistSize - 2 THEN history[r + 1]
                          ELSE IF r = HistSize - 2 THEN strcpy(history[r], buf)
                          ELSE history[r]]
    <2>1. /\ AfterStore.buf = buf /\ AfterStore.cnt = history_cnt
          /\ AfterStore.rows = rows
      BY <1>4 DEF AfterStore, Stored
    <2>2. ASSUME NEW r \in 0 .. HistSize - 1 PROVE rows[r] \in EndedArray
      <3>1. history[r] \in EndedArray
        BY <1>1 DEF HistoryRows
      <3>2. strcpy(history[r], buf) \in EndedArray
        BY <1>1, <3>1, StrcpyLemma
      <3>3. CASE r < HistSize - 2
        <4>1. r + 1 \in 0 .. HistSize - 1 /\ rows[r] = history[r + 1]
          BY <1>1, <3>3
        <4> QED
          BY <1>1, <4>1 DEF HistoryRows
      <3>4. CASE ~ (r < HistSize - 2)
        BY <3>1, <3>2, <3>4
      <3> QED
        BY <3>3, <3>4
    <2>3. rows \in HistoryRows
      BY <2>2 DEF HistoryRows
    <2> HIDE DEF rows
    <2> QED
      BY <1>1, <2>1, <2>3
  <1> QED
    BY <1>2, <1>3, <1>4

\* eval ends the line it is given at buflen: its string is the line.
LEMMA TerminatedLemma ==
  ASSUME NEW a \in EndedArray, buflen \in 0 .. MaxLine, Holds(a, buflen)
  PROVE  Terminated(a) \in EndedArray /\ String(Terminated(a)) = Prefix(a, buflen)
  <1> DEFINE t == Terminated(a)
  <1>1. /\ t \in EndedArray /\ t[buflen] = Nul
        /\ \A j \in 0 .. buflen - 1 : t[j] = a[j]
    BY NulLemma DEF Terminated
  <1> HIDE DEF t
  <1>2. Holds(t, buflen)
    BY <1>1 DEF Holds
  <1>3. strlen(t) = buflen
    BY <1>1, <1>2, StrlenIs
  <1>4. ASSUME NEW k \in 1 .. buflen PROVE t[k - 1] = a[k - 1]
    <2>1. k - 1 \in 0 .. buflen - 1
      BY IndexLemma
    <2> QED
      BY <1>1, <2>1
  <1>5. Prefix(t, buflen) = Prefix(a, buflen)
    BY <1>4 DEF Prefix
  <1> QED
    BY <1>1, <1>3, <1>5 DEF t, String

\* Cutting the line at its first space only adds NULs.
LEMMA CutLemma ==
  ASSUME NEW a \in EndedArray
  PROVE  CutAtSpace(a) \in EndedArray
  <1> DEFINE spaces == {i \in 0 .. strlen(a) - 1 : a[i] = Space}
             First(i) == i \in spaces /\ \A j \in spaces : i <= j
  <1>1. CutAtSpace(a) = [i \in Index |-> IF First(i) THEN Nul ELSE a[i]]
    BY DEF CutAtSpace, Index
  <1> HIDE DEF First
  <1>2. a \in [Index -> Chars \cup {Nul}] /\ a[MaxLine] = Nul
    BY DEF EndedArray, Array, Index
  <1>3. CutAtSpace(a) \in [Index -> Chars \cup {Nul}]
    BY <1>1, <1>2
  <1>4. CutAtSpace(a)[MaxLine] = Nul
    BY <1>1, <1>2, IndexLemma
  <1> QED
    BY <1>3, <1>4 DEF EndedArray, Array, Index

\* The row behind the stored ones is overwritten by an array that ends.
LEMMA ScratchLemma ==
  ASSUME EditorInv
  PROVE  Scratch(AfterStore) \in HistoryRows
  <1> DEFINE s   == AfterStore
             row == strcpy(s.rows[s.cnt], s.buf)
  <1>1. /\ s.buf \in EndedArray /\ s.cnt \in 0 .. HistSize - 1
        /\ s.rows \in HistoryRows
    BY StoredLemma
  <1>2. s.rows[s.cnt] \in EndedArray
    BY <1>1 DEF HistoryRows
  <1>3. row \in EndedArray
    BY <1>1, <1>2, StrcpyLemma
  <1>4. Scratch(s) = IF history_idx # s.cnt - 1
                       THEN [s.rows EXCEPT ![s.cnt] = row] ELSE s.rows
    BY DEF Scratch
  <1> HIDE DEF s, row
  <1>5. [s.rows EXCEPT ![s.cnt] = row] \in HistoryRows
    BY <1>1, <1>3 DEF HistoryRows
  <1>6. Scratch(s) \in HistoryRows
    BY <1>1, <1>4, <1>5
  <1> QED
    BY <1>6 DEF s

\* What Enter does to the editor, with an empty line and with one to execute.
LEMMA EnterLemma ==
  ASSUME EditorInv, Enter
  PROVE  /\ buf' \in EndedArray /\ history' \in HistoryRows
         /\ history_cnt' \in 0 .. HistSize - 1 /\ history_idx' = -1
         /\ buflen' = 0 /\ bufpos' = 0 /\ keys' \in 0 .. MaxKeys
         /\ executed' = IF buflen = 0 THEN executed ELSE Text
  <1> DEFINE s == AfterStore
             t == Terminated(s.buf)
  <1>1. /\ s.buf \in EndedArray /\ s.cnt \in 0 .. HistSize - 1
        /\ s.rows \in HistoryRows
        /\ \A i \in 0 .. buflen - 1 : s.buf[i] = buf[i]
    BY StoredLemma
  <1>2. Scratch(s) \in HistoryRows
    BY ScratchLemma
  <1>3. /\ history_cnt' = s.cnt /\ history_idx' = -1
        /\ buflen' = 0 /\ bufpos' = 0
        /\ buflen = 0 => /\ buf' = s.buf
                         /\ history' = [s.rows EXCEPT ![s.cnt][0] = Nul]
                         /\ executed' = executed
        /\ buflen # 0 => /\ buf' = CutAtSpace(t)
                         /\ history' = [Scratch(s) EXCEPT ![s.cnt][0] = Nul]
                         /\ executed' = String(t)
    BY DEF Enter
  <1>4. keys' \in 0 .. MaxKeys
    <2>1. Key /\ keys \in 0 .. MaxKeys /\ MaxKeys \in Nat
      BY ShellAssumption DEF Enter, EditorInv
    <2> QED
      BY <2>1 DEF Key
  <1>5. Holds(s.buf, buflen) /\ buflen \in 0 .. MaxLine
    BY <1>1 DEF Holds, EditorInv
  <1>6. t \in EndedArray /\ String(t) = Prefix(s.buf, buflen)
    BY <1>1, <1>5, TerminatedLemma
  <1>7. ASSUME NEW k \in 1 .. buflen PROVE s.buf[k - 1] = buf[k - 1]
    <2>1. k - 1 \in 0 .. buflen - 1
      BY <1>5, IndexLemma
    <2> QED
      BY <1>1, <2>1
  <1>8. Prefix(s.buf, buflen) = Text
    BY <1>7 DEF Prefix, Text
  <1> HIDE DEF s, t
  <1>9. CutAtSpace(t) \in EndedArray
    BY <1>6, CutLemma
  <1>10. /\ [s.rows EXCEPT ![s.cnt][0] = Nul] \in HistoryRows
         /\ [Scratch(s) EXCEPT ![s.cnt][0] = Nul] \in HistoryRows
    BY <1>1, <1>2, ClearedRowLemma
  <1>11. CASE buflen = 0
    BY <1>1, <1>3, <1>4, <1>10, <1>11
  <1>12. CASE buflen # 0
    BY <1>1, <1>3, <1>4, <1>6, <1>8, <1>9, <1>10, <1>12
  <1> QED
    BY <1>11, <1>12

\* The line that Up or Down recalls from row idx.
LEMMA RecallLemma ==
  ASSUME EditorInv, NEW rows \in HistoryRows, NEW idx \in 0 .. HistSize - 1,
         Recall(rows, idx)
  PROVE  /\ buf' \in EndedArray
         /\ buflen' \in 0 .. MaxLine /\ bufpos' = buflen'
         /\ Holds(buf', buflen')
  <1> DEFINE a == rows[idx]
             n == strlen(a)
  <1>1. a \in EndedArray /\ buf \in EndedArray
    BY DEF HistoryRows, EditorInv
  <1>2. buflen' = n /\ bufpos' = n /\ buf' = memcpy(buf, a, n)
    BY DEF Recall
  <1> HIDE DEF a
  <1>3. n \in 0 .. MaxLine /\ Holds(a, n)
    BY <1>1, StrlenLemma
  <1> HIDE DEF n
  <1>4. /\ memcpy(buf, a, n) \in EndedArray
        /\ \A i \in 0 .. n - 1 : memcpy(buf, a, n)[i] = a[i]
    BY <1>1, <1>3, MemcpyLemma
  <1>5. Holds(memcpy(buf, a, n), n)
    BY <1>3, <1>4 DEF Holds
  <1> QED
    BY <1>2, <1>3, <1>4, <1>5

\* Up saves the line it leaves behind the stored ones.
LEMMA UpLemma ==
  ASSUME EditorInv, Up
  PROVE  /\ history' \in HistoryRows
         /\ history_idx' \in 0 .. history_cnt - 1
         /\ Recall(history', history_idx')
  <1> DEFINE row == memcpy(history[history_cnt], buf, buflen)
  <1>1. /\ buf \in EndedArray /\ buflen \in 0 .. MaxLine /\ history \in HistoryRows
        /\ history_cnt \in 0 .. HistSize - 1 /\ history_cnt > 0
        /\ history_idx \in -1 .. history_cnt - 1 /\ HistSize \in Nat
    BY ShellAssumption DEF EditorInv, Up
  <1>2. history[history_cnt] \in EndedArray
    BY <1>1 DEF HistoryRows
  <1>3. row \in EndedArray
    BY <1>1, <1>2, MemcpyLemma
  <1>4. CASE history_idx = -1
    <2>1. /\ history' = [history EXCEPT ![history_cnt] = row]
          /\ history_idx' = history_cnt - 1 /\ Recall(history', history_idx')
      BY <1>4 DEF Up
    <2> HIDE DEF row
    <2>2. history' \in HistoryRows
      BY <1>1, <1>3, <2>1 DEF HistoryRows
    <2>3. history_idx' \in 0 .. history_cnt - 1
      BY <1>1, <2>1
    <2> QED
      BY <2>1, <2>2, <2>3
  <1>5. CASE history_idx # -1
    <2>1. /\ history' = history
          /\ history_idx' = IF history_idx > 0 THEN history_idx - 1 ELSE 0
          /\ Recall(history', history_idx')
      BY <1>5 DEF Up
    <2>2. history_idx' \in 0 .. history_cnt - 1
      BY <1>1, <1>5, <2>1
    <2> QED
      BY <1>1, <2>1, <2>2
  <1> QED
    BY <1>4, <1>5

----------------------------------------------------------------------------
(* The inductive invariant *)

\* At first every array is all NULs.
LEMMA EditorInit == Init => EditorInv
  <1> SUFFICES ASSUME Init PROVE EditorInv
    OBVIOUS
  <1>1. Zeroed \in EndedArray
    <2>1. Zeroed = [i \in Index |-> Nul]
      BY DEF Zeroed, Index
    <2>2. Zeroed \in [Index -> Chars \cup {Nul}] /\ Zeroed[MaxLine] = Nul
      BY <2>1, IndexLemma
    <2> QED
      BY <2>2 DEF EndedArray, Array, Index
  <1>2. history \in HistoryRows
    BY <1>1 DEF Init, HistoryRows
  <1>3. Holds(buf, buflen)
    BY DEF Holds, Init
  <1>4. executed \in Seq(Chars)
    BY EmptySeq DEF Init
  <1> QED
    BY <1>1, <1>2, <1>3, <1>4, ShellAssumption DEF Init, EditorInv

\* Every keystroke keeps the invariant.
LEMMA EditorStep == EditorInv /\ [Next]_vars => EditorInv'
  <1> SUFFICES ASSUME EditorInv, [Next]_vars PROVE EditorInv'
    OBVIOUS
  <1>1. /\ buf \in EndedArray /\ history \in HistoryRows
        /\ buflen \in 0 .. MaxLine /\ bufpos \in 0 .. buflen /\ MaxLine \in Nat
        /\ Holds(buf, buflen)
        /\ history_cnt \in 0 .. HistSize - 1 /\ HistSize \in Nat
        /\ history_idx \in -1 .. history_cnt - 1 /\ executed \in Seq(Chars)
        /\ keys \in 0 .. MaxKeys
    BY ShellAssumption DEF EditorInv
  <1>2. Key => keys' \in 0 .. MaxKeys
    BY <1>1, ShellAssumption DEF Key
  <1>3. ASSUME NEW c \in Chars, Type(c) PROVE EditorInv'
    <2>1. /\ buf' = Inserted(c) /\ buflen' = buflen + 1 /\ bufpos' = bufpos + 1
          /\ buflen < MaxLine /\ Key
      BY <1>3 DEF Type
    <2>2. buf' \in EndedArray /\ Holds(buf', buflen')
      BY <2>1, InsertedLemma
    <2>3. buflen' \in 0 .. MaxLine /\ bufpos' \in 0 .. buflen'
      BY <1>1, <2>1
    <2>4. UNCHANGED <<history, history_cnt, history_idx, executed>>
      BY <1>3 DEF Type, historyVars
    <2> QED
      BY <1>1, <1>2, <2>1, <2>2, <2>3, <2>4
      DEF EditorInv, HistoryRows, EndedArray, Array, Holds
  <1>4. CASE Backspace
    <2>1. /\ buf' = Erased /\ buflen' = buflen - 1 /\ bufpos' = bufpos - 1
          /\ bufpos > 0 /\ Key
      BY <1>4 DEF Backspace
    <2>2. buf' \in EndedArray /\ Holds(buf', buflen')
      BY <2>1, ErasedLemma
    <2>3. buflen' \in 0 .. MaxLine /\ bufpos' \in 0 .. buflen'
      BY <1>1, <2>1
    <2>4. UNCHANGED <<history, history_cnt, history_idx, executed>>
      BY <1>4 DEF Backspace, historyVars
    <2> QED
      BY <1>1, <1>2, <2>1, <2>2, <2>3, <2>4
      DEF EditorInv, HistoryRows, EndedArray, Array, Holds
  <1>5. CASE Left \/ Right
    <2>1. /\ bufpos' \in 0 .. buflen /\ Key
          /\ UNCHANGED <<buf, buflen, history, history_cnt, history_idx, executed>>
      BY <1>1, <1>5 DEF Left, Right, historyVars
    <2> QED
      BY <1>1, <1>2, <2>1 DEF EditorInv, HistoryRows, EndedArray, Array, Holds
  <1>6. CASE Enter
    <2>1. /\ buf' \in EndedArray /\ history' \in HistoryRows
          /\ history_cnt' \in 0 .. HistSize - 1 /\ history_idx' = -1
          /\ buflen' = 0 /\ bufpos' = 0 /\ keys' \in 0 .. MaxKeys
      BY <1>6, EnterLemma
    <2>2. executed' = executed \/ executed' = Text
      BY <1>6, EnterLemma
    <2>3. Text \in Seq(Chars)
      BY <1>1, PrefixLemma DEF Text, EndedArray
    <2>4. history_idx' \in -1 .. history_cnt' - 1
      <3>1. history_cnt' \in Nat /\ history_idx' = -1
        BY <1>1, <2>1
      <3>2. \A n \in Nat : -1 \in -1 .. n - 1
        OBVIOUS
      <3> QED
        BY <3>1, <3>2
    <2>5. Holds(buf', buflen')
      BY <2>1 DEF Holds
    <2>6. executed' \in Seq(Chars)
      BY <1>1, <2>2, <2>3
    <2>7. buflen' \in 0 .. MaxLine /\ bufpos' \in 0 .. buflen'
      BY <1>1, <2>1
    <2> QED
      BY <2>1, <2>4, <2>5, <2>6, <2>7
      DEF EditorInv, HistoryRows, EndedArray, Array, Holds
  <1>7. CASE Up
    <2>1. /\ history' \in HistoryRows /\ history_idx' \in 0 .. history_cnt - 1
          /\ Recall(history', history_idx')
      BY <1>7, UpLemma
    <2>2. history_idx' \in 0 .. HistSize - 1
      BY <1>1, <2>1
    <2>3. /\ buf' \in EndedArray /\ buflen' \in 0 .. MaxLine /\ bufpos' = buflen'
          /\ Holds(buf', buflen')
      BY <2>1, <2>2, RecallLemma
    <2>4. UNCHANGED <<history_cnt, executed>> /\ Key
      BY <1>7 DEF Up
    <2>5. bufpos' \in 0 .. buflen' /\ history_idx' \in -1 .. history_cnt' - 1
      BY <1>1, <2>1, <2>3, <2>4
    <2> QED
      BY <1>1, <1>2, <2>1, <2>3, <2>4, <2>5
      DEF EditorInv, HistoryRows, EndedArray, Array, Holds
  <1>8. CASE Down
    <2>1. /\ history_idx # -1 /\ Key /\ Recall(history, history_idx + 1)
          /\ UNCHANGED <<history, history_cnt, executed>>
          /\ history_idx' = IF history_idx = history_cnt - 1 THEN -1
                                                             ELSE history_idx + 1
      BY <1>8 DEF Down
    <2>2. history_idx + 1 \in 0 .. HistSize - 1
      BY <1>1, <2>1
    <2>3. /\ buf' \in EndedArray /\ buflen' \in 0 .. MaxLine /\ bufpos' = buflen'
          /\ Holds(buf', buflen')
      BY <1>1, <2>1, <2>2, RecallLemma
    <2>4. bufpos' \in 0 .. buflen' /\ history_idx' \in -1 .. history_cnt' - 1
      BY <1>1, <2>1, <2>3
    <2> QED
      BY <1>1, <1>2, <2>1, <2>3, <2>4
      DEF EditorInv, HistoryRows, EndedArray, Array, Holds
  <1>9. CASE UNCHANGED vars
    BY <1>1, <1>9 DEF vars, EditorInv, HistoryRows, EndedArray, Array, Holds
  <1> QED
    BY <1>3, <1>4, <1>5, <1>6, <1>7, <1>8, <1>9 DEF Next

\* So the invariant holds for ever.
LEMMA EditorInvariant == Spec => []EditorInv
  <1> QED
    BY EditorInit, EditorStep, PTL DEF Spec

----------------------------------------------------------------------------
(* The theorems *)

\* Whatever keys are pressed: the arrays hold what they are declared for, the
\* line in buf consists of characters, the cursor stays in it, and the history
\* and every index into it stay within their arrays.
THEOREM LineCorrect == Spec => []LineOK
  <1>1. EditorInv => LineOK
    <2> SUFFICES ASSUME EditorInv PROVE LineOK
      OBVIOUS
    <2>1. buf \in Array /\ buflen \in 0 .. MaxLine /\ Holds(buf, buflen)
      BY DEF EditorInv, EndedArray
    <2>2. Text \in Seq(Chars)
      BY <2>1, PrefixLemma DEF Text
    <2>3. history \in [0 .. HistSize - 1 -> Array]
      BY DEF EditorInv, HistoryRows, EndedArray
    <2> QED
      BY <2>1, <2>2, <2>3 DEF EditorInv, LineOK
  <1> QED
    BY <1>1, EditorInvariant, PTL

\* Enter executes the line that was edited, whatever is left in buf behind it
\* and wherever the line is stored.
THEOREM Executes == Spec => ExecutesLine
  <1>1. EditorInv /\ [Next]_vars => [Enter /\ buflen > 0 => executed' = Text]_vars
    BY EnterLemma DEF EditorInv
  <1> QED
    BY <1>1, EditorInvariant, PTL DEF Spec, ExecutesLine

----------------------------------------------------------------------------
(* The refinement *)

\* InsertAt, element by element.
LEMMA InsertAtLemma ==
  ASSUME NEW S, NEW s \in Seq(S), NEW i \in 1 .. Len(s) + 1, NEW e \in S
  PROVE  LET t == InsertAt(s, i, e)
         IN  /\ t \in Seq(S)
             /\ Len(t) = Len(s) + 1
             /\ \A k \in 1 .. Len(s) + 1 :
                  t[k] = IF k < i THEN s[k] ELSE IF k = i THEN e ELSE s[k - 1]
  <1> DEFINE a == SubSeq(s, 1, i - 1)
             m == <<e>>
             c == SubSeq(s, i, Len(s))
             t == a \o m \o c
  <1>1. Len(s) \in Nat /\ i \in Nat /\ i >= 1 /\ i <= Len(s) + 1
    BY LenProperties
  <1>2. a \in Seq(S) /\ Len(a) = i - 1 /\ \A k \in 1 .. i - 1 : a[k] = s[k]
    BY FrontLemma
  <1>3. /\ c \in Seq(S) /\ Len(c) = Len(s) + 1 - i
        /\ \A k \in 1 .. Len(s) + 1 - i : c[k] = s[i + k - 1]
    BY RestLemma
  <1>4. m \in Seq(S) /\ Len(m) = 1 /\ m[1] = e
    OBVIOUS
  <1>5. InsertAt(s, i, e) = t
    BY DEF InsertAt
  <1> HIDE DEF a, m, c
  <1>6. /\ t \in Seq(S)
        /\ Len(t) = Len(a) + Len(m) + Len(c)
        /\ \A k \in 1 .. Len(a) : t[k] = a[k]
        /\ \A k \in 1 .. Len(m) : t[Len(a) + k] = m[k]
        /\ \A k \in 1 .. Len(c) : t[Len(a) + Len(m) + k] = c[k]
    <2>1. a \in Seq(S) /\ m \in Seq(S) /\ c \in Seq(S)
      BY <1>2, <1>3, <1>4
    <2>2. Splices(S, t, a, m, c)
      BY <2>1, SpliceLemma, Zenon DEF t
    <2> QED
      BY <2>2 DEF Splices
  <1> HIDE DEF t
  <1>7. Len(t) = Len(s) + 1
    BY <1>1, <1>2, <1>3, <1>4, <1>6
  <1>8. ASSUME NEW k \in 1 .. Len(s) + 1
        PROVE  t[k] = IF k < i THEN s[k] ELSE IF k = i THEN e ELSE s[k - 1]
    <2>1. CASE k < i
      <3>1. k \in 1 .. i - 1 /\ k \in 1 .. Len(a)
        BY <1>1, <1>2, <2>1
      <3> QED
        BY <1>2, <1>6, <2>1, <3>1
    <2>2. CASE k = i
      <3>1. 1 \in 1 .. Len(m) /\ Len(a) + 1 = k
        BY <1>1, <1>2, <1>4, <2>2
      <3> QED
        BY <1>4, <1>6, <2>2, <3>1
    <2>3. CASE k > i
      <3> DEFINE j == k - i
      <3>1. /\ j \in 1 .. Len(s) + 1 - i /\ j \in 1 .. Len(c)
            /\ Len(a) + Len(m) + j = k /\ i + j - 1 = k - 1
        BY <1>1, <1>2, <1>3, <1>4, <2>3
      <3> HIDE DEF j
      <3>2. t[Len(a) + Len(m) + j] = c[j] /\ c[j] = s[i + j - 1]
        BY <1>3, <1>6, <3>1
      <3> QED
        BY <1>1, <2>3, <3>1, <3>2
    <2> QED
      BY <1>1, <2>1, <2>2, <2>3
  <1> QED
    BY <1>5, <1>6, <1>7, <1>8

\* RemoveAt, element by element.
LEMMA RemoveAtLemma ==
  ASSUME NEW S, NEW s \in Seq(S), NEW i \in 1 .. Len(s)
  PROVE  LET t == RemoveAt(s, i)
         IN  /\ t \in Seq(S)
             /\ Len(t) = Len(s) - 1
             /\ \A k \in 1 .. Len(s) - 1 : t[k] = IF k < i THEN s[k] ELSE s[k + 1]
  <1> DEFINE a == SubSeq(s, 1, i - 1)
             c == SubSeq(s, i + 1, Len(s))
             t == a \o c
  <1>1. /\ Len(s) \in Nat /\ i \in Nat /\ i >= 1 /\ i <= Len(s)
        /\ i \in 1 .. Len(s) + 1 /\ i + 1 \in 1 .. Len(s) + 1
    BY LenProperties
  <1>2. a \in Seq(S) /\ Len(a) = i - 1 /\ \A k \in 1 .. i - 1 : a[k] = s[k]
    BY <1>1, FrontLemma
  <1>3. /\ c \in Seq(S) /\ Len(c) = Len(s) + 1 - (i + 1)
        /\ \A k \in 1 .. Len(s) + 1 - (i + 1) : c[k] = s[i + 1 + k - 1]
    BY <1>1, RestLemma
  <1>4. RemoveAt(s, i) = t
    BY DEF RemoveAt
  <1> HIDE DEF a, c
  <1>5. /\ t \in Seq(S)
        /\ Len(t) = Len(a) + Len(c)
        /\ \A k \in 1 .. Len(a) + Len(c) :
             t[k] = IF k <= Len(a) THEN a[k] ELSE c[k - Len(a)]
    BY <1>2, <1>3, ConcatProperties
  <1> HIDE DEF t
  <1>6. Len(t) = Len(s) - 1
    BY <1>1, <1>2, <1>3, <1>5
  <1>7. ASSUME NEW k \in 1 .. Len(s) - 1
        PROVE  t[k] = IF k < i THEN s[k] ELSE s[k + 1]
    <2>1. k \in 1 .. Len(a) + Len(c)
      BY <1>1, <1>2, <1>3
    <2>2. CASE k < i
      <3>1. k \in 1 .. i - 1 /\ k <= Len(a)
        BY <1>1, <1>2, <2>2
      <3> QED
        BY <1>2, <1>5, <2>1, <2>2, <3>1
    <2>3. CASE ~ (k < i)
      <3> DEFINE j == k - Len(a)
      <3>1. /\ j \in 1 .. Len(s) + 1 - (i + 1) /\ ~ (k <= Len(a))
            /\ i + 1 + j - 1 = k + 1
        BY <1>1, <1>2, <2>3
      <3>2. t[k] = c[j]
        BY <1>5, <2>1, <3>1
      <3> HIDE DEF j
      <3> QED
        BY <1>3, <2>3, <3>1, <3>2
    <2> QED
      BY <2>2, <2>3
  <1> QED
    BY <1>4, <1>5, <1>6, <1>7

\* The empty line, and the cursor in it.
LEMMA RefinesInit == Init => Editor!Init
  <1> SUFFICES ASSUME Init PROVE Editor!Init
    OBVIOUS
  <1>1. EditorInv /\ buflen = 0 /\ bufpos = 0
    BY EditorInit DEF Init
  <1>2. Text \in Seq(Chars) /\ Len(Text) = 0
    BY <1>1, PrefixLemma DEF Text, EditorInv, EndedArray
  <1>3. Text = <<>>
    BY <1>2, EmptySeq
  <1> QED
    BY <1>1, <1>3 DEF Editor!Init

\* PrefixLemma for the line of a state, and for that of the next.
LEMMA TextLemma ==
  EditorInv => /\ Text \in Seq(Chars)
               /\ Len(Text) = buflen
               /\ \A k \in 1 .. buflen : Text[k] = buf[k - 1]
  BY PrefixLemma DEF Text, EditorInv, EndedArray

LEMMA TextNext ==
  (EditorInv => /\ Text \in Seq(Chars)
                /\ Len(Text) = buflen
                /\ \A k \in 1 .. buflen : Text[k] = buf[k - 1])'
  <1>1. EditorInv => /\ Text \in Seq(Chars)
                     /\ Len(Text) = buflen
                     /\ \A k \in 1 .. buflen : Text[k] = buf[k - 1]
    BY TextLemma
  <1> QED
    BY <1>1, PTL

\* Every keystroke is a step of the abstract editor: a character typed an
\* Insert, Backspace an Erase, the arrows left and right a Move, Enter, Up and
\* Down a Replace.
LEMMA RefinesNext ==
  EditorInv /\ EditorInv' /\ [Next]_vars => [Editor!Next]_<<Text, bufpos>>
  <1> SUFFICES ASSUME EditorInv, EditorInv', [Next]_vars
               PROVE  Editor!Next \/ UNCHANGED <<Text, bufpos>>
    OBVIOUS
  <1>1. /\ Text \in Seq(Chars) /\ Len(Text) = buflen
        /\ \A k \in 1 .. buflen : Text[k] = buf[k - 1]
    BY TextLemma
  <1>2. /\ Text' \in Seq(Chars) /\ Len(Text') = buflen'
        /\ \A k \in 1 .. buflen' : Text'[k] = buf'[k - 1]
    BY TextNext
  <1>3. buflen \in Nat /\ bufpos \in 0 .. buflen
    BY DEF EditorInv
  <1>4. ASSUME NEW c \in Chars, Type(c) PROVE Editor!Insert
    <2> DEFINE t == InsertAt(Text, bufpos + 1, c)
    <2>1. /\ buf' = Inserted(c) /\ buflen' = buflen + 1 /\ bufpos' = bufpos + 1
          /\ buflen < MaxLine
      BY <1>4 DEF Type
    <2>2. bufpos + 1 \in 1 .. Len(Text) + 1
      BY <1>1, <1>3
    <2>3. /\ t \in Seq(Chars) /\ Len(t) = buflen + 1
          /\ \A k \in 1 .. buflen + 1 :
               t[k] = IF k < bufpos + 1 THEN Text[k]
                      ELSE IF k = bufpos + 1 THEN c ELSE Text[k - 1]
      <3> DEFINE s == Text
                 i == bufpos + 1
      <3>1. s \in Seq(Chars) /\ i \in 1 .. Len(s) + 1 /\ t = InsertAt(s, i, c)
        BY <1>1, <2>2
      <3> HIDE DEF s, i, t
      <3>2. /\ t \in Seq(Chars) /\ Len(t) = Len(s) + 1
            /\ \A k \in 1 .. Len(s) + 1 :
                 t[k] = IF k < i THEN s[k] ELSE IF k = i THEN c ELSE s[k - 1]
        <4>1. /\ InsertAt(s, i, c) \in Seq(Chars)
              /\ Len(InsertAt(s, i, c)) = Len(s) + 1
              /\ \A k \in 1 .. Len(s) + 1 :
                   InsertAt(s, i, c)[k] =
                     IF k < i THEN s[k] ELSE IF k = i THEN c ELSE s[k - 1]
          BY <3>1, InsertAtLemma, SMTT(30)
        <4> QED
          BY <3>1, <4>1
      <3> QED
        BY <1>1, <3>2 DEF s, i
    <2>7. t = Editor!InsertAt(Text, bufpos + 1, c)
      BY DEF InsertAt, Editor!InsertAt
    <2> HIDE DEF t
    <2>4. \A i \in 0 .. buflen :
            buf'[i] = IF i < bufpos THEN buf[i]
                      ELSE IF i = bufpos THEN c ELSE buf[i - 1]
      BY <2>1, InsertedLemma
    <2>5. ASSUME NEW k \in 1 .. buflen + 1 PROVE Text'[k] = t[k]
      <3>1. /\ k - 1 \in 0 .. buflen
            /\ k < bufpos + 1 <=> k - 1 < bufpos
            /\ k = bufpos + 1 <=> k - 1 = bufpos
        BY <1>3
      <3>2. Text'[k] = IF k < bufpos + 1 THEN buf[k - 1]
                       ELSE IF k = bufpos + 1 THEN c ELSE buf[k - 1 - 1]
        BY <1>2, <2>1, <2>4, <3>1
      <3>3. k < bufpos + 1 => Text[k] = buf[k - 1]
        <4> SUFFICES ASSUME k < bufpos + 1 PROVE Text[k] = buf[k - 1]
          OBVIOUS
        <4>1. k \in 1 .. buflen
          BY <1>3
        <4> QED
          BY <1>1, <4>1
      <3>4. k > bufpos + 1 => Text[k - 1] = buf[k - 1 - 1]
        <4> SUFFICES ASSUME k > bufpos + 1 PROVE Text[k - 1] = buf[k - 1 - 1]
          OBVIOUS
        <4>1. k - 1 \in 1 .. buflen
          BY <1>3
        <4> QED
          BY <1>1, <4>1
      <3> QED
        BY <1>3, <2>3, <3>2, <3>3, <3>4
    <2>6. Text' = t
      BY <1>2, <2>1, <2>3, <2>5, SeqEqual
    <2> QED
      BY <2>1, <2>6, <2>7 DEF Editor!Insert
  <1>5. ASSUME Backspace PROVE Editor!Erase
    <2> DEFINE t == RemoveAt(Text, bufpos)
    <2>1. /\ buf' = Erased /\ buflen' = buflen - 1 /\ bufpos' = bufpos - 1
          /\ bufpos > 0
      BY <1>5 DEF Backspace
    <2>2. bufpos \in 1 .. Len(Text)
      BY <1>1, <1>3, <2>1
    <2>3. /\ t \in Seq(Chars) /\ Len(t) = buflen - 1
          /\ \A k \in 1 .. buflen - 1 :
               t[k] = IF k < bufpos THEN Text[k] ELSE Text[k + 1]
      BY <1>1, <2>2, RemoveAtLemma
    <2>7. t = Editor!RemoveAt(Text, bufpos)
      BY DEF RemoveAt, Editor!RemoveAt
    <2> HIDE DEF t
    <2>4. \A i \in 0 .. buflen - 2 :
            buf'[i] = IF i < bufpos - 1 THEN buf[i] ELSE buf[i + 1]
      BY <2>1, ErasedLemma
    <2>5. ASSUME NEW k \in 1 .. buflen - 1 PROVE Text'[k] = t[k]
      <3>1. /\ k - 1 \in 0 .. buflen - 2 /\ k \in 1 .. buflen
            /\ k + 1 \in 1 .. buflen /\ k + 1 - 1 = k /\ k - 1 + 1 = k
            /\ k < bufpos <=> k - 1 < bufpos - 1
        BY <1>3
      <3>2. Text'[k] = IF k < bufpos THEN buf[k - 1] ELSE buf[k]
        BY <1>2, <2>1, <2>4, <3>1
      <3>3. Text[k] = buf[k - 1] /\ Text[k + 1] = buf[k]
        BY <1>1, <3>1
      <3> QED
        BY <2>3, <3>2, <3>3
    <2>6. Text' = t
      BY <1>2, <2>1, <2>3, <2>5, SeqEqual
    <2> QED
      BY <2>1, <2>6, <2>7 DEF Editor!Erase
  <1>6. ASSUME Left \/ Right PROVE Editor!Move
    <2>1. buf' = buf /\ buflen' = buflen
      BY <1>6 DEF Left, Right
    <2>2. Text' = Text
      BY <2>1 DEF Text
    <2>3. bufpos' \in {bufpos - 1, bufpos + 1} /\ bufpos' \in 0 .. Len(Text)
      BY <1>1, <1>3, <1>6 DEF Left, Right
    <2> QED
      BY <2>2, <2>3 DEF Editor!Move
  <1>7. ASSUME Enter \/ Up \/ Down PROVE Editor!Replace
    <2>1. bufpos' = buflen'
      BY <1>7 DEF Enter, Up, Down, Recall
    <2> QED
      BY <1>2, <2>1 DEF Editor!Replace
  <1>8. CASE UNCHANGED vars
    BY <1>8 DEF vars, Text
  <1> QED
    BY <1>4, <1>5, <1>6, <1>7, <1>8 DEF Next, Editor!Next

\* The buffer, with its insertions and deletions in the middle of a line and
\* its recalled lines of other lengths, implements the abstract line editor.
THEOREM Implements == Spec => ImplementsLineEdit
  <1> QED
    BY RefinesInit, RefinesNext, EditorInvariant, PTL
    DEF Spec, ImplementsLineEdit, Editor!Spec

----------------------------------------------------------------------------
(* tty_lock: for any text, screen and buffer *)

\* Who can hold tty_lock, and that its holder is not interrupted.  NeverStuck
\* alone is not inductive: a handler may start while the lock is taken unless
\* the interrupts are off for as long as it is.
Holder ==
  /\ lock => running \in {"writing", "panic"}
  /\ running = "writing" => ~ irq
  /\ running # "handler inside"

LEMMA HolderInit == TtyInit => Holder
BY DEF TtyInit, Holder

LEMMA HolderStep == Holder /\ [TtyNext]_ttyVars => Holder'
<1> SUFFICES ASSUME Holder, [TtyNext]_ttyVars PROVE Holder'
  OBVIOUS
<1>1. CASE tty_putchar
  BY <1>1 DEF tty_putchar, Call, SavedIrq, Holder
<1>2. CASE tty_puts
  BY <1>2 DEF tty_puts, Call, SavedIrq, Holder
<1>3. CASE Finish
  BY <1>3 DEF Finish, Holder
<1>4. CASE Interrupt
  BY <1>4 DEF Interrupt, Holder
<1>5. CASE Log
  BY <1>5 DEF Log, Holder
<1>6. CASE Fault
  BY <1>6 DEF Fault, Holder
<1>7. CASE PanicUnlocks
  BY <1>7 DEF PanicUnlocks, tty_panic_unlock, Holder
<1>8. CASE PanicPrints
  BY <1>8 DEF PanicPrints, Holder
<1>9. CASE Rest \/ UNCHANGED ttyVars
  <2>1. UNCHANGED ttyVars
    BY <1>9 DEF Rest
  <2>2. UNCHANGED <<lock, irq, running>>
    BY <2>1 DEF ttyVars
  <2> QED
    BY <2>2 DEF Holder
<1> QED
  BY <1>1, <1>2, <1>3, <1>4, <1>5, <1>6, <1>7, <1>8, <1>9 DEF TtyNext

\* A handler or a panic that wants to print finds tty_lock free: a call that
\* holds it (tty_putchar, tty_write) cannot be interrupted, and _panic breaks
\* the lock that the call it comes from may hold.
THEOREM LockFree == TtySpec => []NeverStuck
<1>1. Holder => NeverStuck
  BY DEF Holder, NeverStuck
<1> QED
  BY <1>1, HolderInit, HolderStep, PTL DEF TtySpec

----------------------------------------------------------------------------
(* What a terminal shows *)

\* What may be in a cell.
Glyphs == Chars \cup {Prompt, Output, Blank}

Terminals == [cell : [Rows -> [Cols -> Glyphs]], used : [Rows -> 0 .. Width],
              row : Rows, col : Cols]

\* Behind the used cells of a row there are only blanks: a scroll, which does
\* not copy them, moves every row all the same.
Tidy(t) == \A y \in Rows, x \in Cols : t.used[y] <= x => t.cell[y][x] = Blank

\* The number of a cell, counted row by row.
Place(y, x) == y * Width + x

\* The rows from y on are blank.
BlankFrom(t, y) == \A i \in Rows, x \in Cols : y <= i => t.cell[i][x] = Blank

\* From the start of row r on, t shows the n characters of g and then blanks,
\* and the cursor is on character c of them, or behind the last.
Texts == [Nat -> Glyphs]
Shows(t, r, g, n, c) ==
  /\ t \in Terminals /\ Tidy(t)
  /\ r \in Rows /\ n \in Nat /\ c \in 0 .. n
  /\ Place(r, 0) + n < Place(Height, 0)
  /\ Place(t.row, t.col) = Place(r, 0) + c
  /\ g \in Texts /\ \A k \in Nat : n <= k => g[k] = Blank
  /\ \A y \in Rows, x \in Cols :
       r <= y => t.cell[y][x] = g[Place(y, x) - Place(r, 0)]

NoText == [k \in Nat |-> Blank]

\* The numbers of the cells are in the order of rows and columns.
LEMMA PlaceLemma ==
  /\ \A y, x \in Int : Place(y, x) \in Int /\ Place(y, x) = Place(y, 0) + x
  /\ \A y \in Int : Place(y + 1, 0) = Place(y, 0) + Width
  /\ \A y, z \in Int : \A x, u \in Cols : y < z => Place(y, x) < Place(z, u)
  /\ Place(0, 0) = 0
  <1>1. Width \in Nat \ {0}
    BY SizeAssumption
  <1>2. \A y, x \in Int : Place(y, x) \in Int /\ Place(y, x) = Place(y, 0) + x
    BY <1>1 DEF Place
  <1>3. \A y \in Int : Place(y + 1, 0) = Place(y, 0) + Width
    BY <1>1 DEF Place
  <1>4. ASSUME NEW y \in Int, NEW z \in Int, NEW x \in Cols, NEW u \in Cols, y < z
       PROVE  Place(y, x) < Place(z, u)
    <2>1. y * Width + Width <= z * Width
      BY <1>1, <1>4, Monotone
    <2>2. x < Width /\ u >= 0 /\ x \in Int /\ u \in Int
      BY <1>1 DEF Cols
    <2>3. y * Width \in Int /\ z * Width \in Int
      BY <1>1
    <2> QED
      BY <1>1, <2>1, <2>2, <2>3 DEF Place
  <1>5. Place(0, 0) = 0
    BY <1>1 DEF Place
  <1> QED
    BY <1>2, <1>3, <1>4, <1>5

\* The size of the terminal.
LEMMA SizeLemma ==
  /\ Width \in Nat /\ Width >= 1 /\ Height \in Nat /\ Height >= 1
  /\ \A y : y \in Rows <=> y \in Int /\ 0 <= y /\ y < Height
  /\ \A x : x \in Cols <=> x \in Int /\ 0 <= x /\ x < Width
  /\ Place(Height, 0) = Width * Height
  BY SizeAssumption DEF Rows, Cols, Place

\* A cell of a row from r on has a number from that of the row's start on.
LEMMA CellLemma ==
  ASSUME NEW r \in Rows, NEW y \in Rows, NEW x \in Cols, r <= y
  PROVE  /\ Place(y, x) - Place(r, 0) \in Nat
         /\ Place(y, x) < Place(Height, 0)
  <1>1. r \in Int /\ y \in Int /\ x \in Int /\ 0 <= x /\ y < Height /\ 0 \in Cols
    BY SizeLemma
  <1>2. Place(y, x) \in Int /\ Place(r, 0) \in Int /\ Place(y, x) = Place(y, 0) + x
        /\ Place(y, 0) \in Int
    BY <1>1, PlaceLemma
  <1>3. r < y => Place(r, 0) < Place(y, x)
    BY <1>1, PlaceLemma
  <1>4. r = y => Place(r, 0) <= Place(y, x)
    BY <1>1, <1>2
  <1>5. Place(y, x) < Place(Height, 0)
    BY <1>1, PlaceLemma, SizeLemma
  <1> QED
    BY <1>1, <1>2, <1>3, <1>4, <1>5

\* The cell of a number.
LEMMA PlaceUnique ==
  ASSUME NEW y \in Int, NEW z \in Int, NEW x \in Cols, NEW u \in Cols,
         Place(y, x) = Place(z, u)
  PROVE  y = z /\ x = u
  <1>1. Place(y, x) \in Int /\ Place(z, u) \in Int /\ x \in Int /\ u \in Int
        /\ Place(y, 0) \in Int
    BY PlaceLemma, SizeLemma
  <1>2. ~ (y < z)
    BY <1>1, PlaceLemma
  <1>3. ~ (z < y)
    BY <1>1, PlaceLemma
  <1>4. y = z
    BY <1>2, <1>3
  <1>5. Place(y, x) = Place(y, 0) + x /\ Place(y, u) = Place(y, 0) + u
    BY <1>1, PlaceLemma
  <1> QED
    BY <1>1, <1>4, <1>5

\* The rows of a number and of a later one.
LEMMA RowOrder ==
  ASSUME NEW y \in Int, NEW z \in Int, NEW x \in Cols, NEW u \in Cols,
         Place(y, x) <= Place(z, u)
  PROVE  y <= z
  <1>1. Place(y, x) \in Int /\ Place(z, u) \in Int
    BY PlaceLemma, SizeLemma
  <1>2. ~ (z < y)
    BY <1>1, PlaceLemma
  <1> QED
    BY <1>2

\* A scroll moves every row up by one, whatever it copies.
LEMMA ScrollLemma ==
  ASSUME NEW t \in Terminals, Tidy(t)
  PROVE  LET s == Scroll(t)
         IN  /\ s \in Terminals /\ Tidy(s)
             /\ s.row = t.row /\ s.col = t.col
             /\ \A y \in Rows, x \in Cols :
                  s.cell[y][x] = IF y + 1 \in Rows THEN t.cell[y + 1][x] ELSE Blank
  <1> DEFINE s == Scroll(t)
             C == [i \in Rows |-> [x \in Cols |->
                     IF x < CopiedCells(t, i) THEN Below(t, i)[x] ELSE t.cell[i][x]]]
             U == [i \in Rows |-> IF i + 1 \in Rows THEN t.used[i + 1] ELSE 0]
  <1>1. /\ t.cell \in [Rows -> [Cols -> Glyphs]] /\ t.used \in [Rows -> 0 .. Width]
        /\ t.row \in Rows /\ t.col \in Cols
    BY DEF Terminals
  <1>2. s = [t EXCEPT !.cell = C, !.used = U]
    BY DEF Scroll
  <1>3. ASSUME NEW y \in Rows, NEW x \in Cols
       PROVE  C[y][x] = IF y + 1 \in Rows THEN t.cell[y + 1][x] ELSE Blank
    <2>1. C[y][x] = IF x < CopiedCells(t, y) THEN Below(t, y)[x] ELSE t.cell[y][x]
      OBVIOUS
    <2>2. Below(t, y)[x] = IF y + 1 \in Rows THEN t.cell[y + 1][x] ELSE Blank
      BY DEF Below, BlankRow
    <2>3. CASE x < CopiedCells(t, y)
      BY <2>1, <2>2, <2>3
    <2>4. CASE ~ (x < CopiedCells(t, y))
      <3>1. /\ t.used[y] \in 0 .. Width /\ x \in Int /\ Width \in Nat
            /\ y + 1 \in Rows => t.used[y + 1] \in 0 .. Width
        BY <1>1, SizeLemma
      <3>2. CopiedCells(t, y) = Larger(t.used[y], IF y + 1 \in Rows THEN t.used[y + 1] ELSE 0)
        BY DEF CopiedCells
      <3>3. t.used[y] <= x /\ (y + 1 \in Rows => t.used[y + 1] <= x)
        BY <2>4, <3>1, <3>2 DEF Larger
      <3>4. t.cell[y][x] = Blank /\ (y + 1 \in Rows => t.cell[y + 1][x] = Blank)
        BY <3>3 DEF Tidy
      <3> QED
        BY <2>1, <2>4, <3>4
    <2> QED
      BY <2>3, <2>4
  <1>4. C \in [Rows -> [Cols -> Glyphs]]
    <2>1. ASSUME NEW y \in Rows, NEW x \in Cols PROVE C[y][x] \in Glyphs
      BY <1>1, <1>3 DEF Glyphs
    <2>2. \A y \in Rows : C[y] \in [Cols -> Glyphs]
      BY <2>1
    <2> HIDE DEF C
    <2>3. DOMAIN C = Rows
      BY DEF C
    <2>4. C = [y \in Rows |-> C[y]]
      BY DEF C
    <2> QED
      BY <2>2, <2>4
  <1>5. U \in [Rows -> 0 .. Width]
    BY <1>1, SizeLemma
  <1> HIDE DEF C, U
  <1>6. /\ s.cell = C /\ s.used = U /\ s.row = t.row /\ s.col = t.col /\ s \in Terminals
    BY <1>1, <1>2, <1>4, <1>5 DEF Terminals
  <1>7. Tidy(s)
    <2> SUFFICES ASSUME NEW y \in Rows, NEW x \in Cols, s.used[y] <= x
                 PROVE  s.cell[y][x] = Blank
      BY DEF Tidy
    <2>1. CASE y + 1 \in Rows
      <3>1. t.used[y + 1] <= x
        BY <1>6, <2>1 DEF U
      <3> QED
        BY <1>3, <1>6, <2>1, <3>1 DEF Tidy
    <2>2. CASE y + 1 \notin Rows
      BY <1>3, <1>6, <2>2
    <2> QED
      BY <2>1, <2>2
  <1> QED
    BY <1>3, <1>6, <1>7

\* In the last row the terminal scrolls; the new row is blank if all rows below
\* the old one are.
LEMMA NextRowLemma ==
  ASSUME NEW t \in Terminals, Tidy(t)
  PROVE  LET s == NextRow(t)
         IN  /\ s \in Terminals /\ Tidy(s) /\ s.col = 0
             /\ BlankFrom(t, t.row + 1) => BlankFrom(s, s.row)
             /\ IF t.row = Height - 1
                  THEN /\ s.row = t.row
                       /\ \A y \in Rows, x \in Cols :
                            s.cell[y][x] = IF y + 1 \in Rows THEN t.cell[y + 1][x] ELSE Blank
                  ELSE s.row = t.row + 1 /\ s.cell = t.cell
  <1> DEFINE s == NextRow(t)
  <1>1. t.row \in Rows /\ t.col \in Cols /\ t.row \in Int /\ 0 \in Cols /\ t.row < Height
    BY SizeLemma DEF Terminals
  <1>2. CASE t.row = Height - 1
    <2> DEFINE u == Scroll(t)
    <2>1. s = [u EXCEPT !.col = 0]
      BY <1>2 DEF NextRow
    <2>2. /\ u \in Terminals /\ Tidy(u) /\ u.row = t.row
          /\ \A y \in Rows, x \in Cols :
               u.cell[y][x] = IF y + 1 \in Rows THEN t.cell[y + 1][x] ELSE Blank
      BY ScrollLemma
    <2> HIDE DEF u
    <2>3. s \in Terminals /\ s.col = 0 /\ s.row = t.row /\ s.cell = u.cell /\ s.used = u.used
      BY <1>1, <2>1, <2>2 DEF Terminals
    <2>4. Tidy(s)
      BY <2>2, <2>3 DEF Tidy
    <2>5. BlankFrom(s, s.row)
      <3> SUFFICES ASSUME NEW i \in Rows, NEW x \in Cols, t.row <= i
                   PROVE  s.cell[i][x] = Blank
        BY <2>3 DEF BlankFrom
      <3>1. i + 1 \notin Rows
        BY <1>1, <1>2, SizeLemma
      <3> QED
        BY <2>2, <2>3, <3>1
    <2> HIDE DEF s
    <2> QED
      BY <1>2, <2>2, <2>3, <2>4, <2>5 DEF s
  <1>3. CASE t.row # Height - 1
    <2>1. s = [t EXCEPT !.row = @ + 1, !.col = 0]
      BY <1>3 DEF NextRow
    <2>2. t.row + 1 \in Rows
      BY <1>1, <1>3, SizeLemma
    <2>3. s \in Terminals /\ s.col = 0 /\ s.row = t.row + 1 /\ s.cell = t.cell /\ s.used = t.used
      BY <1>1, <2>1, <2>2 DEF Terminals
    <2>4. Tidy(s) /\ (BlankFrom(t, t.row + 1) => BlankFrom(s, s.row))
      BY <2>3 DEF Tidy, BlankFrom
    <2> HIDE DEF s
    <2> QED
      BY <1>3, <2>3, <2>4 DEF s
  <1> QED
    BY <1>2, <1>3

\* A character written over the text or behind it: the text goes on to show,
\* one row higher if the terminal scrolled.
LEMMA PutLemma ==
  ASSUME NEW t, NEW r, NEW g, NEW n, NEW c, NEW ch \in Glyphs, Shows(t, r, g, n, c),
         c + 1 < Width * Height
  PROVE  \E q \in Rows :
           Shows(Put(t, ch), q, [g EXCEPT ![c] = ch], Larger(n, c + 1), c + 1)
  <1> DEFINE u == [t EXCEPT !.cell[t.row][t.col] = ch, !.used[t.row] = Larger(@, t.col + 1)]
             h == [g EXCEPT ![c] = ch]
             m == Larger(n, c + 1)
             base == Place(r, 0)
             room == Place(Height, 0)
  <1>1. /\ t \in Terminals /\ Tidy(t)
        /\ r \in Rows /\ n \in Nat /\ c \in 0 .. n
        /\ base + n < room
        /\ Place(t.row, t.col) = base + c
        /\ g \in Texts /\ \A k \in Nat : n <= k => g[k] = Blank
        /\ \A y \in Rows, x \in Cols :
             r <= y => t.cell[y][x] = g[Place(y, x) - base]
    BY DEF Shows
  <1>2. /\ t.cell \in [Rows -> [Cols -> Glyphs]] /\ t.used \in [Rows -> 0 .. Width]
        /\ t.row \in Rows /\ t.col \in Cols
    BY <1>1 DEF Terminals
  <1>3. /\ t.row \in Int /\ 0 <= t.row /\ t.row < Height
        /\ t.col \in Int /\ 0 <= t.col /\ t.col < Width
        /\ Width \in Nat /\ Height \in Nat /\ r \in Int /\ 0 <= r /\ r < Height /\ 0 \in Cols
    BY <1>1, <1>2, SizeLemma
  <1>4. /\ base \in Int /\ room \in Int /\ room = Width * Height
        /\ Place(t.row, t.col) \in Int
    <2>1. r \in Int /\ Height \in Int /\ 0 \in Int /\ t.row \in Int /\ t.col \in Int
      BY <1>3
    <2>2. Place(r, 0) \in Int /\ Place(Height, 0) \in Int /\ Place(t.row, t.col) \in Int
      BY <2>1, PlaceLemma, Zenon
    <2> QED
      BY <2>2, SizeLemma
  <1>5. c \in Nat /\ m \in Nat /\ c + 1 \in 0 .. m /\ n <= m /\ (m = n \/ m = c + 1)
    BY <1>1 DEF Larger
  <1>6. r <= t.row
    BY <1>1, <1>2, <1>3, <1>4, <1>5, RowOrder
  <1> DEFINE C == [t.cell EXCEPT ![t.row] = [@ EXCEPT ![t.col] = ch]]
             U == [t.used EXCEPT ![t.row] = Larger(@, t.col + 1)]
  <1>7. Put(t, ch) = IF t.col + 1 = Width THEN NextRow(u) ELSE [u EXCEPT !.col = @ + 1]
    BY DEF Put
  <1>8. C \in [Rows -> [Cols -> Glyphs]]
    BY <1>2
  <1>9. U \in [Rows -> 0 .. Width]
    <2>1. Larger(t.used[t.row], t.col + 1) \in 0 .. Width
      BY <1>2, <1>3 DEF Larger
    <2> QED
      BY <1>2, <2>1
  <1>10. u = [t EXCEPT !.cell = C, !.used = U]
    OBVIOUS
  <1> HIDE DEF u, C, U
  <1>11. /\ u.row = t.row /\ u.col = t.col /\ u.cell = C /\ u.used = U
         /\ u \in Terminals
    BY <1>1, <1>2, <1>8, <1>9, <1>10 DEF Terminals
  <1>12. /\ u.row = t.row /\ u.col = t.col
        /\ u.cell = [t.cell EXCEPT ![t.row] = [@ EXCEPT ![t.col] = ch]]
        /\ u.used = [t.used EXCEPT ![t.row] = Larger(@, t.col + 1)]
    BY <1>11 DEF C, U
  <1>13. \A y \in Rows, x \in Cols :
           u.cell[y][x] = IF y = t.row /\ x = t.col THEN ch ELSE t.cell[y][x]
    BY <1>2, <1>12
  <1>14. Tidy(u)
    <2> SUFFICES ASSUME NEW y \in Rows, NEW x \in Cols, u.used[y] <= x
                 PROVE  u.cell[y][x] = Blank
      BY DEF Tidy
    <2>1. x \in Int /\ t.used[y] \in Int
      BY <1>2, SizeLemma
    <2>2. CASE y = t.row
      <3>1. u.used[y] = Larger(t.used[y], t.col + 1)
        BY <1>2, <1>12, <2>2
      <3>2. t.used[y] <= x /\ x # t.col
        BY <1>3, <2>1, <3>1 DEF Larger
      <3> QED
        BY <1>1, <1>13, <3>2 DEF Tidy
    <2>3. CASE y # t.row
      <3>1. u.used[y] = t.used[y]
        BY <1>2, <1>12, <2>3
      <3> QED
        BY <1>1, <1>13, <2>3, <3>1 DEF Tidy
    <2> QED
      BY <2>2, <2>3
  <1>15. h \in Texts /\ \A k \in Nat : h[k] = IF k = c THEN ch ELSE g[k]
    BY <1>1, <1>5 DEF Texts
  <1>16. \A k \in Nat : m <= k => h[k] = Blank
    BY <1>1, <1>5, <1>15
  <1>17. ASSUME NEW y \in Rows, NEW x \in Cols, r <= y
         PROVE  u.cell[y][x] = h[Place(y, x) - base]
    <2>1. Place(y, x) - base \in Nat /\ y \in Int /\ Place(y, x) \in Int
      BY <1>1, <1>3, <1>17, CellLemma, PlaceLemma, SizeLemma
    <2>2. Place(y, x) - base = c => y = t.row /\ x = t.col
      BY <1>1, <1>2, <1>3, <1>4, <1>5, <2>1, PlaceUnique
    <2>3. y = t.row /\ x = t.col => Place(y, x) - base = c
      BY <1>1, <1>4, <1>5
    <2>4. t.cell[y][x] = g[Place(y, x) - base]
      BY <1>1, <1>17
    <2> HIDE DEF h, base
    <2> QED
      BY <1>13, <1>15, <2>1, <2>2, <2>3, <2>4
  <1> HIDE DEF h, m
  <1>18. CASE t.col + 1 # Width
    <2> DEFINE s == [u EXCEPT !.col = @ + 1]
    <2>1. Put(t, ch) = s
      BY <1>7, <1>18
    <2>2. t.col + 1 \in Cols
      BY <1>3, <1>18, SizeLemma
    <2>3. /\ s.cell = u.cell /\ s.used = u.used /\ s.row = t.row /\ s.col = t.col + 1
          /\ s \in Terminals
      BY <1>2, <1>12, <1>11, <2>2 DEF Terminals
    <2> HIDE DEF s
    <2>4. Tidy(s)
      BY <1>14, <2>3 DEF Tidy
    <2>5. /\ Place(s.row, s.col) = Place(t.row, 0) + (t.col + 1)
          /\ Place(t.row, t.col) = Place(t.row, 0) + t.col
          /\ Place(t.row, 0) \in Int
      <3>1. t.row \in Int /\ t.col \in Int /\ t.col + 1 \in Int /\ 0 \in Int
        BY <1>3
      <3> QED
        BY <2>3, <3>1, PlaceLemma, Zenon
    <2>6. Place(s.row, s.col) = base + (c + 1)
      BY <1>1, <1>3, <1>4, <1>5, <2>5
    <2>7. Place(s.row, s.col) < room
      BY <1>1, <1>2, <1>6, <2>2, <2>3, CellLemma
    <2>8. base + m < room
      BY <1>1, <1>4, <1>5, <2>6, <2>7
    <2>9. Shows(s, r, h, m, c + 1)
      BY <1>1, <1>5, <1>15, <1>16, <1>17, <2>3, <2>4, <2>6, <2>8 DEF Shows
    <2> QED
      BY <1>1, <2>1, <2>9 DEF h, m
  <1>19. CASE t.col + 1 = Width
    <2> DEFINE s == NextRow(u)
    <2>1. Put(t, ch) = s
      BY <1>7, <1>19
    <2>2. /\ s \in Terminals /\ Tidy(s) /\ s.col = 0
          /\ IF t.row = Height - 1
               THEN /\ s.row = t.row
                    /\ \A y \in Rows, x \in Cols :
                         s.cell[y][x] = IF y + 1 \in Rows THEN u.cell[y + 1][x] ELSE Blank
               ELSE s.row = t.row + 1 /\ s.cell = u.cell
      BY <1>12, <1>11, <1>14, NextRowLemma
    <2> HIDE DEF s
    <2>3. /\ Place(t.row + 1, 0) = Place(t.row, 0) + Width
          /\ Place(t.row, t.col) = Place(t.row, 0) + t.col
          /\ Place(t.row, 0) \in Int
      <3>1. t.row \in Int /\ t.col \in Int /\ 0 \in Int
        BY <1>3
      <3> QED
        BY <3>1, PlaceLemma, Zenon
    <2>4. Place(t.row + 1, 0) = base + (c + 1)
      BY <1>1, <1>3, <1>4, <1>5, <1>19, <2>3
    <2>5. CASE t.row # Height - 1
      <3>1. s.row = t.row + 1 /\ s.cell = u.cell /\ s.row \in Rows
        BY <1>3, <2>2, <2>5, SizeLemma
      <3>2. Place(s.row, s.col) = base + (c + 1)
        BY <2>2, <2>4, <3>1
      <3>3. Place(s.row, s.col) < room
        BY <1>1, <1>3, <1>6, <2>2, <3>1, CellLemma
      <3>4. base + m < room
        BY <1>1, <1>4, <1>5, <3>2, <3>3
      <3>5. Shows(s, r, h, m, c + 1)
        BY <1>1, <1>5, <1>15, <1>16, <1>17, <2>2, <3>1, <3>2, <3>4 DEF Shows
      <3> QED
        BY <1>1, <2>1, <3>5 DEF h, m
    <2>6. CASE t.row = Height - 1
      <3> DEFINE q == r - 1
                 up == Place(q, 0)
      <3>1. /\ s.row = t.row
            /\ \A y \in Rows, x \in Cols :
                 s.cell[y][x] = IF y + 1 \in Rows THEN u.cell[y + 1][x] ELSE Blank
        BY <2>2, <2>6
      <3>2. room = base + (c + 1) /\ m = c + 1 /\ base > 0
        BY <1>1, <1>3, <1>4, <1>5, <2>4, <2>6
      <3>3. r # 0
        BY <3>2, PlaceLemma
      <3>4. q \in Rows /\ q \in Int /\ q + 1 = r
        BY <1>3, <3>3, SizeLemma
      <3>5. base = up + Width /\ up \in Int
        <4>1. Place(q + 1, 0) = Place(q, 0) + Width /\ Place(q, 0) \in Int
          BY <3>4, PlaceLemma
        <4> QED
          BY <3>4, <4>1
      <3>6. Place(s.row, s.col) = up + (c + 1)
        <4>1. Place(s.row, 0) = Place(t.row + 1, 0) - Width
          BY <1>3, <2>3, <3>1
        <4> QED
          BY <1>3, <1>4, <1>5, <2>2, <2>4, <3>5, <4>1
      <3>7. up + m < room
        BY <1>3, <1>4, <1>5, <3>2, <3>5
      <3>8. ASSUME NEW y \in Rows, NEW x \in Cols, q <= y
            PROVE  s.cell[y][x] = h[Place(y, x) - up]
        <4>1. y \in Int /\ x \in Int /\ 0 <= x
          BY SizeLemma
        <4>2. /\ Place(y + 1, x) - base = Place(y, x) - up
              /\ Place(y + 1, x) = Place(y + 1, 0) + x
              /\ Place(y + 1, 0) \in Int /\ Place(y, x) \in Int
          <5>1. /\ Place(y + 1, 0) = Place(y, 0) + Width
                /\ Place(y + 1, x) = Place(y + 1, 0) + x
                /\ Place(y, x) = Place(y, 0) + x
                /\ Place(y, 0) \in Int /\ Place(y + 1, 0) \in Int
            BY <4>1, PlaceLemma
          <5> QED
            BY <1>3, <1>4, <3>5, <4>1, <5>1
        <4>3. Place(y, x) - up \in Nat
          BY <3>4, <3>8, CellLemma
        <4>4. CASE y + 1 \in Rows
          <5>1. r <= y + 1
            BY <3>4, <3>8, <4>1
          <5>2. u.cell[y + 1][x] = h[Place(y + 1, x) - base]
            BY <1>17, <4>4, <5>1
          <5> QED
            BY <3>1, <4>2, <4>4, <5>2
        <4>5. CASE y + 1 \notin Rows
          <5>1. y + 1 = Height
            BY <4>1, <4>5, SizeLemma
          <5>2. m <= Place(y, x) - up
            BY <1>4, <1>5, <3>2, <4>1, <4>2, <5>1
          <5> QED
            BY <1>16, <3>1, <4>3, <4>5, <5>2
        <4> QED
          BY <4>4, <4>5
      <3> HIDE DEF up
      <3>9. Shows(s, q, h, m, c + 1)
        BY <1>5, <1>15, <1>16, <2>2, <3>4, <3>6, <3>7, <3>8 DEF Shows, up
      <3> QED
        BY <2>1, <3>4, <3>9 DEF h, m
    <2> QED
      BY <2>5, <2>6
  <1> QED
    BY <1>18, <1>19

\* The terminals between the characters of Write.
Writing(t, s, m, v) == [k \in 0 .. m |-> IF k = 0 THEN t ELSE Put(v[k - 1], s[k])]

\* There is a function as the definition of Write describes it.
LEMMA WriteSteps ==
  ASSUME NEW t, NEW s, NEW m \in Nat
  PROVE  \E v : v = Writing(t, s, m, v)
  <1> DEFINE Step(v, i) == [k \in 0 .. i |-> IF k = 0 THEN t ELSE Put(v[k - 1], s[k])]
             Bad == {i \in Nat : ~ \E v : v = Step(v, i)}
  <1>1. Bad = {}
    <2> SUFFICES ASSUME Bad # {} PROVE FALSE
      OBVIOUS
    <2>1. PICK i \in Bad : \A j \in Bad : i <= j
      BY LeastLemma
    <2>2. i \in Nat /\ ~ \E v : v = Step(v, i)
      BY <2>1
    <2>3. CASE i = 0
      <3> DEFINE v == [k \in 0 .. 0 |-> t]
      <3>1. v = Step(v, 0)
        OBVIOUS
      <3> QED
        BY <2>2, <2>3, <3>1
    <2>4. CASE i # 0
      <3>1. i - 1 \in Nat /\ ~ (i <= i - 1)
        BY <2>2, <2>4
      <3>2. i - 1 \notin Bad
        BY <2>1, <3>1
      <3>3. PICK v : v = Step(v, i - 1)
        BY <3>1, <3>2
      <3>4. \A k \in 0 .. i - 1 : v[k] = IF k = 0 THEN t ELSE Put(v[k - 1], s[k])
        BY <3>3
      <3> DEFINE w == [k \in 0 .. i |-> IF k < i THEN v[k] ELSE Put(v[i - 1], s[i])]
      <3>5. ASSUME NEW k \in 0 .. i
            PROVE  w[k] = IF k = 0 THEN t ELSE Put(w[k - 1], s[k])
        <4>1. CASE k = 0
          <5>1. 0 \in 0 .. i - 1 /\ 0 < i
            BY <2>2, <2>4
          <5> QED
            BY <3>4, <4>1, <5>1
        <4>2. CASE k # 0 /\ k < i
          <5>1. k \in 0 .. i - 1 /\ k - 1 \in 0 .. i /\ k - 1 < i
            BY <2>2, <4>2
          <5>2. w[k] = v[k] /\ w[k - 1] = v[k - 1]
            BY <4>2, <5>1
          <5> HIDE DEF w
          <5> QED
            BY <3>4, <4>2, <5>1, <5>2
        <4>3. CASE k # 0 /\ ~ (k < i)
          <5>1. k = i /\ i - 1 \in 0 .. i /\ i - 1 < i
            BY <2>2, <4>3
          <5>2. w[k] = Put(v[i - 1], s[i]) /\ w[i - 1] = v[i - 1]
            BY <4>3, <5>1
          <5> HIDE DEF w
          <5> QED
            BY <4>3, <5>1, <5>2
        <4> QED
          BY <4>1, <4>2, <4>3
      <3>6. w = [k \in 0 .. i |-> w[k]]
        OBVIOUS
      <3> HIDE DEF w
      <3>7. w = Step(w, i)
        BY <3>5, <3>6
      <3> QED
        BY <2>2, <3>7
    <2> QED
      BY <2>3, <2>4
  <1> QED
    BY <1>1 DEF Writing

\* So Write puts the characters one after the other.
LEMMA WriteIs ==
  ASSUME NEW t, NEW s, Len(s) \in Nat
  PROVE  \E v : /\ v[0] = t /\ Write(t, s) = v[Len(s)]
                /\ \A k \in 1 .. Len(s) : v[k] = Put(v[k - 1], s[k])
  <1> DEFINE m == Len(s)
             w == CHOOSE v : v = Writing(t, s, m, v)
  <1>1. Write(t, s) = w[m]
    BY DEF Write, Writing
  <1>2. w = Writing(t, s, m, w)
    BY WriteSteps
  <1> HIDE DEF w, m
  <1>3. w = [k \in 0 .. m |-> IF k = 0 THEN t ELSE Put(w[k - 1], s[k])]
    BY <1>2 DEF Writing
  <1>4. \A k \in 0 .. m : w[k] = IF k = 0 THEN t ELSE Put(w[k - 1], s[k])
    BY <1>3
  <1>5. w[0] = t /\ \A k \in 1 .. m : w[k] = Put(w[k - 1], s[k])
    <2>1. m \in Nat
      BY DEF m
    <2> QED
      BY <1>4, <2>1
  <1> QED
    BY <1>1, <1>5 DEF m

\* The text g with the first m characters of s over those from c on.
Over(g, c, s, m) == [k \in Nat |-> IF c <= k /\ k < c + m THEN s[k - c + 1] ELSE g[k]]

\* A string written over the text or behind it.
LEMMA WriteLemma ==
  ASSUME NEW t, NEW r, NEW g, NEW n, NEW c, Shows(t, r, g, n, c),
         NEW s \in Seq(Glyphs), c + Len(s) < Width * Height
  PROVE  \E q \in Rows :
           Shows(Write(t, s), q, Over(g, c, s, Len(s)), Larger(n, c + Len(s)), c + Len(s))
  <1>1. Len(s) \in Nat /\ \A k \in 1 .. Len(s) : s[k] \in Glyphs
    BY LenProperties, ElementOfSeq
  <1>2. PICK v : /\ v[0] = t /\ Write(t, s) = v[Len(s)]
                 /\ \A k \in 1 .. Len(s) : v[k] = Put(v[k - 1], s[k])
    BY <1>1, WriteIs
  <1>3. r \in Rows /\ n \in Nat /\ c \in 0 .. n /\ c \in Nat /\ g \in Texts
    BY DEF Shows
  <1> DEFINE P(m) == \E q \in Rows :
                       Shows(v[m], q, Over(g, c, s, m), Larger(n, c + m), c + m)
             Bad == {m \in 0 .. Len(s) : ~ P(m)}
  <1>4. P(0)
    <2>1. Larger(n, c + 0) = n /\ c + 0 = c
      BY <1>3 DEF Larger
    <2>2. Over(g, c, s, 0) = g
      <3>1. \A k \in Nat : ~ (c <= k /\ k < c + 0)
        BY <1>3
      <3>2. Over(g, c, s, 0) = [k \in Nat |-> g[k]]
        BY <3>1 DEF Over
      <3> QED
        BY <1>3, <3>2 DEF Texts
    <2> QED
      BY <1>2, <1>3, <2>1, <2>2
  <1>5. ASSUME NEW m \in Nat, m < Len(s), P(m) PROVE P(m + 1)
    <2>1. PICK q \in Rows : Shows(v[m], q, Over(g, c, s, m), Larger(n, c + m), c + m)
      BY <1>5
    <2>2. /\ m + 1 \in 1 .. Len(s) /\ v[m + 1] = Put(v[m], s[m + 1]) /\ s[m + 1] \in Glyphs
      <3>1. m + 1 \in 1 .. Len(s) /\ m + 1 - 1 = m
        BY <1>1, <1>5
      <3> QED
        BY <1>1, <1>2, <3>1
    <2>3. c + m + 1 < Width * Height
      <3>1. Width * Height \in Int
        BY SizeLemma
      <3> QED
        BY <1>1, <1>3, <1>5, <3>1
    <2>4. [Over(g, c, s, m) EXCEPT ![c + m] = s[m + 1]] = Over(g, c, s, m + 1)
      <3> DEFINE a == [Over(g, c, s, m) EXCEPT ![c + m] = s[m + 1]]
                 b == Over(g, c, s, m + 1)
      <3>1. a = [k \in Nat |-> a[k]] /\ b = [k \in Nat |-> b[k]]
        BY DEF Over
      <3>2. ASSUME NEW k \in Nat PROVE a[k] = b[k]
        <4>1. a[k] = IF k = c + m THEN s[m + 1]
                     ELSE IF c <= k /\ k < c + m THEN s[k - c + 1] ELSE g[k]
          BY <1>3 DEF Over
        <4>2. b[k] = IF c <= k /\ k < c + (m + 1) THEN s[k - c + 1] ELSE g[k]
          BY DEF Over
        <4> HIDE DEF a, b
        <4>3. CASE k = c + m
          <5>1. k - c + 1 = m + 1 /\ c <= k /\ k < c + (m + 1)
            BY <1>3, <4>3
          <5> QED
            BY <4>1, <4>2, <4>3, <5>1
        <4>4. CASE k # c + m
          <5>1. (c <= k /\ k < c + (m + 1)) <=> (c <= k /\ k < c + m)
            BY <1>3, <4>4
          <5> QED
            BY <4>1, <4>2, <4>4, <5>1
        <4> QED
          BY <4>3, <4>4
      <3> HIDE DEF a, b
      <3>3. a = b
        BY <3>1, <3>2
      <3> QED
        BY <3>3 DEF a, b
    <2>5. Larger(Larger(n, c + m), c + m + 1) = Larger(n, c + (m + 1)) /\ c + m + 1 = c + (m + 1)
      BY <1>3 DEF Larger
    <2>6. \E p \in Rows :
            Shows(Put(v[m], s[m + 1]), p, [Over(g, c, s, m) EXCEPT ![c + m] = s[m + 1]],
                  Larger(Larger(n, c + m), c + m + 1), c + m + 1)
      BY <2>1, <2>2, <2>3, PutLemma
    <2> QED
      BY <2>2, <2>4, <2>5, <2>6
  <1> HIDE DEF P
  <1>6. Bad = {}
    <2> SUFFICES ASSUME Bad # {} PROVE FALSE
      OBVIOUS
    <2>1. Bad \in SUBSET Nat
      BY <1>1
    <2>2. PICK i \in Bad : \A j \in Bad : i <= j
      BY <2>1, LeastLemma
    <2>3. i \in 0 .. Len(s) /\ ~ P(i)
      BY <2>2
    <2>4. i # 0
      BY <1>4, <2>3
    <2>5. /\ i - 1 \in 0 .. Len(s) /\ i - 1 \in Nat /\ i - 1 < Len(s)
          /\ i - 1 + 1 = i /\ ~ (i <= i - 1)
      BY <1>1, <2>3, <2>4
    <2>6. i - 1 \notin Bad
      BY <2>2, <2>5
    <2>7. P(i - 1)
      BY <2>5, <2>6
    <2>8. P(i - 1 + 1)
      BY <1>5, <2>5, <2>7
    <2> QED
      BY <2>3, <2>5, <2>8
  <1>7. P(Len(s))
    <2>1. Len(s) \in 0 .. Len(s)
      BY <1>1
    <2> QED
      BY <1>6, <2>1
  <1> QED
    BY <1>2, <1>7 DEF P

\* A number in front of that of a row's start belongs to a row above it.
LEMMA RowAbove ==
  ASSUME NEW y \in Int, NEW z \in Int, NEW x \in Cols, Place(y, x) < Place(z, 0)
  PROVE  y < z
  <1>1. x \in Int /\ 0 <= x /\ 0 \in Cols /\ 0 \in Int
    BY SizeLemma
  <1>2. /\ Place(y, x) \in Int /\ Place(z, 0) \in Int
        /\ Place(y, x) = Place(y, 0) + x /\ Place(y, 0) \in Int
    BY <1>1, PlaceLemma, Zenon
  <1>3. ~ (z < y)
    <2>1. z < y => Place(z, 0) < Place(y, x)
      BY <1>1, PlaceLemma, Zenon
    <2> QED
      BY <1>2, <2>1
  <1>4. y # z
    BY <1>1, <1>2
  <1> QED
    BY <1>3, <1>4

\* The cursor goes to another character of the text, or behind the last.
LEMMA MoveLemma ==
  ASSUME NEW t, NEW r, NEW g, NEW n, NEW c, Shows(t, r, g, n, c),
         NEW y \in Rows, NEW x \in Cols, NEW k \in 0 .. n,
         Place(y, x) = Place(r, 0) + k
  PROVE  Shows([t EXCEPT !.row = y, !.col = x], r, g, n, k)
  <1> DEFINE s == [t EXCEPT !.row = y, !.col = x]
  <1>1. t \in Terminals /\ Tidy(t)
    BY DEF Shows
  <1>2. /\ s \in Terminals /\ s.row = y /\ s.col = x
        /\ s.cell = t.cell /\ s.used = t.used
    BY <1>1 DEF Terminals
  <1> HIDE DEF s
  <1>3. Tidy(s)
    BY <1>1, <1>2 DEF Tidy
  <1>4. Shows(s, r, g, n, k)
    BY <1>2, <1>3 DEF Shows
  <1> QED
    BY <1>4 DEF s

\* The facts about the cursor that both directions need.
LEMMA CursorLemma ==
  ASSUME NEW t, NEW r, NEW g, NEW n, NEW c, Shows(t, r, g, n, c)
  PROVE  /\ t.row \in Int /\ 0 <= t.row /\ t.row < Height /\ t.col \in Cols
         /\ t.col \in Int /\ 0 <= t.col /\ t.col < Width
         /\ Width \in Nat \ {0} /\ Height \in Nat /\ r \in Int /\ 0 <= r
         /\ n \in Nat /\ c \in Nat /\ c <= n
         /\ Place(r, 0) \in Int /\ Place(Height, 0) \in Int
         /\ Place(r, 0) + n < Place(Height, 0)
  <1>1. t.row \in Rows /\ t.col \in Cols /\ r \in Rows /\ n \in Nat /\ c \in 0 .. n
        /\ Place(r, 0) + n < Place(Height, 0)
    BY DEF Shows, Terminals
  <1>2. /\ t.row \in Int /\ 0 <= t.row /\ t.row < Height
        /\ t.col \in Int /\ 0 <= t.col /\ t.col < Width
        /\ Width \in Nat \ {0} /\ Height \in Nat /\ r \in Int /\ 0 <= r
    BY <1>1, SizeLemma
  <1>3. /\ Place(r, 0) \in Int /\ Place(Height, 0) \in Int
    BY <1>2, PlaceLemma
  <1> QED
    BY <1>1, <1>2, <1>3

\* The number of a cell q rows below the cursor's row.
LEMMA CursorPlace ==
  ASSUME NEW t, NEW r, NEW g, NEW n, NEW c, Shows(t, r, g, n, c),
         NEW q \in Int, NEW x \in Int
  PROVE  Place(t.row + q, x) = Place(r, 0) + c - t.col + q * Width + x
  <1>1. Place(t.row, t.col) = Place(r, 0) + c
    BY DEF Shows
  <1>2. t.row \in Int /\ t.col \in Int /\ Width \in Int /\ c \in Int /\ Place(r, 0) \in Int
    BY CursorLemma
  <1>3. t.row * Width + t.col = Place(r, 0) + c
    BY <1>1 DEF Place
  <1>4. Place(t.row + q, x) = (t.row + q) * Width + x
    BY DEF Place
  <1>5. (t.row + q) * Width = t.row * Width + q * Width
    BY <1>2
  <1>6. t.row * Width \in Int /\ q * Width \in Int
    BY <1>2
  <1> QED
    BY <1>2, <1>3, <1>4, <1>5, <1>6

\* ESC [ d C: d characters on, over the ends of rows.
LEMMA ForwardLemma ==
  ASSUME NEW t, NEW r, NEW g, NEW n, NEW c, Shows(t, r, g, n, c),
         NEW d \in Nat, c + d <= n
  PROVE  Shows(Forward(t, d), r, g, n, c + d)
  <1> DEFINE down == (t.col + d) \div Width
             x == (t.col + d) % Width
  <1>1. /\ t.row \in Int /\ 0 <= t.row /\ t.row < Height /\ t.col \in Cols
        /\ t.col \in Int /\ 0 <= t.col /\ t.col < Width
        /\ Width \in Nat \ {0} /\ Height \in Nat /\ r \in Int /\ 0 <= r
        /\ n \in Nat /\ c \in Nat /\ c <= n
        /\ Place(r, 0) \in Int /\ Place(Height, 0) \in Int
        /\ Place(r, 0) + n < Place(Height, 0)
    BY CursorLemma
  <1>2. t.col + d \in Nat
    BY <1>1
  <1>3. down \in Nat /\ x \in 0 .. Width - 1 /\ t.col + d = down * Width + x
    BY <1>1, <1>2, DivNat
  <1> HIDE DEF down, x
  <1>4. x \in Cols /\ x \in Int /\ down * Width \in Int
    BY <1>1, <1>3 DEF Cols
  <1>5. Place(t.row + down, x) = Place(r, 0) + c - t.col + down * Width + x
    BY <1>3, <1>4, CursorPlace
  <1>6. Place(t.row + down, x) = Place(r, 0) + (c + d)
    BY <1>1, <1>3, <1>4, <1>5
  <1>7. t.row + down \in Int /\ Place(t.row + down, x) < Place(Height, 0)
    BY <1>1, <1>3, <1>6
  <1>8. t.row + down < Height
    BY <1>1, <1>4, <1>7, RowAbove
  <1>9. t.row + down \in Rows
    BY <1>1, <1>3, <1>8, SizeLemma
  <1>10. Forward(t, d) = [t EXCEPT !.row = t.row + down, !.col = x]
    BY <1>8 DEF Forward, down, x
  <1>11. c + d \in 0 .. n
    BY <1>1
  <1>12. Shows([t EXCEPT !.row = t.row + down, !.col = x], r, g, n, c + d)
    BY <1>4, <1>6, <1>9, <1>11, MoveLemma
  <1> QED
    BY <1>10, <1>12

\* ESC [ d D: d characters back, over the starts of rows.
LEMMA BackwardLemma ==
  ASSUME NEW t, NEW r, NEW g, NEW n, NEW c, Shows(t, r, g, n, c),
         NEW d \in Nat, NEW k \in Nat, k + d = c
  PROVE  Shows(Backward(t, d), r, g, n, k)
  <1> DEFINE up == RowsUp(t, d)
             x == t.col - d + up * Width
  <1>1. /\ t.row \in Int /\ 0 <= t.row /\ t.row < Height /\ t.col \in Cols
        /\ t.col \in Int /\ 0 <= t.col /\ t.col < Width
        /\ Width \in Nat \ {0} /\ Height \in Nat /\ r \in Int /\ 0 <= r
        /\ n \in Nat /\ c \in Nat /\ c <= n
        /\ Place(r, 0) \in Int /\ Place(Height, 0) \in Int
        /\ Place(r, 0) + n < Place(Height, 0)
    BY CursorLemma
  <1>2. up \in Nat /\ x \in 0 .. Width - 1
    <2>1. CASE d <= t.col
      <3>1. up = 0
        BY <2>1 DEF RowsUp
      <3> HIDE DEF up
      <3> QED
        BY <1>1, <2>1, <3>1
    <2>2. CASE ~ (d <= t.col)
      <3> DEFINE b == d - t.col + Width - 1
                 rest == b % Width
      <3>1. up = b \div Width
        BY <2>2 DEF RowsUp
      <3>2. b \in Nat
        BY <1>1, <2>2
      <3> HIDE DEF b, up
      <3>3. up \in Nat /\ rest \in 0 .. Width - 1 /\ b = up * Width + rest
        BY <1>1, <3>1, <3>2, DivNat
      <3> HIDE DEF rest
      <3>4. up * Width \in Int
        BY <1>1, <3>3
      <3> QED
        BY <1>1, <3>3, <3>4 DEF b
    <2> QED
      BY <2>1, <2>2
  <1>3. Backward(t, d) = IF up <= t.row THEN [t EXCEPT !.row = t.row - up, !.col = x]
                                        ELSE [t EXCEPT !.row = 0, !.col = (t.row + 1) * Width - d]
    BY DEF Backward
  <1>4. up * Width \in Int /\ -up \in Int /\ (-up) * Width = -(up * Width)
    <2> HIDE DEF up
    <2> QED
      BY <1>1, <1>2
  <1>5. x \in Int /\ x \in Cols /\ x = t.col - d + up * Width
    BY <1>2 DEF Cols
  <1> HIDE DEF up, x
  <1>6. Place(t.row + (-up), x) = Place(r, 0) + c - t.col + (-up) * Width + x
    BY <1>4, <1>5, CursorPlace
  <1>7. t.row + (-up) = t.row - up /\ t.row - up \in Int
    BY <1>1, <1>2
  <1>8. Place(t.row - up, x) = Place(r, 0) + k
    <2>1. Place(t.row - up, x) = Place(r, 0) + c - t.col + (-up) * Width + x
      BY <1>6, <1>7
    <2>2. k = c - d
      BY <1>1
    <2> QED
      BY <1>1, <1>4, <1>5, <2>1, <2>2
  <1>9. r <= t.row - up
    <2>1. Place(r, 0) <= Place(t.row - up, x) /\ 0 \in Cols
      BY <1>1, <1>8, SizeLemma
    <2> QED
      BY <1>1, <1>5, <1>7, <2>1, RowOrder
  <1>10. t.row - up \in Rows /\ up <= t.row
    BY <1>1, <1>2, <1>9, SizeLemma
  <1>11. k \in 0 .. n
    BY <1>1
  <1>12. Shows([t EXCEPT !.row = t.row - up, !.col = x], r, g, n, k)
    BY <1>5, <1>8, <1>10, <1>11, MoveLemma
  <1>13. Backward(t, d) = [t EXCEPT !.row = t.row - up, !.col = x]
    BY <1>3, <1>10
  <1> QED
    BY <1>12, <1>13

----------------------------------------------------------------------------
(* A row to begin with *)

\* The cursor is at the start of a row, and there is nothing from there on.
Fresh(t) == t \in Terminals /\ Tidy(t) /\ t.col = 0 /\ BlankFrom(t, t.row)

\* A text shown with the cursor behind it: the row below is fresh.
LEMMA LineEnd ==
  ASSUME NEW t, NEW r, NEW g, NEW n, Shows(t, r, g, n, n)
  PROVE  Fresh(NextRow(t))
  <1>1. /\ t \in Terminals /\ Tidy(t) /\ n \in Nat /\ r \in Rows
        /\ Place(t.row, t.col) = Place(r, 0) + n
        /\ \A k \in Nat : n <= k => g[k] = Blank
        /\ \A y \in Rows, x \in Cols :
             r <= y => t.cell[y][x] = g[Place(y, x) - Place(r, 0)]
    BY DEF Shows
  <1>2. t.row \in Int /\ t.col \in Int /\ t.col \in Cols /\ r \in Int /\ Place(r, 0) \in Int
    BY CursorLemma
  <1>3. r <= t.row
    <2>1. Place(r, 0) <= Place(t.row, t.col) /\ 0 \in Cols
      BY <1>1, <1>2, SizeLemma
    <2> QED
      BY <1>2, <2>1, RowOrder
  <1>4. BlankFrom(t, t.row + 1)
    <2> SUFFICES ASSUME NEW y \in Rows, NEW x \in Cols, t.row + 1 <= y
                 PROVE  t.cell[y][x] = Blank
      BY DEF BlankFrom
    <2>1. y \in Int /\ x \in Int /\ t.row < y /\ r <= y
      BY <1>2, <1>3, SizeLemma
    <2>2. Place(t.row, t.col) < Place(y, x) /\ Place(y, x) \in Int
      BY <1>2, <2>1, PlaceLemma
    <2>3. Place(y, x) - Place(r, 0) \in Nat /\ n <= Place(y, x) - Place(r, 0)
      BY <1>1, <1>2, <2>2
    <2> QED
      BY <1>1, <2>1, <2>3
  <1> QED
    BY <1>1, <1>4, NextRowLemma DEF Fresh

\* A fresh row shows an empty text.
LEMMA FreshShows ==
  ASSUME NEW t, Fresh(t)
  PROVE  Shows(t, t.row, NoText, 0, 0)
  <1>1. t \in Terminals /\ Tidy(t) /\ t.col = 0 /\ BlankFrom(t, t.row) /\ t.row \in Rows
    BY DEF Fresh, Terminals
  <1>2. t.row \in Int /\ t.row < Height /\ Height \in Int /\ 0 \in Cols /\ 0 \in Int
    BY <1>1, SizeLemma
  <1>3. Place(t.row, 0) \in Int /\ Place(t.row, 0) < Place(Height, 0)
    BY <1>2, PlaceLemma
  <1>4. NoText \in Texts /\ \A k \in Nat : NoText[k] = Blank
    BY DEF NoText, Texts, Glyphs
  <1>5. ASSUME NEW y \in Rows, NEW x \in Cols, t.row <= y
        PROVE  t.cell[y][x] = NoText[Place(y, x) - Place(t.row, 0)]
    <2>1. Place(y, x) - Place(t.row, 0) \in Nat
      BY <1>1, <1>5, CellLemma
    <2> QED
      BY <1>1, <1>4, <1>5, <2>1 DEF BlankFrom
  <1> QED
    BY <1>1, <1>3, <1>4, <1>5 DEF Shows

\* Clearing a row above nothing but blanks.
LEMMA ClearRowLemma ==
  ASSUME NEW t \in Terminals, Tidy(t), t.col = 0, BlankFrom(t, t.row + 1)
  PROVE  Fresh(ClearRow(t))
  <1> DEFINE u == ClearRow(t)
             C == [t.cell EXCEPT ![t.row] = BlankRow]
             U == [t.used EXCEPT ![t.row] = 0]
  <1>1. /\ t.cell \in [Rows -> [Cols -> Glyphs]] /\ t.used \in [Rows -> 0 .. Width]
        /\ t.row \in Rows /\ t.col \in Cols
    BY DEF Terminals
  <1>2. BlankRow \in [Cols -> Glyphs] /\ \A x \in Cols : BlankRow[x] = Blank
    BY DEF BlankRow, Glyphs
  <1>3. C \in [Rows -> [Cols -> Glyphs]]
    BY <1>1, <1>2
  <1>4. U \in [Rows -> 0 .. Width]
    BY <1>1, SizeLemma
  <1>5. u = [t EXCEPT !.cell = C, !.used = U]
    BY DEF ClearRow
  <1>6. \A y \in Rows : /\ C[y] = IF y = t.row THEN BlankRow ELSE t.cell[y]
                        /\ U[y] = IF y = t.row THEN 0 ELSE t.used[y]
    BY <1>1
  <1> HIDE DEF u, C, U
  <1>7. u.cell = C /\ u.used = U /\ u.row = t.row /\ u.col = t.col /\ u \in Terminals
    BY <1>1, <1>3, <1>4, <1>5 DEF Terminals
  <1>8. Tidy(u)
    BY <1>2, <1>6, <1>7 DEF Tidy
  <1>9. BlankFrom(u, u.row)
    <2> SUFFICES ASSUME NEW y \in Rows, NEW x \in Cols, t.row <= y
                 PROVE  u.cell[y][x] = Blank
      BY <1>7 DEF BlankFrom
    <2>1. y # t.row => t.row + 1 <= y
      <3>1. y \in Int /\ t.row \in Int
        BY <1>1, SizeLemma
      <3> QED
        BY <3>1
    <2> QED
      BY <1>2, <1>6, <1>7, <2>1 DEF BlankFrom
  <1> QED
    BY <1>7, <1>8, <1>9 DEF Fresh, u

\* One row of clearline: up, and that row is cleared too.
LEMMA ClearUpwards ==
  ASSUME NEW t, Fresh(t)
  PROVE  Fresh(ClearRow(PreviousRow(t)))
  <1> DEFINE p == PreviousRow(t)
  <1>1. /\ t \in Terminals /\ Tidy(t) /\ t.col = 0 /\ BlankFrom(t, t.row)
        /\ t.row \in Rows /\ t.col \in Cols /\ t.row \in Int /\ 0 <= t.row
    BY SizeLemma DEF Fresh, Terminals
  <1>2. p = [t EXCEPT !.row = IF t.row = 0 THEN 0 ELSE t.row - 1]
    BY DEF PreviousRow
  <1>3. (IF t.row = 0 THEN 0 ELSE t.row - 1) \in Rows
    BY <1>1, SizeLemma
  <1> HIDE DEF p
  <1>4. /\ p \in Terminals /\ p.cell = t.cell /\ p.used = t.used /\ p.col = t.col
        /\ p.row = IF t.row = 0 THEN 0 ELSE t.row - 1
    BY <1>1, <1>2, <1>3 DEF Terminals
  <1>5. Tidy(p)
    BY <1>1, <1>4 DEF Tidy
  <1>6. BlankFrom(p, p.row + 1)
    <2> SUFFICES ASSUME NEW y \in Rows, NEW x \in Cols, p.row + 1 <= y
                 PROVE  p.cell[y][x] = Blank
      BY DEF BlankFrom
    <2>1. t.row <= y
      BY <1>1, <1>4, SizeLemma
    <2> QED
      BY <1>1, <1>4, <2>1 DEF BlankFrom
  <1>7. Fresh(ClearRow(p))
    BY <1>1, <1>4, <1>5, <1>6, ClearRowLemma
  <1> QED
    BY <1>7 DEF p

\* The terminals between the rows of clearline.
Clearing(t, m, v) == [i \in 0 .. m |-> IF i = 0 THEN t ELSE ClearRow(PreviousRow(v[i - 1]))]

\* There is a function as the definition of clearline describes it.
LEMMA ClearingSteps ==
  ASSUME NEW t, NEW m \in Nat
  PROVE  \E v : v = Clearing(t, m, v)
  <1> DEFINE Step(v, i) == [k \in 0 .. i |-> IF k = 0 THEN t ELSE ClearRow(PreviousRow(v[k - 1]))]
             Bad == {i \in Nat : ~ \E v : v = Step(v, i)}
  <1>1. Bad = {}
    <2> SUFFICES ASSUME Bad # {} PROVE FALSE
      OBVIOUS
    <2>1. PICK i \in Bad : \A j \in Bad : i <= j
      BY LeastLemma
    <2>2. i \in Nat /\ ~ \E v : v = Step(v, i)
      BY <2>1
    <2>3. CASE i = 0
      <3> DEFINE v == [k \in 0 .. 0 |-> t]
      <3>1. v = Step(v, 0)
        OBVIOUS
      <3> QED
        BY <2>2, <2>3, <3>1
    <2>4. CASE i # 0
      <3>1. i - 1 \in Nat /\ ~ (i <= i - 1)
        BY <2>2, <2>4
      <3>2. i - 1 \notin Bad
        BY <2>1, <3>1
      <3>3. PICK v : v = Step(v, i - 1)
        BY <3>1, <3>2
      <3>4. \A k \in 0 .. i - 1 : v[k] = IF k = 0 THEN t ELSE ClearRow(PreviousRow(v[k - 1]))
        BY <3>3
      <3> DEFINE w == [k \in 0 .. i |-> IF k < i THEN v[k] ELSE ClearRow(PreviousRow(v[i - 1]))]
      <3>5. ASSUME NEW k \in 0 .. i
            PROVE  w[k] = IF k = 0 THEN t ELSE ClearRow(PreviousRow(w[k - 1]))
        <4>1. CASE k = 0
          <5>1. 0 \in 0 .. i - 1 /\ 0 < i
            BY <2>2, <2>4
          <5> QED
            BY <3>4, <4>1, <5>1
        <4>2. CASE k # 0 /\ k < i
          <5>1. k \in 0 .. i - 1 /\ k - 1 \in 0 .. i /\ k - 1 < i
            BY <2>2, <4>2
          <5>2. w[k] = v[k] /\ w[k - 1] = v[k - 1]
            BY <4>2, <5>1
          <5> HIDE DEF w
          <5> QED
            BY <3>4, <4>2, <5>1, <5>2
        <4>3. CASE k # 0 /\ ~ (k < i)
          <5>1. k = i /\ i - 1 \in 0 .. i /\ i - 1 < i
            BY <2>2, <4>3
          <5>2. w[k] = ClearRow(PreviousRow(v[i - 1])) /\ w[i - 1] = v[i - 1]
            BY <4>3, <5>1
          <5> HIDE DEF w
          <5> QED
            BY <4>3, <5>1, <5>2
        <4> QED
          BY <4>1, <4>2, <4>3
      <3>6. w = [k \in 0 .. i |-> w[k]]
        OBVIOUS
      <3> HIDE DEF w
      <3>7. w = Step(w, i)
        BY <3>5, <3>6
      <3> QED
        BY <2>2, <3>7
    <2> QED
      BY <2>3, <2>4
  <1> QED
    BY <1>1 DEF Clearing

\* clearline, called with the rest of the line that is shown, leaves the cursor
\* at the start of a row with nothing from there on.
LEMMA ClearlineLemma ==
  ASSUME NEW t, NEW r, NEW g, NEW n, NEW c, Shows(t, r, g, n, c),
         NEW len \in Nat, NEW at \in 0 .. len, len - at = n - c
  PROVE  Fresh(clearline(t, len, at))
  <1> DEFINE m == ClearedRows(len)
             end == ClearRow(Return(Forward(t, len - at)))
             w == CHOOSE v : v = Clearing(end, m, v)
  <1>1. m \in Nat
    <2>1. len + PromptLen + 1 \in Nat /\ Width \in Nat \ {0}
      BY ShellAssumption, SizeAssumption
    <2> QED
      BY <2>1, DivNat DEF ClearedRows
  <1>2. Fresh(end)
    <2> DEFINE f == Forward(t, len - at)
               b == Return(f)
    <2>1. n \in Nat /\ c \in Nat /\ c <= n
      BY CursorLemma
    <2>2. len - at \in Nat /\ c + (len - at) = n
      BY <2>1
    <2>3. Shows(f, r, g, n, n)
      <3>1. Shows(f, r, g, n, c + (len - at))
        BY <2>1, <2>2, ForwardLemma
      <3> QED
        BY <2>2, <3>1
    <2> HIDE DEF f
    <2>4. /\ f \in Terminals /\ Tidy(f) /\ r \in Rows
          /\ Place(f.row, f.col) = Place(r, 0) + n
          /\ \A k \in Nat : n <= k => g[k] = Blank
          /\ \A y \in Rows, x \in Cols :
               r <= y => f.cell[y][x] = g[Place(y, x) - Place(r, 0)]
      BY <2>3 DEF Shows
    <2>5. f.row \in Int /\ f.col \in Int /\ f.col \in Cols /\ r \in Int /\ Place(r, 0) \in Int
          /\ 0 \in Cols
      BY <2>3, CursorLemma, SizeLemma
    <2>6. r <= f.row
      <3>1. Place(r, 0) <= Place(f.row, f.col)
        BY <2>1, <2>4, <2>5
      <3> QED
        BY <2>5, <3>1, RowOrder
    <2>7. b \in Terminals /\ b.col = 0 /\ b.row = f.row /\ b.cell = f.cell /\ b.used = f.used
      BY <2>4, <2>5 DEF Return, Terminals
    <2> HIDE DEF b
    <2>8. Tidy(b)
      BY <2>4, <2>7 DEF Tidy
    <2>9. BlankFrom(b, b.row + 1)
      <3> SUFFICES ASSUME NEW y \in Rows, NEW x \in Cols, f.row + 1 <= y
                   PROVE  f.cell[y][x] = Blank
        BY <2>7 DEF BlankFrom
      <3>1. y \in Int /\ f.row < y /\ r <= y
        <4>1. y \in Int
          BY SizeLemma
        <4> QED
          BY <2>5, <2>6, <4>1
      <3>2. Place(f.row, f.col) < Place(y, x) /\ Place(y, x) \in Int
        <4>1. x \in Int
          BY SizeLemma
        <4> QED
          BY <2>5, <3>1, <4>1, PlaceLemma
      <3>3. Place(y, x) - Place(r, 0) \in Nat /\ n <= Place(y, x) - Place(r, 0)
        BY <2>1, <2>4, <2>5, <3>2
      <3> QED
        BY <2>4, <3>1, <3>3
    <2>10. Fresh(ClearRow(b))
      BY <2>7, <2>8, <2>9, ClearRowLemma
    <2> QED
      BY <2>10 DEF b, f
  <1>3. clearline(t, len, at) = w[m]
    BY DEF clearline, Clearing
  <1> HIDE DEF end, m
  <1>4. w = Clearing(end, m, w)
    BY <1>1, ClearingSteps
  <1> HIDE DEF w
  <1>5. \A k \in 0 .. m : w[k] = IF k = 0 THEN end ELSE ClearRow(PreviousRow(w[k - 1]))
    <2>1. w = [i \in 0 .. m |-> IF i = 0 THEN end ELSE ClearRow(PreviousRow(w[i - 1]))]
      BY <1>4 DEF Clearing
    <2> QED
      BY <2>1
  <1> DEFINE Bad == {k \in 0 .. m : ~ Fresh(w[k])}
  <1>6. Bad = {}
    <2> SUFFICES ASSUME Bad # {} PROVE FALSE
      OBVIOUS
    <2>1. Bad \in SUBSET Nat
      BY <1>1
    <2>2. PICK i \in Bad : \A j \in Bad : i <= j
      BY <2>1, LeastLemma
    <2>3. i \in 0 .. m /\ ~ Fresh(w[i])
      BY <2>2
    <2>4. i # 0
      BY <1>2, <1>5, <2>3
    <2>5. i - 1 \in 0 .. m /\ ~ (i <= i - 1)
      BY <1>1, <2>3, <2>4
    <2>6. Fresh(w[i - 1])
      BY <2>2, <2>5
    <2>7. w[i] = ClearRow(PreviousRow(w[i - 1]))
      BY <1>5, <2>3, <2>4
    <2> QED
      BY <2>3, <2>6, <2>7, ClearUpwards
  <1>7. m \in 0 .. m
    BY <1>1
  <1> QED
    BY <1>3, <1>6, <1>7

----------------------------------------------------------------------------
(* The line on the terminal *)

\* The prompt and the first n characters of a.
Line(a, n) == [k \in Nat |-> IF k < PromptLen THEN Prompt
                             ELSE IF k < PromptLen + n THEN a[k - PromptLen] ELSE Blank]

\* The terminal shows the prompt and the line, with the cursor at bufpos.
LineShown ==
  \E r \in Rows : Shows(term, r, Line(buf, buflen), PromptLen + buflen, PromptLen + bufpos)

\* The prompt and the longest line leave room for the cursor behind them.
LEMMA RoomLemma ==
  ASSUME NEW n \in 0 .. MaxLine
  PROVE  /\ PromptLen \in Nat /\ PromptLen >= 1 /\ n \in Nat
         /\ PromptLen + n < Width * Height
  <1>1. Width * Height \in Int
    BY SizeLemma
  <1> QED
    BY <1>1, ShellAssumption

\* A line may be shown.
LEMMA GlyphsLemma ==
  ASSUME NEW s \in Seq(Chars)
  PROVE  s \in Seq(Glyphs)
  <1>1. Len(s) \in Nat /\ s \in [1 .. Len(s) -> Chars]
    BY LenProperties
  <1>2. s \in [1 .. Len(s) -> Glyphs]
    BY <1>1 DEF Glyphs
  <1> QED
    BY <1>1, <1>2, FunctionIsSeq

\* The cleared terminal is fresh, and so is its second row.
LEMMA ClearedLemma == Fresh(Cleared) /\ Fresh(NextRow(Cleared))
  <1>1. 0 \in Rows /\ 0 \in Cols /\ 0 \in 0 .. Width
    BY SizeLemma
  <1>2. BlankRow \in [Cols -> Glyphs] /\ \A x \in Cols : BlankRow[x] = Blank
    BY DEF BlankRow, Glyphs
  <1>3. /\ Cleared.row = 0 /\ Cleared.col = 0
        /\ Cleared.cell = [y \in Rows |-> BlankRow] /\ Cleared.used = [y \in Rows |-> 0]
        /\ Cleared \in Terminals
    BY <1>1, <1>2 DEF Cleared, Terminals
  <1>4. Tidy(Cleared) /\ \A y : BlankFrom(Cleared, y)
    BY <1>2, <1>3 DEF Tidy, BlankFrom
  <1>5. Fresh(NextRow(Cleared))
    BY <1>3, <1>4, NextRowLemma DEF Fresh
  <1> QED
    BY <1>3, <1>4, <1>5 DEF Fresh

\* A prompt in a fresh row: an empty line.
LEMMA PromptLemma ==
  ASSUME NEW t, Fresh(t), NEW a
  PROVE  \E r \in Rows : Shows(Prompted(t), r, Line(a, 0), PromptLen, PromptLen)
  <1> DEFINE s == [i \in 1 .. PromptLen |-> Prompt]
  <1>1. PromptLen \in Nat /\ PromptLen < Width * Height
    <2>1. 0 \in 0 .. MaxLine
      BY IndexLemma
    <2>2. PromptLen + 0 < Width * Height /\ PromptLen \in Nat
      BY <2>1, RoomLemma
    <2> QED
      BY <2>2
  <1>2. s \in [1 .. PromptLen -> Glyphs]
    BY DEF Glyphs
  <1>3. s \in Seq(Glyphs) /\ Len(s) = PromptLen
    BY <1>1, <1>2, FunctionIsSeq
  <1>4. Shows(t, t.row, NoText, 0, 0)
    BY FreshShows
  <1>5. Prompted(t) = Write(t, s)
    BY DEF Prompted
  <1>6. \A k \in 1 .. PromptLen : s[k] = Prompt
    OBVIOUS
  <1> HIDE DEF s
  <1>7. 0 + Len(s) = PromptLen /\ Larger(0, 0 + Len(s)) = PromptLen
    BY <1>1, <1>3 DEF Larger
  <1>8. \E q \in Rows : Shows(Write(t, s), q, Over(NoText, 0, s, Len(s)),
                              Larger(0, 0 + Len(s)), 0 + Len(s))
    BY <1>1, <1>3, <1>4, <1>7, WriteLemma
  <1>9. Over(NoText, 0, s, Len(s)) = Line(a, 0)
    <2>1. ASSUME NEW k \in Nat
          PROVE  Over(NoText, 0, s, Len(s))[k] = Line(a, 0)[k]
      <3>1. Over(NoText, 0, s, Len(s))[k] = IF k < PromptLen THEN s[k + 1] ELSE Blank
        BY <1>1, <1>3 DEF Over, NoText
      <3>2. Line(a, 0)[k] = IF k < PromptLen THEN Prompt ELSE Blank
        BY <1>1 DEF Line
      <3>3. k < PromptLen => k + 1 \in 1 .. PromptLen
        BY <1>1
      <3> QED
        BY <1>6, <3>1, <3>2, <3>3
    <2>2. /\ Over(NoText, 0, s, Len(s)) = [k \in Nat |-> Over(NoText, 0, s, Len(s))[k]]
          /\ Line(a, 0) = [k \in Nat |-> Line(a, 0)[k]]
      BY DEF Over, Line
    <2> QED
      BY <2>1, <2>2
  <1> QED
    BY <1>5, <1>7, <1>8, <1>9

\* A prompt and a line.
LEMMA RedrawLemma ==
  ASSUME NEW t, Fresh(t), NEW n \in 0 .. MaxLine, NEW a, NEW s \in Seq(Chars),
         Len(s) = n, \A k \in 1 .. n : s[k] = a[k - 1]
  PROVE  \E r \in Rows : Shows(Write(Prompted(t), s), r, Line(a, n),
                               PromptLen + n, PromptLen + n)
  <1>1. PromptLen \in Nat /\ n \in Nat /\ PromptLen + n < Width * Height
    BY RoomLemma
  <1>2. s \in Seq(Glyphs)
    BY GlyphsLemma
  <1>3. PICK q \in Rows : Shows(Prompted(t), q, Line(a, 0), PromptLen, PromptLen)
    BY PromptLemma
  <1>4. Larger(PromptLen, PromptLen + n) = PromptLen + n
    BY <1>1 DEF Larger
  <1>5. \E r \in Rows : Shows(Write(Prompted(t), s), r, Over(Line(a, 0), PromptLen, s, Len(s)),
                              Larger(PromptLen, PromptLen + Len(s)), PromptLen + Len(s))
    BY <1>1, <1>2, <1>3, WriteLemma
  <1>6. Over(Line(a, 0), PromptLen, s, n) = Line(a, n)
    <2>1. ASSUME NEW k \in Nat
          PROVE  Over(Line(a, 0), PromptLen, s, n)[k] = Line(a, n)[k]
      <3>1. Over(Line(a, 0), PromptLen, s, n)[k]
              = IF PromptLen <= k /\ k < PromptLen + n THEN s[k - PromptLen + 1]
                ELSE IF k < PromptLen THEN Prompt ELSE Blank
        BY <1>1 DEF Over, Line
      <3>2. Line(a, n)[k] = IF k < PromptLen THEN Prompt
                            ELSE IF k < PromptLen + n THEN a[k - PromptLen] ELSE Blank
        BY DEF Line
      <3>3. CASE PromptLen <= k /\ k < PromptLen + n
        <4> DEFINE j == k - PromptLen + 1
        <4>1. j \in 1 .. n /\ j - 1 = k - PromptLen
          BY <1>1, <3>3
        <4> HIDE DEF j
        <4>2. s[j] = a[j - 1]
          BY <4>1
        <4>3. s[k - PromptLen + 1] = a[k - PromptLen]
          BY <4>1, <4>2 DEF j
        <4> QED
          BY <1>1, <3>1, <3>2, <3>3, <4>3
      <3>4. CASE ~ (PromptLen <= k /\ k < PromptLen + n)
        BY <1>1, <3>1, <3>2, <3>4
      <3> QED
        BY <3>3, <3>4
    <2>2. /\ Over(Line(a, 0), PromptLen, s, n) = [k \in Nat |-> Over(Line(a, 0), PromptLen, s, n)[k]]
          /\ Line(a, n) = [k \in Nat |-> Line(a, n)[k]]
      BY DEF Over, Line
    <2> QED
      BY <2>1, <2>2
  <1> QED
    BY <1>4, <1>5, <1>6

\* At first there is the prompt in the second row.
LEMMA LineShownInit == Init => LineShown
  <1> SUFFICES ASSUME Init PROVE LineShown
    OBVIOUS
  <1>1. term = Prompted(NextRow(Cleared)) /\ buflen = 0 /\ bufpos = 0
    BY DEF Init
  <1>2. PromptLen + 0 = PromptLen
    BY ShellAssumption
  <1>3. \E r \in Rows : Shows(term, r, Line(buf, 0), PromptLen, PromptLen)
    BY <1>1, ClearedLemma, PromptLemma
  <1> QED
    BY <1>1, <1>2, <1>3 DEF LineShown

\* A character typed at the end of the line or in the middle of it, where the
\* rest of the line is written again.
LEMMA TypeShows ==
  ASSUME EditorInv, LineShown, NEW c \in Chars, Type(c)
  PROVE  LineShown'
  <1> DEFINE put == Put(term, c)
             rest == SubSeq(Prefix(buf', buflen'), bufpos' + 1, buflen')
             here == PromptLen + bufpos
             g == [Line(buf, buflen) EXCEPT ![here] = c]
  <1>1. /\ buflen < MaxLine /\ buf' = Inserted(c)
        /\ buflen' = buflen + 1 /\ bufpos' = bufpos + 1
        /\ term' = IF bufpos < buflen
                     THEN Backward(Write(put, rest), buflen' - bufpos') ELSE put
    BY DEF Type
  <1>2. /\ buflen \in Nat /\ bufpos \in Nat /\ bufpos <= buflen
        /\ MaxLine \in Nat /\ buflen' \in 0 .. MaxLine /\ buflen' \in Nat /\ bufpos' \in Nat
        /\ PromptLen \in Nat
    BY <1>1, IndexLemma, ShellAssumption DEF EditorInv
  <1>3. /\ buf' \in EndedArray /\ Holds(buf', buflen')
        /\ \A i \in 0 .. buflen :
              buf'[i] = IF i < bufpos THEN buf[i] ELSE IF i = bufpos THEN c ELSE buf[i - 1]
    BY <1>1, InsertedLemma
  <1>4. PromptLen + buflen' < Width * Height /\ here + 1 < Width * Height
    <2>1. PromptLen + buflen' < Width * Height
      BY <1>2, RoomLemma, Zenon
    <2>2. Width * Height \in Int
      BY SizeLemma
    <2> QED
      BY <1>1, <1>2, <2>1, <2>2
  <1>5. PICK r \in Rows : Shows(term, r, Line(buf, buflen), PromptLen + buflen, here)
    BY DEF LineShown
  <1>6. c \in Glyphs
    BY DEF Glyphs
  <1>7. PICK q \in Rows : Shows(put, q, g, Larger(PromptLen + buflen, here + 1), here + 1)
    BY <1>4, <1>5, <1>6, PutLemma
  <1>8. \A k \in Nat : g[k] = IF k = here THEN c
                              ELSE IF k < PromptLen THEN Prompt
                              ELSE IF k < PromptLen + buflen THEN buf[k - PromptLen] ELSE Blank
    <2>1. here \in Nat
      BY <1>2
    <2> QED
      BY <2>1 DEF Line
  <1>9. g = [k \in Nat |-> g[k]]
    BY DEF Line
  <1>10. \A k \in Nat : Line(buf', buflen')[k]
                          = IF k < PromptLen THEN Prompt
                            ELSE IF k < PromptLen + buflen' THEN buf'[k - PromptLen] ELSE Blank
    BY DEF Line
  <1>11. Line(buf', buflen') = [k \in Nat |-> Line(buf', buflen')[k]]
    BY DEF Line
  <1> HIDE DEF g, put
  <1>12. CASE ~ (bufpos < buflen)
    <2>1. bufpos = buflen /\ term' = put
      BY <1>1, <1>2, <1>12
    <2>2. g = Line(buf', buflen')
      <3>1. ASSUME NEW k \in Nat PROVE g[k] = Line(buf', buflen')[k]
        <4>1. CASE k < PromptLen
          <5>1. k # here
            BY <1>2, <4>1
          <5> QED
            BY <1>8, <1>10, <4>1, <5>1
        <4>2. CASE PromptLen <= k /\ k <= here
          <5>1. k - PromptLen \in 0 .. buflen
            BY <1>2, <2>1, <4>2
          <5>2. buf'[k - PromptLen] = IF k - PromptLen < bufpos THEN buf[k - PromptLen]
                                      ELSE IF k - PromptLen = bufpos THEN c ELSE buf[k - PromptLen - 1]
            BY <1>3, <5>1
          <5> QED
            BY <1>1, <1>2, <1>8, <1>10, <2>1, <4>2, <5>2
        <4>3. CASE here < k
          BY <1>1, <1>2, <1>8, <1>10, <2>1, <4>3
        <4> QED
          BY <1>2, <4>1, <4>2, <4>3
      <3> QED
        BY <1>9, <1>11, <3>1
    <2>3. Larger(PromptLen + buflen, here + 1) = PromptLen + buflen' /\ here + 1 = PromptLen + bufpos'
      BY <1>1, <1>2, <2>1 DEF Larger
    <2> QED
      BY <1>7, <2>1, <2>2, <2>3 DEF LineShown
  <1>13. CASE bufpos < buflen
    <2> DEFINE p == Prefix(buf', buflen')
               n == buflen' - bufpos'
    <2>1. p \in Seq(Chars) /\ Len(p) = buflen' /\ \A k \in 1 .. buflen' : p[k] = buf'[k - 1]
      BY <1>2, <1>3, PrefixLemma DEF EndedArray
    <2> HIDE DEF p
    <2>2. bufpos' + 1 \in 1 .. Len(p) + 1
      BY <1>1, <1>2, <1>13, <2>1
    <2>3. /\ SubSeq(p, bufpos' + 1, Len(p)) \in Seq(Chars)
          /\ Len(SubSeq(p, bufpos' + 1, Len(p))) = Len(p) + 1 - (bufpos' + 1)
          /\ \A k \in 1 .. Len(p) + 1 - (bufpos' + 1) :
               SubSeq(p, bufpos' + 1, Len(p))[k] = p[bufpos' + 1 + k - 1]
      BY <2>1, <2>2, RestLemma, Zenon
    <2>4. rest = SubSeq(p, bufpos' + 1, Len(p)) /\ n \in Nat /\ n = Len(p) + 1 - (bufpos' + 1)
      <3>1. rest = SubSeq(p, bufpos' + 1, buflen')
        BY DEF p
      <3> QED
        BY <1>1, <1>2, <1>13, <2>1, <3>1
    <2>5. bufpos' \in Nat /\ buflen' \in Nat /\ n = buflen' - bufpos'
      BY <1>2
    <2> HIDE DEF rest, n
    <2>6. rest \in Seq(Chars) /\ Len(rest) = n
      BY <2>3, <2>4
    <2>7. ASSUME NEW k \in Int, 1 <= k, k <= n PROVE rest[k] = buf'[bufpos' + k - 1]
      <3> DEFINE b == bufpos'
                 l == buflen'
                 j == b + k
      <3>1. b \in Nat /\ l \in Nat /\ n = l - b
        BY <2>5
      <3>2. k \in Int /\ 1 <= k /\ k <= n
        BY <2>7
      <3>3. b \in Int /\ l \in Int /\ b >= 0 /\ k \in Int /\ 1 <= k /\ k <= l - b
        <4> HIDE DEF b, l
        <4> QED
          BY <3>1, <3>2
      <3>4. rest[k] = p[b + 1 + k - 1]
        <4>1. k \in 1 .. Len(p) + 1 - (b + 1)
          BY <2>4, <2>7
        <4> QED
          BY <2>3, <2>4, <4>1, Zenon
      <3>5. \A i \in 1 .. l : p[i] = buf'[i - 1]
        BY <2>1
      <3> HIDE DEF b, l
      <3>6. b + 1 + k - 1 = j /\ j \in 1 .. l /\ j - 1 = b + k - 1
        BY <3>3
      <3> HIDE DEF j
      <3>7. rest[k] = buf'[j - 1]
        BY <3>4, <3>5, <3>6
      <3> QED
        BY <3>6, <3>7 DEF b
    <2>8. rest \in Seq(Glyphs)
      BY <2>6, GlyphsLemma
    <2>9. /\ here + 1 + n = PromptLen + buflen'
          /\ Larger(Larger(PromptLen + buflen, here + 1), PromptLen + buflen') = PromptLen + buflen'
      BY <1>1, <1>2, <1>13, <2>5 DEF Larger
    <2>10. PICK z \in Rows :
            Shows(Write(put, rest), z, Over(g, here + 1, rest, Len(rest)),
                  Larger(Larger(PromptLen + buflen, here + 1), here + 1 + Len(rest)),
                  here + 1 + Len(rest))
      <3>1. here + 1 + Len(rest) < Width * Height
        BY <1>4, <2>6, <2>9
      <3> QED
        BY <1>7, <2>8, <3>1, WriteLemma
    <2>11. Over(g, here + 1, rest, n) = Line(buf', buflen')
      <3>1. \A k \in Nat : Over(g, here + 1, rest, n)[k]
                             = IF here + 1 <= k /\ k < here + 1 + n
                                 THEN rest[k - (here + 1) + 1] ELSE g[k]
        BY DEF Over
      <3>2. ASSUME NEW k \in Nat PROVE Over(g, here + 1, rest, n)[k] = Line(buf', buflen')[k]
        <4>1. CASE k < PromptLen
          <5>1. k # here /\ ~ (here + 1 <= k)
            BY <1>2, <4>1
          <5> QED
            BY <1>8, <1>10, <3>1, <4>1, <5>1
        <4>2. CASE PromptLen <= k /\ k <= here
          <5>1. k - PromptLen \in 0 .. buflen
            BY <1>2, <1>13, <4>2
          <5>2. buf'[k - PromptLen] = IF k - PromptLen < bufpos THEN buf[k - PromptLen]
                                      ELSE IF k - PromptLen = bufpos THEN c ELSE buf[k - PromptLen - 1]
            BY <1>3, <5>1
          <5> QED
            BY <1>1, <1>2, <1>8, <1>10, <1>13, <3>1, <4>2, <5>2
        <4>3. CASE here < k /\ k < PromptLen + buflen'
          <5>1. /\ k - (here + 1) + 1 \in 1 .. n
                /\ bufpos' + (k - (here + 1) + 1) - 1 = k - PromptLen
                /\ here + 1 <= k /\ k < here + 1 + n /\ ~ (k < PromptLen)
            BY <1>1, <1>2, <2>4, <2>9, <2>5, <4>3
          <5>2. rest[k - (here + 1) + 1] = buf'[bufpos' + (k - (here + 1) + 1) - 1]
            BY <2>7, <5>1
          <5> QED
            BY <1>10, <3>1, <4>3, <5>1, <5>2
        <4>4. CASE here < k /\ ~ (k < PromptLen + buflen')
          <5>1. /\ k # here /\ ~ (k < PromptLen) /\ ~ (k < PromptLen + buflen)
                /\ ~ (k < here + 1 + n)
            BY <1>1, <1>2, <2>9, <4>4
          <5> QED
            BY <1>8, <1>10, <3>1, <4>4, <5>1
        <4>5. PromptLen <= k \/ k < PromptLen
          BY <1>2
        <4>6. k <= here \/ here < k
          BY <1>2
        <4> QED
          BY <4>1, <4>2, <4>3, <4>4, <4>5, <4>6, Zenon
      <3>3. Over(g, here + 1, rest, n) = [k \in Nat |-> Over(g, here + 1, rest, n)[k]]
        BY DEF Over
      <3> QED
        BY <1>11, <3>2, <3>3
    <2>12. Shows(Write(put, rest), z, Line(buf', buflen'), PromptLen + buflen', PromptLen + buflen')
      BY <2>6, <2>9, <2>10, <2>11
    <2>13. n \in Nat /\ PromptLen + bufpos' \in Nat /\ PromptLen + bufpos' + n = PromptLen + buflen'
      BY <1>1, <1>2, <2>4, <2>5
    <2>14. term' = Backward(Write(put, rest), n)
      BY <1>1, <1>13 DEF n
    <2>15. Shows(Backward(Write(put, rest), n), z, Line(buf', buflen'), PromptLen + buflen',
                 PromptLen + bufpos')
      BY <2>12, <2>13, BackwardLemma
    <2> QED
      BY <2>14, <2>15 DEF LineShown
  <1> QED
    BY <1>12, <1>13

\* Backspace clears the line upwards and draws it again.
LEMMA BackspaceShows ==
  ASSUME EditorInv, LineShown, Backspace
  PROVE  LineShown'
  <1> DEFINE cleared == clearline(term, buflen', bufpos')
             n == buflen' - bufpos'
             s == Prefix(buf', buflen')
  <1>1. /\ bufpos > 0 /\ buf' = Erased /\ buflen' = buflen - 1 /\ bufpos' = bufpos - 1
        /\ term' = Backward(Write(Prompted(cleared), s), n)
    BY DEF Backspace
  <1>2. /\ buflen \in Nat /\ bufpos \in Nat /\ bufpos <= buflen /\ buflen <= MaxLine
        /\ MaxLine \in Nat /\ PromptLen \in Nat
    BY IndexLemma, ShellAssumption DEF EditorInv
  <1>3. /\ buflen' \in Nat /\ buflen' \in 0 .. MaxLine /\ bufpos' \in 0 .. buflen'
        /\ n \in Nat /\ buflen' - bufpos' = PromptLen + buflen - (PromptLen + bufpos)
        /\ PromptLen + bufpos' \in Nat /\ PromptLen + bufpos' + n = PromptLen + buflen'
    BY <1>1, <1>2
  <1>4. buf' \in EndedArray /\ Holds(buf', buflen')
    BY <1>1, ErasedLemma
  <1>5. s \in Seq(Chars) /\ Len(s) = buflen' /\ \A k \in 1 .. buflen' : s[k] = buf'[k - 1]
    BY <1>3, <1>4, PrefixLemma DEF EndedArray
  <1>6. PICK r \in Rows : Shows(term, r, Line(buf, buflen), PromptLen + buflen, PromptLen + bufpos)
    BY DEF LineShown
  <1>7. Fresh(cleared)
    <2> DEFINE l == buflen'
               at == bufpos'
               total == PromptLen + buflen
               here == PromptLen + bufpos
    <2>1. l \in Nat /\ at \in 0 .. l /\ l - at = total - here
      <3>1. bufpos' \in Int /\ buflen' \in Int
        BY <1>3
      <3> QED
        BY <1>1, <1>2, <1>3, <3>1
    <2>2. Shows(term, r, Line(buf, buflen), total, here)
      BY <1>6
    <2> HIDE DEF l, at, total, here
    <2>3. Fresh(clearline(term, l, at))
      BY <2>1, <2>2, ClearlineLemma
    <2> QED
      BY <2>3 DEF l, at
  <1> HIDE DEF cleared, s, n
  <1>8. PICK q \in Rows : Shows(Write(Prompted(cleared), s), q, Line(buf', buflen'),
                                PromptLen + buflen', PromptLen + buflen')
    BY <1>3, <1>5, <1>7, RedrawLemma
  <1>9. Shows(Backward(Write(Prompted(cleared), s), n), q, Line(buf', buflen'),
              PromptLen + buflen', PromptLen + bufpos')
    BY <1>3, <1>8, BackwardLemma
  <1> QED
    BY <1>1, <1>3, <1>9 DEF LineShown

\* The arrow keys move the cursor by one character.
LEMMA ArrowShows ==
  ASSUME EditorInv, LineShown, Left \/ Right
  PROVE  LineShown'
  <1>1. /\ buflen \in Nat /\ bufpos \in Nat /\ bufpos <= buflen /\ PromptLen \in Nat
    BY IndexLemma, ShellAssumption DEF EditorInv
  <1>2. PICK r \in Rows : Shows(term, r, Line(buf, buflen), PromptLen + buflen, PromptLen + bufpos)
    BY DEF LineShown
  <1>3. CASE Left
    <2>1. bufpos > 0 /\ bufpos' = bufpos - 1 /\ term' = Backward(term, 1)
          /\ buf' = buf /\ buflen' = buflen
      BY <1>3 DEF Left
    <2>2. PromptLen + bufpos' \in Nat /\ PromptLen + bufpos' + 1 = PromptLen + bufpos
      BY <1>1, <2>1
    <2>3. Shows(Backward(term, 1), r, Line(buf, buflen), PromptLen + buflen, PromptLen + bufpos')
      BY <1>2, <2>2, BackwardLemma
    <2> QED
      BY <2>1, <2>2, <2>3 DEF LineShown
  <1>4. CASE Right
    <2>1. bufpos # buflen /\ bufpos' = bufpos + 1 /\ term' = Forward(term, 1)
          /\ buf' = buf /\ buflen' = buflen
      BY <1>4 DEF Right
    <2>2. 1 \in Nat /\ PromptLen + bufpos + 1 <= PromptLen + buflen
          /\ PromptLen + bufpos + 1 = PromptLen + bufpos'
      BY <1>1, <2>1
    <2>3. Shows(Forward(term, 1), r, Line(buf, buflen), PromptLen + buflen, PromptLen + bufpos + 1)
      BY <1>2, <2>2, ForwardLemma
    <2> QED
      BY <2>1, <2>2, <2>3 DEF LineShown
  <1> QED
    BY <1>3, <1>4

\* The output of a command ends at the start of a fresh row.
LEMMA OutputFresh ==
  ASSUME NEW t, Fresh(t), NEW cmd
  PROVE  Fresh(EvalOutput(t, cmd))
  <1>1. Shows(t, t.row, NoText, 0, 0)
    BY FreshShows
  <1>2. Output \in Glyphs /\ 0 + 1 < Width * Height /\ Larger(0, 0 + 1) = 0 + 1
    <2>1. 1 \in 0 .. MaxLine \/ PromptLen >= 1
      BY ShellAssumption
    <2>2. PromptLen \in Nat /\ PromptLen >= 1 /\ PromptLen + MaxLine < Width * Height
          /\ MaxLine \in Nat
      BY ShellAssumption, SizeLemma
    <2>3. Width * Height \in Int
      BY SizeLemma
    <2> QED
      BY <2>2, <2>3, ShellAssumption DEF Glyphs, Larger
  <1>3. PICK q \in Rows : Shows(Put(t, Output), q, [NoText EXCEPT ![0] = Output],
                                Larger(0, 0 + 1), 0 + 1)
    BY <1>1, <1>2, PutLemma
  <1>4. Fresh(NextRow(Put(t, Output)))
    BY <1>2, <1>3, LineEnd
  <1> QED
    BY <1>4, ClearedLemma DEF EvalOutput

\* Enter goes behind the line, executes it and begins another.
LEMMA EnterShows ==
  ASSUME EditorInv, LineShown, Enter
  PROVE  LineShown'
  <1> DEFINE line == NextRow(Forward(term, buflen - bufpos))
  <1>1. /\ buflen' = 0 /\ bufpos' = 0
        /\ term' = Prompted(line) \/ term' = Prompted(EvalOutput(line, String(buf')))
    BY DEF Enter
  <1>2. /\ buflen \in Nat /\ bufpos \in Nat /\ bufpos <= buflen /\ PromptLen \in Nat
    BY IndexLemma, ShellAssumption DEF EditorInv
  <1>3. PICK r \in Rows : Shows(term, r, Line(buf, buflen), PromptLen + buflen, PromptLen + bufpos)
    BY DEF LineShown
  <1>4. /\ buflen - bufpos \in Nat /\ PromptLen + bufpos + (buflen - bufpos) <= PromptLen + buflen
        /\ PromptLen + bufpos + (buflen - bufpos) = PromptLen + buflen
        /\ PromptLen + 0 = PromptLen
    BY <1>2
  <1>5. Shows(Forward(term, buflen - bufpos), r, Line(buf, buflen), PromptLen + buflen,
              PromptLen + bufpos + (buflen - bufpos))
    BY <1>3, <1>4, ForwardLemma
  <1>6. Fresh(line)
    BY <1>4, <1>5, LineEnd
  <1> HIDE DEF line
  <1>7. PICK u : Fresh(u) /\ term' = Prompted(u)
    BY <1>1, <1>6, OutputFresh
  <1>8. \E q \in Rows : Shows(term', q, Line(buf', 0), PromptLen, PromptLen)
    BY <1>7, PromptLemma
  <1> QED
    BY <1>1, <1>4, <1>8 DEF LineShown

\* A recalled line takes the place of the line that is shown.
LEMMA RecallShows ==
  ASSUME EditorInv, LineShown, NEW rows \in HistoryRows, NEW idx \in 0 .. HistSize - 1,
         Recall(rows, idx)
  PROVE  LineShown'
  <1> DEFINE a == rows[idx]
             n == strlen(a)
             cleared == clearline(term, buflen, bufpos)
             s == String(a)
  <1>1. a \in EndedArray /\ buf \in EndedArray
    BY DEF HistoryRows, EditorInv
  <1>2. /\ buflen' = n /\ bufpos' = n /\ buf' = memcpy(buf, a, n)
        /\ term' = Write(Prompted(cleared), s)
    BY DEF Recall
  <1>3. /\ buflen \in Nat /\ bufpos \in 0 .. buflen /\ bufpos \in Nat
        /\ PromptLen \in Nat
        /\ buflen - bufpos = PromptLen + buflen - (PromptLen + bufpos)
    BY IndexLemma, ShellAssumption DEF EditorInv
  <1>4. PICK r \in Rows : Shows(term, r, Line(buf, buflen), PromptLen + buflen, PromptLen + bufpos)
    BY DEF LineShown
  <1>5. Fresh(cleared)
    BY <1>3, <1>4, ClearlineLemma
  <1> HIDE DEF cleared
  <1>6. s = Prefix(a, n)
    BY DEF String
  <1> HIDE DEF a
  <1>7. n \in 0 .. MaxLine /\ Holds(a, n)
    BY <1>1, StrlenLemma
  <1> HIDE DEF n, s
  <1>8. s \in Seq(Chars) /\ Len(s) = n /\ \A k \in 1 .. n : s[k] = a[k - 1]
    BY <1>1, <1>6, <1>7, PrefixLemma DEF EndedArray
  <1>9. \A i \in 0 .. n - 1 : memcpy(buf, a, n)[i] = a[i]
    BY <1>1, <1>7, MemcpyLemma
  <1>10. ASSUME NEW k \in 1 .. n PROVE s[k] = buf'[k - 1]
    <2>1. k - 1 \in 0 .. n - 1
      BY <1>7, IndexLemma
    <2> QED
      BY <1>2, <1>8, <1>9, <2>1
  <1>11. \E q \in Rows : Shows(Write(Prompted(cleared), s), q, Line(buf', n),
                               PromptLen + n, PromptLen + n)
    BY <1>5, <1>7, <1>8, <1>10, RedrawLemma
  <1> QED
    BY <1>2, <1>11 DEF LineShown

\* Every keystroke leaves the line on the terminal.
LEMMA LineShownStep == EditorInv /\ LineShown /\ [Next]_vars => LineShown'
  <1> SUFFICES ASSUME EditorInv, LineShown, [Next]_vars PROVE LineShown'
    OBVIOUS
  <1>1. ASSUME NEW c \in Chars, Type(c) PROVE LineShown'
    BY <1>1, TypeShows
  <1>2. CASE Backspace
    BY <1>2, BackspaceShows
  <1>3. CASE Left \/ Right
    BY <1>3, ArrowShows
  <1>4. CASE Enter
    BY <1>4, EnterShows
  <1>5. CASE Up
    <2>1. /\ history' \in HistoryRows /\ history_idx' \in 0 .. history_cnt - 1
          /\ Recall(history', history_idx')
      BY <1>5, UpLemma
    <2>2. history_cnt \in 0 .. HistSize - 1 /\ HistSize \in Nat
      BY ShellAssumption DEF EditorInv
    <2>3. history_idx' \in 0 .. HistSize - 1
      BY <2>1, <2>2
    <2> QED
      BY <2>1, <2>3, RecallShows
  <1>6. CASE Down
    <2>1. history_idx # -1 /\ Recall(history, history_idx + 1)
      BY <1>6 DEF Down
    <2>2. /\ history \in HistoryRows /\ history_idx \in -1 .. history_cnt - 1
          /\ history_cnt \in 0 .. HistSize - 1 /\ HistSize \in Nat
      BY ShellAssumption DEF EditorInv
    <2>3. history_idx + 1 \in 0 .. HistSize - 1
      BY <2>1, <2>2
    <2> QED
      BY <2>1, <2>2, <2>3, RecallShows
  <1>7. CASE UNCHANGED vars
    BY <1>7 DEF vars, LineShown
  <1> QED
    BY <1>1, <1>2, <1>3, <1>4, <1>5, <1>6, <1>7 DEF Next

\* So the line is shown for ever.
LEMMA LineShownAlways == Spec => []LineShown
  <1> QED
    BY LineShownInit, LineShownStep, EditorInvariant, PTL DEF Spec

\* The arrays, the indices and the cursor on the terminal stay within their
\* bounds.
THEOREM WithinBounds == Spec => []TypeOK
  <1>1. LineShown => term.row \in Rows /\ term.col \in Cols
    BY DEF LineShown, Shows, Terminals
  <1> QED
    BY <1>1, LineCorrect, LineShownAlways, PTL DEF TypeOK

\* Whatever keys are pressed, on a terminal of any size, the terminal shows the
\* prompt and the line and nothing behind them, and its cursor is at bufpos.
THEOREM ShowsLine == Spec => []ScreenFaithful
  <1>1. EditorInv /\ LineShown => ScreenFaithful
    <2> SUFFICES ASSUME EditorInv, LineShown PROVE ScreenFaithful
      OBVIOUS
    <2> DEFINE n == PromptLen + buflen
               shown == [i \in 1 .. PromptLen |-> Prompt] \o Text
    <2>1. PICK r \in Rows : Shows(term, r, Line(buf, buflen), n, PromptLen + bufpos)
      BY DEF LineShown
    <2>2. /\ Place(term.row, term.col) = Place(r, 0) + (PromptLen + bufpos)
          /\ \A y \in Rows, x \in Cols :
               r <= y => term.cell[y][x] = Line(buf, buflen)[Place(y, x) - Place(r, 0)]
      BY <2>1 DEF Shows
    <2>3. /\ r \in Int /\ 0 <= r /\ Height \in Nat /\ Width \in Nat \ {0} /\ n \in Nat
          /\ Place(r, 0) \in Int /\ Place(Height, 0) \in Int
          /\ Place(r, 0) + n < Place(Height, 0)
      BY <2>1, CursorLemma
    <2>4. /\ buflen \in Nat /\ bufpos \in Nat /\ PromptLen \in Nat /\ buflen \in 0 .. MaxLine
          /\ buf \in EndedArray /\ Holds(buf, buflen)
      BY ShellAssumption, IndexLemma DEF EditorInv
    <2>5. (Height - r) * Width = Place(Height, 0) - Place(r, 0)
      BY <2>3 DEF Place
    <2>6. r * Width + PromptLen + bufpos = term.row * Width + term.col
      <3>1. r * Width \in Int
        BY <2>3
      <3>2. Place(r, 0) = r * Width /\ Place(term.row, term.col) = term.row * Width + term.col
        BY <2>3, <3>1 DEF Place
      <3> QED
        BY <2>2, <2>4, <3>1, <3>2
    <2>7. Len(shown) = n /\ \A k \in 1 .. n : shown[k] = IF k <= PromptLen THEN Prompt
                                                         ELSE buf[k - PromptLen - 1]
      <3> DEFINE p == [i \in 1 .. PromptLen |-> Prompt]
      <3>1. p \in [1 .. PromptLen -> Glyphs]
        BY DEF Glyphs
      <3>2. p \in Seq(Glyphs) /\ Len(p) = PromptLen /\ \A k \in 1 .. PromptLen : p[k] = Prompt
        BY <2>4, <3>1, FunctionIsSeq
      <3>3. Text \in Seq(Chars) /\ Len(Text) = buflen /\ \A k \in 1 .. buflen : Text[k] = buf[k - 1]
        BY <2>4, PrefixLemma DEF Text, EndedArray
      <3>4. Text \in Seq(Glyphs)
        BY <3>3, GlyphsLemma
      <3> HIDE DEF p
      <3>5. /\ Len(p \o Text) = Len(p) + Len(Text)
            /\ \A k \in 1 .. Len(p) + Len(Text) :
                 (p \o Text)[k] = IF k <= Len(p) THEN p[k] ELSE Text[k - Len(p)]
        BY <3>2, <3>4, ConcatProperties
      <3>6. Len(p \o Text) = n
        BY <3>2, <3>3, <3>5
      <3>7. ASSUME NEW k \in 1 .. n
            PROVE  (p \o Text)[k] = IF k <= PromptLen THEN Prompt ELSE buf[k - PromptLen - 1]
        <4>1. (p \o Text)[k] = IF k <= PromptLen THEN p[k] ELSE Text[k - PromptLen]
          BY <3>2, <3>3, <3>5
        <4>2. CASE k <= PromptLen
          <5>1. k \in 1 .. PromptLen
            BY <2>4, <4>2
          <5> QED
            BY <3>2, <4>1, <4>2, <5>1
        <4>3. CASE ~ (k <= PromptLen)
          <5>1. k - PromptLen \in 1 .. buflen
            BY <2>4, <4>3
          <5> QED
            BY <3>3, <4>1, <4>3, <5>1
        <4> QED
          BY <4>2, <4>3
      <3> QED
        BY <3>6, <3>7 DEF p
    <2> HIDE DEF shown
    <2>8. ASSUME NEW k \in 0 .. (Height - r) * Width - 1
          PROVE  CellAt(r, k) = IF k < Len(shown) THEN shown[k + 1] ELSE Blank
      <3> DEFINE q == k \div Width
                 x == k % Width
      <3>1. k \in Nat /\ k < Place(Height, 0) - Place(r, 0)
        BY <2>3, <2>5
      <3>2. q \in Nat /\ x \in 0 .. Width - 1 /\ k = q * Width + x
        BY <2>3, <3>1, DivNat
      <3>3. CellAt(r, k) = term.cell[r + q][x]
        BY DEF CellAt
      <3> HIDE DEF q, x
      <3>4. x \in Cols /\ x \in Int /\ q * Width \in Int /\ r * Width \in Int
        BY <2>3, <3>2 DEF Cols
      <3>5. Place(r + q, x) = Place(r, 0) + k
        <4>1. (r + q) * Width = r * Width + q * Width
          BY <2>3, <3>2
        <4>2. Place(r + q, x) = (r + q) * Width + x /\ Place(r, 0) = r * Width
          BY <2>3, <3>4 DEF Place
        <4> QED
          BY <3>2, <3>4, <4>1, <4>2
      <3>6. r + q \in Int /\ Place(r + q, x) < Place(Height, 0)
        BY <2>3, <3>1, <3>2, <3>5
      <3>7. r + q < Height
        BY <2>3, <3>4, <3>6, RowAbove
      <3>8. r + q \in Rows /\ r <= r + q
        BY <2>3, <3>2, <3>7, SizeLemma
      <3>9. Place(r + q, x) - Place(r, 0) = k
        BY <2>3, <3>1, <3>5
      <3>10. CellAt(r, k) = Line(buf, buflen)[k]
        BY <2>2, <3>3, <3>4, <3>8, <3>9
      <3>11. Line(buf, buflen)[k] = IF k < PromptLen THEN Prompt
                                    ELSE IF k < n THEN buf[k - PromptLen] ELSE Blank
        BY <3>1 DEF Line
      <3>12. CASE k < n
        <4>1. k + 1 \in 1 .. n /\ k + 1 - PromptLen - 1 = k - PromptLen
              /\ (k + 1 <= PromptLen <=> k < PromptLen)
          BY <2>3, <2>4, <3>1, <3>12
        <4> DEFINE j == k + 1
        <4>2. j \in 1 .. n /\ j - PromptLen - 1 = k - PromptLen
          BY <2>4, <3>1, <4>1
        <4> HIDE DEF j
        <4>3. shown[j] = IF j <= PromptLen THEN Prompt ELSE buf[k - PromptLen]
          BY <2>7, <4>2
        <4>4. shown[k + 1] = IF k + 1 <= PromptLen THEN Prompt ELSE buf[k - PromptLen]
          BY <4>3 DEF j
        <4> QED
          BY <2>7, <3>10, <3>11, <3>12, <4>1, <4>4
      <3>13. CASE ~ (k < n)
        <4>1. ~ (k < PromptLen)
          BY <2>3, <2>4, <3>1, <3>13
        <4> QED
          BY <2>7, <3>10, <3>11, <3>13, <4>1
      <3> QED
        BY <3>12, <3>13
    <2>9. Len(shown) < (Height - r) * Width
      BY <2>3, <2>5, <2>7
    <2> QED
      BY <2>1, <2>6, <2>8, <2>9 DEF ScreenFaithful, shown
  <1> QED
    BY <1>1, EditorInvariant, LineShownAlways, PTL

=============================================================================
