----------------------------- MODULE PipeProofs -----------------------------
(***************************************************************************)
(* Proofs about one pipe and its reader (PipeReaders), for lines of any    *)
(* length, a pipe and reads of any size, and every way to cut the lines.   *)
(*                                                                         *)
(* The argument.  Put behind each other, what was read of a line, the      *)
(* buffer, the pipe and what is not written yet are the lines that were    *)
(* not handed out, each with its newline (Streams).  To say so without a   *)
(* recursive concatenation, the whole output and the places where its      *)
(* lines end are taken as given (Framed) and what is ahead follows one of  *)
(* these places (Follows).  A character that moves leaves that sequence    *)
(* as it is; a line handed out moves the place to the next end, because    *)
(* the first newline ahead is the end of the next line (NextLine).  After  *)
(* a crash communicate() takes characters out of the middle, so what is    *)
(* between the buffer and the rest of the last line is then whatever was   *)
(* in the pipe.                                                            *)
(***************************************************************************)
EXTENDS PipeReaders, SequenceTheorems, WellFoundedInduction, TLAPS

(* The characters of s are those of all from position h + 1 to its end.    *)
Follows(all, h, s) ==
    /\ Len(all) = h + Len(s)
    /\ \A i \in 1 .. Len(s) : all[h + i] = s[i]

(* all is the lines w with their newlines, and end[i] is where the i-th    *)
(* line ends in it.                                                        *)
Framed(all, end, w) ==
    /\ all \in Seq(Symbols)
    /\ end \in [0 .. Len(w) -> 0 .. Len(all)]
    /\ end[Len(w)] = Len(all)
    /\ \A i \in 1 .. Len(w) :
          /\ end[i] = end[i - 1] + Len(w[i]) + 1
          /\ all[end[i]] = NewLine
          /\ \A j \in 1 .. Len(w[i]) : all[end[i - 1] + j] = w[i][j]

(* A nonempty set of natural numbers has a least element.                  *)
LEMMA Least ==
    ASSUME NEW D, D \subseteq Nat, D # {}
    PROVE  Min(D) \in D /\ \A d \in D : Min(D) <= d
<1>1. PICK m \in D : \A d \in D : <<d, m>> \notin OpToRel(<, Nat)
    BY NatLessThanWellFounded, WFMin
<1>2. ASSUME NEW d \in D, d < m PROVE FALSE
    <2>1. <<d, m>> \in Nat \X Nat /\ <<d, m>>[1] < <<d, m>>[2]
        BY <1>2
    <2>2. <<d, m>> \in OpToRel(<, Nat)
        BY <2>1, Zenon DEF OpToRel
    <2> QED
        BY <1>1, <2>2
<1>3. \A d \in D : m <= d
    BY <1>2
<1> QED
    BY <1>3 DEF Min

(* Where Before and After cut: at the first newline there is.              *)
LEMMA FirstNewLineAt ==
    ASSUME NEW b \in Seq(Symbols), Contains(b, NewLine)
    PROVE  /\ FirstNewLine(b) \in 1 .. Len(b)
           /\ b[FirstNewLine(b)] = NewLine
           /\ \A j \in 1 .. FirstNewLine(b) - 1 : b[j] # NewLine
<1> DEFINE I == {i \in 1 .. Len(b) : b[i] = NewLine}
<1>1. I # {} /\ I \subseteq Nat
    BY DEF Contains
<1>2. FirstNewLine(b) = Min(I)
    BY <1>1 DEF FirstNewLine, SelectInSeq
<1>3. Min(I) \in I /\ \A i \in I : Min(I) <= i
    BY <1>1, Least
<1>4. \A j \in 1 .. Min(I) - 1 : j \notin I
    BY <1>1, <1>3
<1>5. Min(I) \in 1 .. Len(b) /\ b[Min(I)] = NewLine
    BY <1>3
<1>6. ASSUME NEW j \in 1 .. Min(I) - 1 PROVE b[j] # NewLine
    <2>1. j \in 1 .. Len(b) /\ j \notin I
        BY <1>4, <1>5
    <2> QED
        BY <2>1
<1> HIDE DEF I
<1> QED
    BY <1>2, <1>5, <1>6

(* A line as it is written: only its last character is a newline.          *)
LEMMA Lined ==
    ASSUME NEW l \in Lines
    PROVE  /\ l \in Seq(Chars) /\ l \in Seq(Symbols) /\ Len(l) \in Nat \ {0}
           /\ \A i \in 1 .. Len(l) : l[i] # NewLine
           /\ Append(l, NewLine) \in Seq(Symbols)
           /\ Len(Append(l, NewLine)) = Len(l) + 1
           /\ \A i \in 1 .. Len(l) : Append(l, NewLine)[i] = l[i]
           /\ Append(l, NewLine)[Len(l) + 1] = NewLine
<1>1. l \in Seq(Chars) /\ l # <<>>
    BY PipeConstants
<1>2. \A i \in 1 .. Len(l) : l[i] \in Chars
    BY <1>1
<1>3. l \in Seq(Symbols) /\ NewLine \in Symbols
    BY <1>1, SeqMonotonic DEF Symbols
<1>4. Len(l) \in Nat \ {0}
    BY <1>1, EmptySeq
<1> QED
    BY <1>1, <1>2, <1>3, <1>4, AppendProperties, PipeConstants

(* The characters up to the first newline are the next line.               *)
LEMMA NextLine ==
    ASSUME NEW all, NEW end, NEW w \in Seq(Lines), Framed(all, end, w),
           NEW n \in 0 .. Len(w), NEW s \in Seq(Symbols), Follows(all, end[n], s),
           NEW k \in 1 .. Len(s), s[k] = NewLine,
           \A j \in 1 .. k - 1 : s[j] # NewLine
    PROVE  /\ n + 1 \in 1 .. Len(w)
           /\ k = Len(w[n + 1]) + 1
           /\ end[n + 1] = end[n] + k
           /\ \A j \in 1 .. k - 1 : s[j] = w[n + 1][j]
<1> DEFINE m == Len(w)
           a == Len(all)
           e == Len(s)
<1>0. m \in Nat /\ a \in Nat /\ e \in Nat
    BY DEF Framed
<1>1. end[n] \in 0 .. a /\ end[m] = a /\ a = end[n] + e
    BY <1>0 DEF Framed, Follows
<1>2. n + 1 \in 1 .. m
    BY <1>0, <1>1
<1>3. w[n + 1] \in Lines
    BY <1>2
<1> DEFINE l == w[n + 1]
           q == Len(l)
<1>4. q \in Nat /\ \A i \in 1 .. q : l[i] # NewLine
    BY <1>3, Lined
<1>f. \A i \in 1 .. m : /\ end[i] = end[i - 1] + Len(w[i]) + 1
                       /\ all[end[i]] = NewLine
                       /\ \A j \in 1 .. Len(w[i]) : all[end[i - 1] + j] = w[i][j]
    BY DEF Framed
<1>g. end \in [0 .. m -> 0 .. a]
    BY DEF Framed
<1>5. /\ end[n + 1] = end[n] + q + 1
      /\ all[end[n + 1]] = NewLine
      /\ \A j \in 1 .. q : all[end[n] + j] = l[j]
    <2>1. PICK i \in 1 .. m : i = n + 1
        BY <1>2
    <2>2. i - 1 = n
        BY <2>1
    <2> QED
        <3>1. /\ end[i] = end[i - 1] + Len(w[i]) + 1
              /\ all[end[i]] = NewLine
              /\ \A j \in 1 .. Len(w[i]) : all[end[i - 1] + j] = w[i][j]
            BY <1>f
        <3> QED
            BY <2>1, <2>2, <3>1
<1>6. end[n + 1] \in 0 .. a
    <2>1. n + 1 \in 0 .. m
        BY <1>0, <1>2
    <2> QED
        BY <1>g, <2>1
<1> HIDE DEF q, l, m, a, e
<1>7. \A i \in 1 .. e : all[end[n] + i] = s[i]
    BY DEF Follows, e
<1>8. q + 1 \in 1 .. e /\ s[q + 1] = NewLine
    <2>1. PICK u \in Nat : u = end[n]
        BY <1>0, <1>1
    <2>2. end[n + 1] = u + q + 1 /\ end[n + 1] \in 0 .. a /\ a = u + e
        BY <1>1, <1>5, <1>6, <2>1
    <2>3. u + q + 1 <= u + e
        BY <1>0, <2>2
    <2>4. q + 1 \in 1 .. e /\ u + q + 1 = u + (q + 1)
        BY <1>0, <1>4, <2>3
    <2>5. all[u + (q + 1)] = s[q + 1]
        BY <1>7, <2>1, <2>4
    <2>6. all[u + (q + 1)] = NewLine
        BY <1>5, <2>2, <2>4
    <2> QED
        BY <2>4, <2>5, <2>6
<1>9. k \in 1 .. e
    BY DEF e
<1>10. ~ (q + 1 < k)
    BY <1>4, <1>8, <1>9
<1>11. ASSUME NEW j \in 1 .. q PROVE s[j] = l[j] /\ s[j] # NewLine
    <2>1. j \in 1 .. e
        BY <1>0, <1>4, <1>8
    <2> QED
        BY <1>4, <1>5, <1>7, <2>1
<1>12. k = q + 1
    BY <1>4, <1>9, <1>10, <1>11
<1> QED
    <2>1. end[n + 1] = end[n] + k
        <3>1. PICK u \in Nat : u = end[n]
            BY <1>0, <1>1
        <3>2. end[n + 1] = u + q + 1
            BY <1>5, <3>1
        <3> QED
            BY <1>4, <1>12, <3>1, <3>2
    <2>2. \A j \in 1 .. k - 1 : s[j] = l[j]
        BY <1>4, <1>11, <1>12
    <2> QED
        BY <1>2, <1>12, <2>1, <2>2 DEF m, q, l

(* What is cut off at the first newline completes the line that was begun, *)
(* and the rest goes on after that line.                                   *)
LEMMA CutLine ==
    ASSUME NEW all, NEW end, NEW w \in Seq(Lines), Framed(all, end, w),
           NEW n \in 0 .. Len(w),
           NEW p \in Seq(Chars), NEW b \in Seq(Symbols), NEW r \in Seq(Symbols),
           Follows(all, end[n], p \o b \o r), Contains(b, NewLine)
    PROVE  /\ n + 1 \in 1 .. Len(w)
           /\ p \o Before(b) = w[n + 1]
           /\ After(b) \in Seq(Symbols)
           /\ Follows(all, end[n + 1], After(b) \o r)
<1> DEFINE f == FirstNewLine(b)
           s == p \o b \o r
           x == Len(p)
           y == Len(b)
           z == Len(r)
           k == x + f
<1>1. f \in 1 .. y /\ b[f] = NewLine /\ \A j \in 1 .. f - 1 : b[j] # NewLine
    BY FirstNewLineAt
<1>2. p \in Seq(Symbols) /\ x \in Nat /\ y \in Nat /\ z \in Nat
    BY SeqMonotonic DEF Symbols
<1>3. /\ p \o b \in Seq(Symbols) /\ Len(p \o b) = x + y
      /\ \A i \in 1 .. x + y : (p \o b)[i] = IF i <= x THEN p[i] ELSE b[i - x]
    BY <1>2, ConcatProperties
<1>4. /\ s \in Seq(Symbols) /\ Len(s) = x + y + z
      /\ \A i \in 1 .. x + y + z :
            s[i] = IF i <= x + y THEN (p \o b)[i] ELSE r[i - (x + y)]
    BY <1>3, ConcatProperties
<1>5. \A i \in 1 .. x : p[i] # NewLine
    BY PipeConstants, <1>2
<1> HIDE DEF s, x, y, z, f
<1>a. ASSUME NEW i \in 1 .. x PROVE s[i] = p[i]
    <2>1. i \in 1 .. x + y /\ i \in 1 .. x + y + z /\ i <= x /\ i <= x + y
        BY <1>2
    <2> QED
        BY <1>3, <1>4, <2>1
<1>b. ASSUME NEW i \in 1 .. y PROVE s[x + i] = b[i]
    <2>1. x + i \in 1 .. x + y /\ x + i <= x + y /\ ~ (x + i <= x) /\ (x + i) - x = i
        BY <1>2
    <2>2. (p \o b)[x + i] = b[i]
        BY <1>3, <2>1
    <2>3. x + i \in 1 .. x + y + z
        BY <1>2
    <2> QED
        BY <1>4, <2>1, <2>2, <2>3
<1>c. ASSUME NEW i \in 1 .. z PROVE s[x + y + i] = r[i]
    <2>1. x + y + i \in 1 .. x + y + z /\ ~ (x + y + i <= x + y) /\ (x + y + i) - (x + y) = i
        BY <1>2
    <2> QED
        BY <1>4, <2>1
<1>6. k \in 1 .. Len(s) /\ s[k] = NewLine
    BY <1>1, <1>2, <1>4, <1>b
<1>7. ASSUME NEW j \in 1 .. k - 1 PROVE s[j] # NewLine
    <2>1. CASE j <= x
        BY <1>2, <1>5, <1>a, <2>1
    <2>2. CASE ~ (j <= x)
        <3>1. PICK i \in 1 .. f - 1 : j = x + i
            <4>1. j - x \in 1 .. f - 1 /\ j = x + (j - x)
                BY <1>1, <1>2, <2>2
            <4> QED
                BY <4>1
        <3>2. i \in 1 .. y
            BY <1>1, <1>2
        <3> QED
            BY <1>1, <1>b, <3>1, <3>2
    <2> QED
        BY <2>1, <2>2
<1>8. Follows(all, end[n], s)
    BY DEF s
<1>9. /\ n + 1 \in 1 .. Len(w)
      /\ k = Len(w[n + 1]) + 1
      /\ end[n + 1] = end[n] + k
      /\ \A j \in 1 .. k - 1 : s[j] = w[n + 1][j]
    <2>1. s \in Seq(Symbols)
        BY <1>4
    <2>2. k \in 1 .. Len(s)
        BY <1>6
    <2>3. s[k] = NewLine
        BY <1>6
    <2>4. \A j \in 1 .. k - 1 : s[j] # NewLine
        BY <1>7
    <2> HIDE DEF k
    <2> QED
        BY <2>1, <2>2, <2>3, <2>4, <1>8, NextLine
<1>10. /\ Before(b) \in Seq(Symbols) /\ Len(Before(b)) = f - 1
       /\ \A j \in 1 .. f - 1 : Before(b)[j] = b[j]
    BY <1>1, SubSeqProperties DEF Before, f, y
<1>11. p \o Before(b) = w[n + 1]
    <2>1. w[n + 1] \in Seq(Symbols) /\ Len(w[n + 1]) = x + (f - 1)
        BY <1>1, <1>2, <1>9, Lined
    <2>2. /\ p \o Before(b) \in Seq(Symbols) /\ Len(p \o Before(b)) = x + (f - 1)
          /\ \A j \in 1 .. x + (f - 1) :
                (p \o Before(b))[j] = IF j <= x THEN p[j] ELSE Before(b)[j - x]
        <3>1. /\ p \o Before(b) \in Seq(Symbols)
              /\ Len(p \o Before(b)) = Len(p) + Len(Before(b))
              /\ \A j \in 1 .. Len(p) + Len(Before(b)) :
                    (p \o Before(b))[j] = IF j <= Len(p) THEN p[j] ELSE Before(b)[j - Len(p)]
            BY <1>2, <1>10, ConcatProperties, Zenon
        <3> QED
            BY <1>10, <3>1 DEF x
    <2>3. ASSUME NEW j \in 1 .. x + (f - 1) PROVE (p \o Before(b))[j] = w[n + 1][j]
        <3>1. s[j] = w[n + 1][j]
            BY <1>1, <1>2, <1>9
        <3>2. CASE j <= x
            BY <1>2, <1>a, <2>2, <3>1, <3>2
        <3>3. CASE ~ (j <= x)
            <4>1. j - x \in 1 .. f - 1 /\ j = x + (j - x)
                BY <1>1, <1>2, <3>3
            <4>2. (p \o Before(b))[j] = b[j - x]
                BY <1>10, <2>2, <3>3, <4>1
            <4>3. s[x + (j - x)] = b[j - x]
                <5>1. j - x \in 1 .. y
                    BY <1>1, <1>2, <4>1
                <5> QED
                    BY <1>b, <5>1
            <4> QED
                BY <3>1, <4>1, <4>2, <4>3
        <3> QED
            BY <3>2, <3>3
    <2> QED
        BY <2>1, <2>2, <2>3, SeqEqual
<1>12. /\ After(b) \in Seq(Symbols) /\ Len(After(b)) = y - f
       /\ \A j \in 1 .. y - f : After(b)[j] = b[f + j]
    BY <1>1, SubSeqProperties DEF After, f, y
<1>13. Follows(all, end[n + 1], After(b) \o r)
    <2> DEFINE t == After(b) \o r
    <2>1. /\ Len(t) = y - f + z
          /\ \A j \in 1 .. y - f + z :
                t[j] = IF j <= y - f THEN After(b)[j] ELSE r[j - (y - f)]
        BY <1>12, ConcatProperties DEF z
    <2>2. Len(all) = end[n] + Len(s) /\ \A i \in 1 .. Len(s) : all[end[n] + i] = s[i]
        BY <1>8 DEF Follows
    <2>3. end[n] \in Nat /\ Len(all) \in Nat
        BY DEF Framed
    <2>4. ASSUME NEW j \in 1 .. y - f + z PROVE t[j] = s[k + j]
        <3>1. CASE j <= y - f
            <4>1. t[j] = b[f + j]
                BY <1>1, <1>2, <1>12, <2>1, <3>1
            <4>2. f + j \in 1 .. y /\ x + (f + j) = k + j
                BY <1>1, <1>2, <3>1
            <4> QED
                BY <1>b, <4>1, <4>2
        <3>2. CASE ~ (j <= y - f)
            <4>1. j - (y - f) \in 1 .. z /\ x + y + (j - (y - f)) = k + j
                BY <1>1, <1>2, <3>2
            <4>2. t[j] = r[j - (y - f)]
                BY <2>1, <3>2
            <4> QED
                BY <1>c, <4>1, <4>2
        <3> QED
            BY <3>1, <3>2
    <2>5. Len(all) = end[n + 1] + Len(t)
        BY <1>1, <1>2, <1>4, <1>9, <2>1, <2>2, <2>3
    <2>6. ASSUME NEW j \in 1 .. y - f + z PROVE all[end[n + 1] + j] = t[j]
        <3>1. k + j \in 1 .. Len(s) /\ end[n + 1] + j = end[n] + (k + j)
            BY <1>1, <1>2, <1>4, <1>9, <2>3
        <3> QED
            BY <2>2, <2>4, <3>1
    <2> HIDE DEF t
    <2>7. Follows(all, end[n + 1], t)
        BY <2>1, <2>5, <2>6 DEF Follows
    <2> QED
        BY <2>7 DEF t
<1> QED
    BY <1>9, <1>11, <1>12, <1>13

(* A line that is begun is put after everything written before.            *)
LEMMA Begun ==
    ASSUME NEW all, NEW end, NEW w \in Seq(Lines), Framed(all, end, w),
           NEW l \in Lines, NEW n \in 0 .. Len(w), NEW s \in Seq(Symbols),
           Follows(all, end[n], s)
    PROVE  \E all2, end2 :
               /\ Framed(all2, end2, Append(w, l))
               /\ Follows(all2, end2[n], s \o Append(l, NewLine))
<1> DEFINE c == Append(l, NewLine)
           m == Len(w)
           a == Len(all)
           q == Len(l)
           all2 == all \o c
           end2 == [i \in 0 .. m + 1 |-> IF i <= m THEN end[i] ELSE a + q + 1]
<1>1. /\ c \in Seq(Symbols) /\ Len(c) = q + 1 /\ q \in Nat
      /\ c[q + 1] = NewLine /\ \A j \in 1 .. q : c[j] = l[j]
    BY Lined
<1>2. /\ all \in Seq(Symbols) /\ end \in [0 .. m -> 0 .. a] /\ end[m] = a
      /\ a \in Nat /\ m \in Nat
    BY DEF Framed
<1>3. /\ Append(w, l) \in Seq(Lines) /\ Len(Append(w, l)) = m + 1
      /\ \A i \in 1 .. m : Append(w, l)[i] = w[i]
      /\ Append(w, l)[m + 1] = l
    BY AppendProperties
<1>4. /\ all2 \in Seq(Symbols) /\ Len(all2) = a + (q + 1)
      /\ \A i \in 1 .. a + (q + 1) : all2[i] = IF i <= a THEN all[i] ELSE c[i - a]
    <2> HIDE DEF c, a, q
    <2>1. /\ all2 \in Seq(Symbols) /\ Len(all2) = Len(all) + Len(c)
          /\ \A i \in 1 .. Len(all) + Len(c) :
                all2[i] = IF i <= Len(all) THEN all[i] ELSE c[i - Len(all)]
        BY <1>1, <1>2, ConcatProperties, Zenon
    <2> QED
        BY <1>1, <2>1 DEF a
<1> HIDE DEF c, m, a, q, all2
<1>5. ASSUME NEW i \in 1 .. a PROVE all2[i] = all[i]
    <2>1. i \in 1 .. a + (q + 1) /\ i <= a
        BY <1>1, <1>2
    <2> QED
        BY <1>4, <2>1
<1>6. ASSUME NEW j \in 1 .. q + 1 PROVE all2[a + j] = c[j]
    <2>1. a + j \in 1 .. a + (q + 1) /\ ~ (a + j <= a) /\ (a + j) - a = j
        BY <1>1, <1>2
    <2> QED
        BY <1>4, <2>1
<1>7. end2 \in [0 .. m + 1 -> 0 .. Len(all2)]
    BY <1>1, <1>2, <1>4
<1>8. end2[m + 1] = Len(all2) /\ \A i \in 0 .. m : end2[i] = end[i]
    BY <1>1, <1>2, <1>4
<1> HIDE DEF end2
<1>9. ASSUME NEW i \in 1 .. m + 1
      PROVE  /\ end2[i] = end2[i - 1] + Len(Append(w, l)[i]) + 1
             /\ all2[end2[i]] = NewLine
             /\ \A j \in 1 .. Len(Append(w, l)[i]) :
                   all2[end2[i - 1] + j] = Append(w, l)[i][j]
    <2>1. CASE i = m + 1
        <3>1. i - 1 = m /\ m \in 0 .. m /\ Append(w, l)[i] = l
            BY <1>2, <1>3, <2>1
        <3>2. end2[i - 1] = a /\ end2[i] = a + (q + 1)
            BY <1>2, <1>4, <1>8, <2>1, <3>1
        <3>3. all2[a + (q + 1)] = NewLine
            BY <1>1, <1>6
        <3>4. \A j \in 1 .. q : all2[a + j] = l[j]
            BY <1>1, <1>6
        <3> QED
            BY <1>1, <1>2, <3>1, <3>2, <3>3, <3>4 DEF q
    <2>2. CASE i # m + 1
        <3>1. i \in 1 .. m /\ i \in 0 .. m /\ i - 1 \in 0 .. m
            BY <1>2, <2>2
        <3>2. /\ end[i] = end[i - 1] + Len(w[i]) + 1
              /\ all[end[i]] = NewLine
              /\ \A j \in 1 .. Len(w[i]) : all[end[i - 1] + j] = w[i][j]
            BY <3>1 DEF Framed, m
        <3>3. Append(w, l)[i] = w[i] /\ end2[i] = end[i] /\ end2[i - 1] = end[i - 1]
            BY <1>3, <1>8, <3>1
        <3>4. end[i] \in 0 .. a /\ end[i - 1] \in 0 .. a
            BY <1>2, <3>1
        <3>5. w[i] \in Lines
            BY <3>1 DEF m
        <3>6. Len(w[i]) \in Nat
            BY <3>5, Lined
        <3>7. end[i] \in 1 .. a
            BY <1>2, <3>2, <3>4, <3>6
        <3>8. ASSUME NEW j \in 1 .. Len(w[i]) PROVE end[i - 1] + j \in 1 .. a
            <4>1. PICK u \in Nat, v \in Nat : u = end[i - 1] /\ v = Len(w[i])
                BY <1>2, <3>4, <3>6
            <4>2. end[i] = u + v + 1 /\ end[i] \in 0 .. a
                BY <3>2, <3>4, <4>1
            <4>3. j \in 1 .. v
                BY <4>1
            <4>4. u + j \in 1 .. a
                BY <1>2, <4>2, <4>3
            <4> QED
                BY <4>1, <4>4
        <3>9. all2[end[i]] = NewLine
            BY <1>5, <3>2, <3>7
        <3>10. \A j \in 1 .. Len(w[i]) : all2[end[i - 1] + j] = w[i][j]
            BY <1>5, <3>2, <3>8
        <3> QED
            BY <3>2, <3>3, <3>9, <3>10
    <2> QED
        BY <2>1, <2>2
<1>10. Framed(all2, end2, Append(w, l))
    <2>1. end2[Len(Append(w, l))] = Len(all2)
        BY <1>3, <1>8
    <2>2. end2 \in [0 .. Len(Append(w, l)) -> 0 .. Len(all2)]
        BY <1>3, <1>7
    <2>3. all2 \in Seq(Symbols)
        BY <1>4
    <2>4. Len(Append(w, l)) = m + 1
        BY <1>3
    <2> QED
        BY <1>9, <2>1, <2>2, <2>3, <2>4 DEF Framed
<1>11. Follows(all2, end2[n], s \o c)
    <2> DEFINE e == Len(s)
               t == s \o c
    <2>1. e \in Nat /\ end[n] \in 0 .. a /\ end2[n] = end[n]
        BY <1>2, <1>8 DEF m
    <2>2. a = end[n] + e /\ \A i \in 1 .. e : all[end[n] + i] = s[i]
        BY DEF Follows, a
    <2>3. /\ Len(t) = e + (q + 1)
          /\ \A i \in 1 .. e + (q + 1) : t[i] = IF i <= e THEN s[i] ELSE c[i - e]
        <3>1. /\ Len(t) = Len(s) + Len(c)
              /\ \A i \in 1 .. Len(s) + Len(c) :
                    t[i] = IF i <= Len(s) THEN s[i] ELSE c[i - Len(s)]
            BY <1>1, ConcatProperties, Zenon
        <3> QED
            BY <1>1, <3>1
    <2> HIDE DEF e, t
    <2>4. ASSUME NEW i \in 1 .. e + (q + 1) PROVE all2[end[n] + i] = t[i]
        <3>1. CASE i <= e
            <4>1. i \in 1 .. e /\ end[n] + i \in 1 .. a
                BY <2>1, <2>2, <3>1
            <4> QED
                BY <1>5, <2>2, <2>3, <3>1, <4>1
        <3>2. CASE ~ (i <= e)
            <4>1. i - e \in 1 .. q + 1 /\ end[n] + i = a + (i - e)
                BY <1>1, <2>1, <2>2, <3>2
            <4> QED
                BY <1>6, <2>3, <3>2, <4>1
        <3> QED
            BY <3>1, <3>2
    <2>5. Len(all2) = end2[n] + Len(t)
        <3>1. PICK u \in Nat : u = end[n]
            BY <1>2, <2>1
        <3>2. a = u + e /\ end2[n] = u /\ Len(t) = e + (q + 1) /\ Len(all2) = a + (q + 1)
            BY <1>4, <2>1, <2>2, <2>3, <3>1
        <3> QED
            BY <1>1, <2>1, <3>2
    <2> QED
        BY <2>1, <2>3, <2>4, <2>5 DEF Follows, t
<1> QED
    BY <1>10, <1>11 DEF c

(* A line on its way into the pipe: only its last character is a newline.  *)
OneLine(c) == c # <<>> => c[Len(c)] = NewLine /\ \A i \in 1 .. Len(c) - 1 : c[i] # NewLine

(* When nothing is left in between, what was read of a line and what was   *)
(* not yet written of it are the last line, or both are nothing.           *)
LEMMA LastLine ==
    ASSUME NEW all, NEW end, NEW w \in Seq(Lines), Framed(all, end, w),
           NEW n \in 0 .. Len(w), NEW p \in Seq(Chars), NEW c \in Seq(Symbols), OneLine(c),
           Follows(all, end[n], p \o c)
    PROVE  /\ c = <<>> => p = <<>> /\ n = Len(w)
           /\ c # <<>> =>
                 /\ n + 1 = Len(w)
                 /\ Len(p) + Len(c) = Len(w[Len(w)]) + 1
                 /\ \/ p = w[Len(w)]
                    \/ p = <<>>
                    \/ \E k \in 1 .. Len(w[Len(w)]) - 1 : p = SubSeq(w[Len(w)], 1, k)
<1> DEFINE m == Len(w)
           a == Len(all)
           x == Len(p)
           y == Len(c)
           s == p \o c
<1>1. /\ m \in Nat /\ a \in Nat /\ x \in Nat /\ y \in Nat
      /\ end \in [0 .. m -> 0 .. a] /\ end[m] = a
    BY DEF Framed
<1>2. p \in Seq(Symbols) /\ \A i \in 1 .. x : p[i] # NewLine
    BY SeqMonotonic, PipeConstants DEF Symbols
<1>3. /\ s \in Seq(Symbols) /\ Len(s) = x + y
      /\ \A i \in 1 .. x + y : s[i] = IF i <= x THEN p[i] ELSE c[i - x]
    BY <1>2, ConcatProperties, Zenon
<1>4. /\ end[n] \in 0 .. a /\ a = end[n] + (x + y)
      /\ \A i \in 1 .. x + y : all[end[n] + i] = s[i]
    BY <1>1, <1>3 DEF Follows
<1>5. ASSUME NEW i \in 1 .. m
      PROVE  /\ i \in 0 .. m /\ i - 1 \in 0 .. m /\ w[i] \in Lines /\ Len(w[i]) \in Nat
             /\ end[i] \in 0 .. a /\ end[i - 1] \in 0 .. a
             /\ end[i] = end[i - 1] + Len(w[i]) + 1 /\ all[end[i]] = NewLine
    <2>1. i \in 0 .. m /\ i - 1 \in 0 .. m /\ w[i] \in Lines
        BY <1>1
    <2>2. Len(w[i]) \in Nat
        BY <2>1, Lined
    <2> QED
        BY <1>1, <2>1, <2>2 DEF Framed
<1> HIDE DEF s, m, a, x, y
<1>6. ASSUME c = <<>> PROVE p = <<>> /\ n = m
    <2>1. y = 0
        BY <1>6 DEF y
    <2>2. ASSUME n # m PROVE FALSE
        <3>1. n + 1 \in 1 .. m /\ (n + 1) - 1 = n
            BY <1>1, <2>2 DEF m
        <3>2. PICK q \in Nat : end[n + 1] = end[n] + q + 1 /\ end[n + 1] \in 0 .. a
            BY <1>5, <3>1
        <3>3. q + 1 \in 1 .. x /\ q + 1 \in 1 .. x + y /\ end[n + 1] = end[n] + (q + 1)
            <4>1. PICK u \in Nat : u = end[n]
                BY <1>4
            <4>2. u + q + 1 <= u + x
                BY <1>1, <1>4, <2>1, <3>2, <4>1
            <4>3. q + 1 \in 1 .. x /\ u + q + 1 = u + (q + 1)
                BY <1>1, <4>2
            <4>4. q + 1 \in 1 .. x + y
                BY <1>1, <2>1, <4>3
            <4> QED
                BY <3>2, <4>1, <4>3, <4>4
        <3>4. all[end[n + 1]] = p[q + 1]
            <4>1. all[end[n] + (q + 1)] = s[q + 1]
                BY <1>4, <3>3
            <4>2. s[q + 1] = p[q + 1]
                BY <1>3, <3>3
            <4> QED
                BY <3>3, <4>1, <4>2
        <3> QED
            BY <1>2, <1>5, <3>1, <3>3, <3>4
    <2>3. x = 0
        BY <1>1, <1>4, <2>1, <2>2
    <2> QED
        BY <2>2, <2>3, EmptySeq DEF x
<1>7. ASSUME c # <<>>
      PROVE  /\ n + 1 = m
             /\ x + y = Len(w[m]) + 1
             /\ p = w[m] \/ p = <<>> \/ \E k \in 1 .. Len(w[m]) - 1 : p = SubSeq(w[m], 1, k)
    <2> DEFINE k == x + y
    <2>1. /\ y \in Nat \ {0} /\ c[y] = NewLine
          /\ \A i \in 1 .. y - 1 : c[i] # NewLine
        BY <1>7, EmptySeq DEF OneLine, y
    <2>2. k \in 1 .. Len(s) /\ ~ (k <= x) /\ k - x = y
        BY <1>1, <1>3, <2>1
    <2>3. s[k] = NewLine
        BY <1>3, <2>1, <2>2
    <2>4. ASSUME NEW j \in 1 .. k - 1 PROVE s[j] # NewLine
        <3>1. CASE j <= x
            BY <1>1, <1>2, <1>3, <2>1, <3>1
        <3>2. CASE ~ (j <= x)
            <4>1. j - x \in 1 .. y - 1 /\ j \in 1 .. x + y
                BY <1>1, <2>1, <3>2
            <4> QED
                BY <1>3, <2>1, <3>2, <4>1
        <3> QED
            BY <3>1, <3>2
    <2>5. s \in Seq(Symbols) /\ Follows(all, end[n], s)
        BY <1>3 DEF s
    <2> HIDE DEF k
    <2>6. \A j \in 1 .. k - 1 : s[j] # NewLine
        BY <2>4
    <2>7. /\ n + 1 \in 1 .. Len(w)
          /\ k = Len(w[n + 1]) + 1
          /\ end[n + 1] = end[n] + k
          /\ \A j \in 1 .. k - 1 : s[j] = w[n + 1][j]
        BY <2>2, <2>3, <2>5, <2>6, NextLine
    <2>8. n + 1 = m
        <3>1. end[n + 1] = a
            BY <1>4, <2>7 DEF k
        <3>2. ASSUME n + 1 # m PROVE FALSE
            <4>1. n + 2 \in 1 .. m /\ (n + 2) - 1 = n + 1
                BY <1>1, <2>7, <3>2 DEF m
            <4>2. PICK q \in Nat : end[n + 2] = end[n + 1] + q + 1 /\ end[n + 2] \in 0 .. a
                BY <1>5, <4>1
            <4> QED
                BY <1>1, <3>1, <4>2
        <3> QED
            BY <3>2
    <2>9. w[m] \in Seq(Chars) /\ w[m] \in Seq(Symbols) /\ Len(w[m]) = x + (y - 1)
        <3>1. w[m] \in Lines
            BY <2>7, <2>8
        <3>2. w[m] \in Seq(Chars) /\ w[m] \in Seq(Symbols) /\ Len(w[m]) \in Nat
            BY <3>1, Lined
        <3>3. k = Len(w[m]) + 1
            BY <2>7, <2>8
        <3> QED
            BY <1>1, <2>1, <3>2, <3>3 DEF k
    <2>10. ASSUME NEW j \in 1 .. x PROVE p[j] = w[m][j]
        <3>1. j \in 1 .. k - 1 /\ j \in 1 .. x + y /\ j <= x
            BY <1>1, <2>1 DEF k
        <3> QED
            BY <1>3, <2>7, <2>8, <3>1
    <2>11. CASE x = Len(w[m])
        <3>1. p = w[m]
            BY <1>2, <2>9, <2>10, <2>11, SeqEqual DEF x
        <3> QED
            BY <1>1, <2>1, <2>8, <2>9, <3>1
    <2>12. CASE x # Len(w[m]) /\ x # 0
        <3>1. x \in 1 .. Len(w[m]) - 1
            BY <1>1, <2>1, <2>9, <2>12
        <3>2. \A j \in 1 .. x : w[m][j] \in Symbols
            BY <1>1, <2>9, <3>1
        <3>3. /\ SubSeq(w[m], 1, x) \in Seq(Symbols) /\ Len(SubSeq(w[m], 1, x)) = x
              /\ \A j \in 1 .. x : SubSeq(w[m], 1, x)[j] = w[m][j]
            BY <1>1, <2>12, <3>2, SubSeqProperties
        <3>4. p = SubSeq(w[m], 1, x)
            BY <1>2, <2>10, <3>3, SeqEqual DEF x
        <3> QED
            BY <1>1, <2>1, <2>8, <2>9, <3>1, <3>4
    <2>13. CASE x = 0
        <3>1. p = <<>>
            BY <2>13, EmptySeq DEF x
        <3> QED
            BY <1>1, <2>1, <2>8, <2>9, <3>1
    <2> QED
        BY <2>11, <2>12, <2>13
<1> QED
    BY <1>6, <1>7 DEF m, x, y

-----------------------------------------------------------------------------
(* The inductive invariant.                                                *)
PipeTypes ==
    /\ side \in {"python", "cpp"}
    /\ written \in Seq(Lines) /\ left \in Seq(Symbols) /\ pipe \in Seq(Symbols)
    /\ proc \in {"running", "closed", "exited"} /\ crashed \in BOOLEAN
    /\ buffer \in Seq(Symbols) \cup {NoBuffer} /\ partial \in Seq(Chars)
    /\ status \in {"running", "process_done", "receive_done"}
    /\ raised \in BOOLEAN /\ lost \in BOOLEAN
    /\ got \in Seq(Seq(Chars))

(* How far the two ends can be apart: the reader learns of the end of the  *)
(* process after it, and a process that ended within a line has crashed.   *)
Ends ==
    /\ side = "cpp" => proc = "running" /\ status = "running" /\ buffer # NoBuffer
    /\ status # "running" => proc = "exited"
    /\ lost => status # "running"
    /\ proc = "running" => ~ crashed
    /\ proc # "running" /\ left # <<>> => crashed

Buf == IF buffer = NoBuffer THEN <<>> ELSE buffer

(* What is not handed out yet, in the order it was written; between is in  *)
(* the pipe, unless communicate() took it.                                 *)
Ahead(between) == ((partial \o Buf) \o between) \o left

(* The lines handed out are the first ones written, and what is ahead      *)
(* goes on where they end.                                                 *)
Handed ==
    /\ Len(got) <= Len(written)
    /\ \A i \in 1 .. Len(got) : got[i] = written[i]

Streams ==
    \E all, end, between :
        /\ between \in Seq(Symbols) /\ (~ lost => between = pipe)
        /\ Framed(all, end, written)
        /\ Follows(all, end[Len(got)], Ahead(between))

PipeInv ==
    /\ PipeTypes
    /\ Ends
    /\ OneLine(left)
    /\ status # "receive_done" => Handed /\ Streams
    /\ CleanEndComplete

(* The next line is handed out, or nothing is.                             *)
HandsNext ==
    \/ got' = got
    \/ Len(got) + 1 \in 1 .. Len(written) /\ got' = Append(got, written[Len(got) + 1])

(* One call of TakeLine on what is buffered or was just read.              *)
LEMMA TakeStep ==
    ASSUME PipeTypes, NEW all, NEW end, Framed(all, end, written), Len(got) \in 0 .. Len(written),
           NEW b \in Seq(Symbols), NEW r \in Seq(Symbols),
           Follows(all, end[Len(got)], (partial \o b) \o r),
           NEW none \in {NoBuffer, <<>>}, TakeLine(b, none)
    PROVE  /\ partial' \in Seq(Chars) /\ got' \in Seq(Seq(Chars))
           /\ buffer' \in Seq(Symbols) \cup {none}
           /\ HandsNext
           /\ Follows(all, end[Len(got')], (partial' \o Buf') \o r)
<1>0. /\ written \in Seq(Lines) /\ partial \in Seq(Chars) /\ partial \in Seq(Symbols)
      /\ got \in Seq(Seq(Chars))
    BY SeqMonotonic DEF PipeTypes, Symbols
<1>1. CASE Contains(b, NewLine)
    <2>1. /\ got' = Append(got, partial \o Before(b)) /\ partial' = <<>>
          /\ buffer' = After(b)
        BY <1>1 DEF TakeLine
    <2>2. /\ Len(got) + 1 \in 1 .. Len(written)
          /\ partial \o Before(b) = written[Len(got) + 1]
          /\ After(b) \in Seq(Symbols)
          /\ Follows(all, end[Len(got) + 1], After(b) \o r)
        BY <1>0, <1>1, CutLine
    <2>3. written[Len(got) + 1] \in Lines
        BY <1>0, <2>2
    <2>4. written[Len(got) + 1] \in Seq(Chars)
        BY <2>3, Lined
    <2>5. got' \in Seq(Seq(Chars)) /\ Len(got') = Len(got) + 1
        BY <1>0, <2>1, <2>2, <2>4, AppendProperties
    <2>6. buffer' # NoBuffer
        BY <2>1, <2>2, PipeConstants
    <2>7. partial' \o Buf' = After(b)
        BY <2>1, <2>2, <2>6, ConcatEmptySeq DEF Buf
    <2>8. partial' \in Seq(Chars)
        BY <2>1, EmptySeq
    <2> QED
        BY <2>1, <2>2, <2>5, <2>7, <2>8 DEF HandsNext
<1>2. CASE ~ Contains(b, NewLine)
    <2>1. got' = got /\ partial' = partial \o b /\ buffer' = none
        BY <1>2 DEF TakeLine
    <2>2. b \in Seq(Chars)
        <3>1. \A i \in 1 .. Len(b) : b[i] \in Chars
            BY <1>2 DEF Contains, Symbols
        <3> QED
            BY <3>1
    <2>3. partial' \in Seq(Chars)
        BY <1>0, <2>1, <2>2, ConcatProperties
    <2>4. Buf' = <<>>
        BY <2>1 DEF Buf
    <2>5. partial' \in Seq(Symbols)
        BY <2>3, SeqMonotonic DEF Symbols
    <2>6. partial' \o Buf' = partial \o b
        BY <2>1, <2>4, <2>5, ConcatEmptySeq
    <2> QED
        BY <1>0, <2>1, <2>3, <2>6 DEF HandsNext
<1> QED
    BY <1>1, <1>2

(* Concatenation, grouped as the steps need it.                            *)
LEMMA Regroup ==
    \A p, b, g \in Seq(Symbols) :
        /\ p \o b \in Seq(Symbols)
        /\ (p \o b) \o g = p \o (b \o g)
BY ConcatProperties, ConcatAssociative

(* A sequence cut in two.                                                  *)
LEMMA Pieces ==
    ASSUME NEW c \in Seq(Symbols), NEW k \in 0 .. Len(c)
    PROVE  /\ SubSeq(c, 1, k) \in Seq(Symbols) /\ SubSeq(c, k + 1, Len(c)) \in Seq(Symbols)
           /\ SubSeq(c, 1, k) \o SubSeq(c, k + 1, Len(c)) = c
           /\ Len(SubSeq(c, k + 1, Len(c))) = Len(c) - k
           /\ \A i \in 1 .. Len(c) - k : SubSeq(c, k + 1, Len(c))[i] = c[k + i]
<1> DEFINE n == Len(c)
<1>1. n \in Nat
    OBVIOUS
<1>2. 1 \in 1 .. n + 1 /\ k \in 1 - 1 .. n /\ n \in k .. n
    BY <1>1
<1>3. SubSeq(c, 1, k) \o SubSeq(c, k + 1, n) = SubSeq(c, 1, n)
    BY <1>2, ConcatAdjacentSubSeq
<1>4. SubSeq(c, 1, n) = c
    BY SubSeqFull
<1>5. (\A i \in 1 .. k : c[i] \in Symbols) /\ \A i \in k + 1 .. n : c[i] \in Symbols
    BY <1>1
<1>6. SubSeq(c, 1, k) \in Seq(Symbols)
    BY <1>1, <1>5, SubSeqProperties
<1>7. /\ SubSeq(c, k + 1, n) \in Seq(Symbols)
      /\ Len(SubSeq(c, k + 1, n)) = IF k + 1 <= n THEN n - (k + 1) + 1 ELSE 0
      /\ \A i \in 1 .. n - (k + 1) + 1 : SubSeq(c, k + 1, n)[i] = c[k + 1 + i - 1]
    BY <1>1, <1>5, SubSeqProperties
<1>8. Len(SubSeq(c, k + 1, n)) = n - k
    BY <1>1, <1>7
<1>9. ASSUME NEW i \in 1 .. n - k PROVE SubSeq(c, k + 1, n)[i] = c[k + i]
    <2>1. i \in 1 .. n - (k + 1) + 1 /\ k + 1 + i - 1 = k + i
        BY <1>1
    <2> QED
        BY <1>7, <2>1
<1> QED
    BY <1>3, <1>4, <1>6, <1>7, <1>8, <1>9

(* A read that takes a line, or the beginning of one.                      *)
LEMMA ReadStep ==
    ASSUME PipeInv, ReceiveBuffered \/ ReceiveFresh \/ ReadCommand
    PROVE  /\ partial' \in Seq(Chars) /\ got' \in Seq(Seq(Chars))
           /\ buffer' \in Seq(Symbols) \cup {IF side = "cpp" THEN <<>> ELSE NoBuffer}
           /\ pipe' \in Seq(Symbols)
           /\ HandsNext
           /\ status # "receive_done" /\ Streams'
<1>0. PipeTypes /\ Ends
    BY DEF PipeInv
<1>1. status # "receive_done"
    BY <1>0 DEF Ends, ReceiveBuffered, ReceiveFresh, ReadCommand, MayReceive
<1>2. PICK all, end, between :
          /\ between \in Seq(Symbols) /\ (~ lost => between = pipe)
          /\ Framed(all, end, written)
          /\ Follows(all, end[Len(got)], Ahead(between))
    BY <1>1 DEF PipeInv, Streams
<1>3. Len(got) \in 0 .. Len(written)
    BY <1>0, <1>1 DEF PipeInv, Handed, PipeTypes
<1>4. /\ partial \in Seq(Symbols) /\ left \in Seq(Symbols) /\ pipe \in Seq(Symbols)
      /\ buffer \in Seq(Symbols) \cup {NoBuffer}
    BY <1>0, SeqMonotonic DEF PipeTypes, Symbols
<1>5. UNCHANGED <<writerVars, lost>>
    BY DEF ReceiveBuffered, ReceiveFresh, ReadCommand
(* b is what TakeLine gets, g what it leaves in the pipe.                  *)
<1>6. ASSUME NEW b \in Seq(Symbols), NEW g \in Seq(Symbols),
             NEW none \in {NoBuffer, <<>>}, TakeLine(b, none),
             Ahead(between) = ((partial \o b) \o g) \o left,
             ~ lost => pipe' = g
      PROVE  /\ partial' \in Seq(Chars) /\ got' \in Seq(Seq(Chars))
             /\ buffer' \in Seq(Symbols) \cup {none}
             /\ HandsNext /\ Streams'
    <2>1. g \o left \in Seq(Symbols)
        BY <1>4, ConcatProperties
    <2>2. Follows(all, end[Len(got)], (partial \o b) \o (g \o left))
        <3>1. partial \o b \in Seq(Symbols)
            BY <1>4, Regroup
        <3>2. ((partial \o b) \o g) \o left = (partial \o b) \o (g \o left)
            BY <1>4, <3>1, Regroup
        <3> QED
            BY <1>2, <1>6, <3>2
    <2>3. /\ partial' \in Seq(Chars) /\ got' \in Seq(Seq(Chars))
          /\ buffer' \in Seq(Symbols) \cup {none}
          /\ HandsNext
          /\ Follows(all, end[Len(got')], (partial' \o Buf') \o (g \o left))
        BY <1>0, <1>2, <1>3, <1>6, <2>1, <2>2, TakeStep
    <2>4. partial' \in Seq(Symbols) /\ Buf' \in Seq(Symbols)
        <3>1. partial' \in Seq(Symbols)
            BY <2>3, SeqMonotonic DEF Symbols
        <3>2. Buf' \in Seq(Symbols)
            BY <2>3, EmptySeq DEF Buf
        <3> QED
            BY <3>1, <3>2
    <2>5. ((partial' \o Buf') \o g) \o left = (partial' \o Buf') \o (g \o left)
        <3>1. partial' \o Buf' \in Seq(Symbols)
            BY <2>4, Regroup
        <3> QED
            BY <1>4, <3>1, Regroup
    <2>6. Ahead(g)' = ((partial' \o Buf') \o g) \o left
        BY <1>5 DEF Ahead, writerVars
    <2>7. written' = written /\ lost' = lost
        BY <1>5 DEF writerVars
    <2>8. Streams'
        BY <1>2, <1>6, <2>3, <2>5, <2>6, <2>7 DEF Streams
    <2> QED
        BY <2>3, <2>8
<1>7. CASE ReceiveBuffered
    <2>1. side # "cpp" /\ buffer \in Seq(Symbols) /\ TakeLine(buffer, NoBuffer) /\ pipe' = pipe
        BY <1>4, <1>7 DEF ReceiveBuffered, MayReceive
    <2>2. Ahead(between) = ((partial \o buffer) \o between) \o left
        BY <1>7 DEF Ahead, Buf, ReceiveBuffered
    <2> QED
        BY <1>1, <1>2, <1>4, <1>6, <2>1, <2>2
<1>8. CASE ReceiveFresh
    <2>1. side # "cpp" /\ ~ lost /\ buffer = NoBuffer /\ TakeLine(pipe, NoBuffer) /\ pipe' = <<>>
        BY <1>8 DEF ReceiveFresh, MayReceive
    <2>2. <<>> \in Seq(Symbols) /\ partial \o <<>> = partial
        BY <1>4, ConcatEmptySeq, EmptySeq
    <2>3. (partial \o pipe) \o <<>> = partial \o pipe
        BY <1>4, ConcatEmptySeq, ConcatProperties
    <2>4. Ahead(between) = ((partial \o pipe) \o <<>>) \o left
        BY <1>2, <2>1, <2>2, <2>3 DEF Ahead, Buf
    <2> QED
        BY <1>1, <1>4, <1>6, <2>1, <2>2, <2>4
<1>9. CASE ReadCommand
    <2> DEFINE size == IF Len(pipe) < ReadSize THEN Len(pipe) ELSE ReadSize
               b == SubSeq(pipe, 1, size)
               g == SubSeq(pipe, size + 1, Len(pipe))
    <2>1. side = "cpp" /\ ~ lost /\ buffer # NoBuffer /\ between = pipe
        BY <1>0, <1>2, <1>9 DEF ReadCommand, Ends
    <2>2. CASE buffer = <<>>
        <3>1. TakeLine(b, <<>>) /\ pipe' = g
            BY <1>9, <2>2 DEF ReadCommand
        <3>2. size \in 0 .. Len(pipe) /\ Len(pipe) \in Nat
            BY <1>4, PipeConstants
        <3>3. PICK u \in Seq(Symbols), v \in Seq(Symbols) : u = b /\ v = g /\ u \o v = pipe
            <4> HIDE DEF size
            <4>1. b \in Seq(Symbols) /\ g \in Seq(Symbols) /\ b \o g = pipe
                BY <1>4, <3>2, Pieces
            <4> HIDE DEF b, g
            <4> QED
                BY <4>1
        <3>4. TakeLine(u, <<>>) /\ pipe' = v
            BY <3>1, <3>3
        <3> HIDE DEF b, g, size
        <3>5. partial \o <<>> = partial
            BY <1>4, ConcatEmptySeq
        <3>6. (partial \o u) \o v = partial \o pipe
            <4>1. partial \in Seq(Symbols)
                BY <1>4
            <4>2. (partial \o u) \o v = partial \o (u \o v)
                BY <4>1, Regroup
            <4> QED
                BY <3>3, <4>2, Zenon
        <3>7. Ahead(between) = ((partial \o u) \o v) \o left
            BY <2>1, <2>2, <3>5, <3>6 DEF Ahead, Buf
        <3> QED
            BY <1>1, <1>6, <2>1, <3>4, <3>7
    <2>3. CASE buffer # <<>>
        <3>1. TakeLine(buffer, <<>>) /\ pipe' = pipe /\ buffer \in Seq(Symbols)
            BY <1>4, <1>9, <2>1, <2>3 DEF ReadCommand
        <3>2. Ahead(between) = ((partial \o buffer) \o pipe) \o left
            BY <2>1 DEF Ahead, Buf
        <3> QED
            BY <1>1, <1>4, <1>6, <2>1, <3>1, <3>2
    <2> QED
        BY <2>2, <2>3
<1> QED
    BY <1>7, <1>8, <1>9

(* The end of the pipe: the last message is what was read of a line, and   *)
(* only a crash can have left one cut.                                     *)
LEMMA EndStep ==
    ASSUME PipeInv, ReceiveEnd
    PROVE  /\ got' \in Seq(Seq(Chars))
           /\ CleanEndComplete'
           /\ \/ got' = got
              \/ /\ Len(got) + 1 = Len(written)
                 /\ \/ got' = Append(got, written[Len(got) + 1])
                    \/ /\ crashed
                       /\ \E k \in 1 .. Len(written[Len(written)]) - 1 :
                             got' = Append(got, SubSeq(written[Len(written)], 1, k))
<1>0. PipeTypes /\ Ends /\ OneLine(left)
    BY DEF PipeInv
<1>1. /\ status # "receive_done" /\ buffer = NoBuffer /\ ~ lost /\ pipe = <<>> /\ proc = "exited"
      /\ buffer' = buffer /\ pipe' = pipe /\ UNCHANGED writerVars
      /\ got' = IF partial = <<>> THEN got ELSE Append(got, partial)
    BY DEF ReceiveEnd, MayReceive
<1>2. PICK all, end, between :
          /\ between \in Seq(Symbols) /\ (~ lost => between = pipe)
          /\ Framed(all, end, written)
          /\ Follows(all, end[Len(got)], Ahead(between))
    BY <1>1 DEF PipeInv, Streams
<1>3. /\ Len(got) \in 0 .. Len(written) /\ written \in Seq(Lines) /\ left \in Seq(Symbols)
      /\ partial \in Seq(Chars) /\ got \in Seq(Seq(Chars))
    BY <1>0, <1>1 DEF PipeInv, Handed, PipeTypes
<1>4. Ahead(between) = partial \o left
    <2>1. partial \in Seq(Symbols)
        BY <1>3, SeqMonotonic DEF Symbols
    <2>2. partial \o <<>> = partial
        BY <2>1, ConcatEmptySeq
    <2> QED
        BY <1>1, <1>2, <2>2 DEF Ahead, Buf
<1>5. /\ left = <<>> => partial = <<>> /\ Len(got) = Len(written)
      /\ left # <<>> =>
            /\ Len(got) + 1 = Len(written)
            /\ Len(partial) + Len(left) = Len(written[Len(written)]) + 1
            /\ \/ partial = written[Len(written)]
               \/ partial = <<>>
               \/ \E k \in 1 .. Len(written[Len(written)]) - 1 :
                     partial = SubSeq(written[Len(written)], 1, k)
    <2>1. Follows(all, end[Len(got)], partial \o left)
        BY <1>2, <1>4
    <2> QED
        BY <1>0, <1>2, <1>3, <2>1, LastLine
<1>6. left # <<>> => crashed
    BY <1>0, <1>1 DEF Ends
<1>7. CASE partial = <<>>
    <2>1. got' = got
        BY <1>1, <1>7
    <2>2. left # <<>> => Len(left) = Len(written[Len(written)]) + 1
        BY <1>3, <1>5, <1>7, EmptySeq
    <2> QED
        BY <1>1, <1>3, <1>5, <1>6, <2>1, <2>2 DEF CleanEndComplete, writerVars
<1>8. CASE partial # <<>>
    <2>1. got' = Append(got, partial) /\ left # <<>>
        BY <1>1, <1>5, <1>8
    <2>2. got' \in Seq(Seq(Chars)) /\ Len(got') = Len(written)
        BY <1>3, <1>5, <2>1, AppendProperties
    <2>3. CleanEndComplete'
        BY <1>1, <1>3, <2>2 DEF CleanEndComplete, writerVars
    <2> QED
        BY <1>5, <1>6, <1>8, <2>1, <2>2, <2>3
<1> QED
    BY <1>7, <1>8

(* The next line is the right one.                                         *)
LEMMA HandedStep ==
    ASSUME PipeTypes, Handed, HandsNext, UNCHANGED written
    PROVE  Handed'
<1>1. got \in Seq(Seq(Chars)) /\ written \in Seq(Lines) /\ Len(got) \in Nat /\ Len(written) \in Nat
    BY DEF PipeTypes
<1>2. CASE got' = got
    BY <1>2 DEF Handed
<1>3. CASE Len(got) + 1 \in 1 .. Len(written) /\ got' = Append(got, written[Len(got) + 1])
    <2>1. written[Len(got) + 1] \in Seq(Chars)
        <3>1. written[Len(got) + 1] \in Lines
            BY <1>1, <1>3
        <3> QED
            BY <3>1, Lined
    <2>2. /\ Len(got') = Len(got) + 1
          /\ \A i \in 1 .. Len(got) : got'[i] = got[i]
          /\ got'[Len(got) + 1] = written[Len(got) + 1]
        BY <1>1, <1>3, <2>1, AppendProperties
    <2> QED
        BY <1>1, <1>3, <2>2 DEF Handed
<1> QED
    BY <1>2, <1>3 DEF HandsNext

(* The writer goes on to the next line, which is then ahead of the reader. *)
LEMMA BeginStep ==
    ASSUME PipeInv, BeginLine
    PROVE  PipeInv'
<1>0. PipeTypes /\ Ends
    BY DEF PipeInv
<1>1. PICK l \in Lines : written' = Append(written, l) /\ left' = Append(l, NewLine)
    BY DEF BeginLine
<1>2. proc = "running" /\ left = <<>> /\ UNCHANGED <<side, proc, crashed, pipe, readerVars>>
    BY DEF BeginLine
<1>3. status = "running" /\ ~ lost
    BY <1>0, <1>2 DEF Ends
<1>4. /\ written \in Seq(Lines) /\ written' \in Seq(Lines) /\ left' \in Seq(Symbols)
      /\ Len(written') = Len(written) + 1
      /\ \A i \in 1 .. Len(written) : written'[i] = written[i]
    BY <1>0, <1>1, Lined, AppendProperties DEF PipeTypes
<1>5. PipeTypes'
    BY <1>0, <1>2, <1>4 DEF PipeTypes, readerVars
<1>6. Ends'
    BY <1>0, <1>2 DEF Ends, readerVars
<1>7. OneLine(left)'
    <2>1. left' = Append(l, NewLine)
        BY <1>1
    <2>2. /\ Len(left') = Len(l) + 1 /\ Len(l) \in Nat /\ left'[Len(l) + 1] = NewLine
          /\ \A i \in 1 .. Len(l) : left'[i] = l[i] /\ l[i] # NewLine
        BY <2>1, Lined
    <2> QED
        BY <2>2 DEF OneLine
<1>8. Handed'
    BY <1>0, <1>2, <1>3, <1>4 DEF PipeInv, Handed, PipeTypes, readerVars
<1>9. Streams'
    <2>1. PICK all, end, between :
              /\ between \in Seq(Symbols) /\ (~ lost => between = pipe)
              /\ Framed(all, end, written)
              /\ Follows(all, end[Len(got)], Ahead(between))
        BY <1>3 DEF PipeInv, Streams
    <2> DEFINE s == (partial \o Buf) \o between
    <2>2. s \in Seq(Symbols)
        <3>1. partial \in Seq(Symbols)
            BY <1>0, SeqMonotonic DEF PipeTypes, Symbols
        <3>2. Buf \in Seq(Symbols)
            BY <1>0, EmptySeq DEF PipeTypes, Buf
        <3>3. partial \o Buf \in Seq(Symbols)
            BY <3>1, <3>2, Regroup
        <3> QED
            BY <2>1, <3>3, Regroup
    <2>3. Ahead(between) = s
        BY <1>2, <2>2, ConcatEmptySeq DEF Ahead
    <2>4. Ahead(between)' = s \o Append(l, NewLine)
        BY <1>1, <1>2 DEF Ahead, Buf, readerVars
    <2>5. Len(got) \in 0 .. Len(written)
        BY <1>0, <1>3 DEF PipeInv, Handed, PipeTypes
    <2> HIDE DEF s
    <2>6. PICK all2, end2 :
              /\ Framed(all2, end2, Append(written, l))
              /\ Follows(all2, end2[Len(got)], s \o Append(l, NewLine))
        BY <1>4, <2>1, <2>2, <2>3, <2>5, Begun
    <2>7. /\ Framed(all2, end2, written')
          /\ Follows(all2, end2[Len(got')], Ahead(between)')
          /\ (~ lost' => between = pipe')
        BY <1>1, <1>2, <2>1, <2>4, <2>6 DEF readerVars
    <2> QED
        BY <2>1, <2>7 DEF Streams
<1>10. CleanEndComplete'
    BY <1>2, <1>3 DEF CleanEndComplete, readerVars
<1> QED
    BY <1>5, <1>6, <1>7, <1>8, <1>9, <1>10 DEF PipeInv

(* A piece moves from the line into the pipe; the stream stays as it is.   *)
LEMMA WriteStep ==
    ASSUME PipeInv, WritePiece
    PROVE  PipeInv'
<1>0. PipeTypes /\ Ends /\ OneLine(left)
    BY DEF PipeInv
<1>1. PICK k \in 1 .. Len(left) :
          pipe' = pipe \o SubSeq(left, 1, k) /\ left' = SubSeq(left, k + 1, Len(left))
    BY DEF WritePiece
<1>2. proc = "running" /\ UNCHANGED <<side, written, proc, crashed, readerVars>>
    BY DEF WritePiece
<1>3. status = "running" /\ ~ lost
    BY <1>0, <1>2 DEF Ends
<1>4. /\ partial \in Seq(Symbols) /\ Buf \in Seq(Symbols) /\ pipe \in Seq(Symbols)
      /\ left \in Seq(Symbols) /\ Len(left) \in Nat
    BY <1>0, SeqMonotonic, EmptySeq DEF PipeTypes, Symbols, Buf
<1>5. PICK u \in Seq(Symbols), v \in Seq(Symbols) :
          /\ u = SubSeq(left, 1, k) /\ v = SubSeq(left, k + 1, Len(left)) /\ u \o v = left
          /\ Len(v) = Len(left) - k /\ \A i \in 1 .. Len(left) - k : v[i] = left[k + i]
    <2>1. k \in 0 .. Len(left)
        OBVIOUS
    <2> QED
        BY <1>4, <2>1, Pieces
<1>6. pipe' = pipe \o u /\ left' = v /\ pipe' \in Seq(Symbols)
    BY <1>1, <1>4, <1>5, Regroup
<1>7. PipeTypes'
    BY <1>0, <1>2, <1>6 DEF PipeTypes, readerVars
<1>8. Ends'
    BY <1>0, <1>2 DEF Ends, readerVars
<1>9. OneLine(left)'
    <2>1. ASSUME v # <<>> PROVE v[Len(v)] = NewLine /\ \A i \in 1 .. Len(v) - 1 : v[i] # NewLine
        <3>1. Len(v) \in Nat \ {0}
            BY <2>1, EmptySeq
        <3>2. Len(v) = Len(left) - k
            BY <1>5
        <3>3. \A i \in 1 .. Len(v) : v[i] = left[k + i]
            BY <1>5, <3>2
        <3>4. left # <<>>
            BY <1>4, EmptySeq
        <3>5. left[Len(left)] = NewLine /\ \A i \in 1 .. Len(left) - 1 : left[i] # NewLine
            BY <1>0, <3>4 DEF OneLine
        <3>6. v[Len(v)] = NewLine
            <4>1. Len(v) \in 1 .. Len(v) /\ k + Len(v) = Len(left)
                BY <1>4, <3>1, <3>2
            <4> QED
                BY <3>3, <3>5, <4>1
        <3>7. ASSUME NEW i \in 1 .. Len(v) - 1 PROVE v[i] # NewLine
            <4>1. i \in 1 .. Len(v) /\ k + i \in 1 .. Len(left) - 1
                BY <1>4, <3>1, <3>2
            <4> QED
                BY <3>3, <3>5, <4>1
        <3> QED
            BY <3>6, <3>7
    <2> QED
        BY <1>6, <2>1 DEF OneLine
<1>10. Handed'
    BY <1>2, <1>3 DEF PipeInv, Handed, readerVars
<1>11. Streams'
    <2>1. PICK all, end, between :
              /\ between \in Seq(Symbols) /\ (~ lost => between = pipe)
              /\ Framed(all, end, written)
              /\ Follows(all, end[Len(got)], Ahead(between))
        BY <1>3 DEF PipeInv, Streams
    <2> DEFINE p == partial \o Buf
    <2>2. p \in Seq(Symbols)
        BY <1>4, Regroup
    <2>3. Ahead(between) = (p \o pipe) \o left
        BY <1>3, <2>1 DEF Ahead
    <2>g. PICK g \in Seq(Symbols) : g = pipe' /\ g = pipe \o u
        BY <1>6
    <2>4. Ahead(g)' = (p \o (pipe \o u)) \o v
        BY <1>2, <1>6, <2>g DEF Ahead, Buf, readerVars
    <2> HIDE DEF p
    <2>5. (p \o (pipe \o u)) \o v = (p \o pipe) \o left
        <3>0. PICK x \in Seq(Symbols), y \in Seq(Symbols) : x = p /\ y = pipe
            BY <1>4, <2>2
        <3>1. p \o pipe \in Seq(Symbols)
            BY <3>0, Regroup
        <3>2. p \o (pipe \o u) = (p \o pipe) \o u
            <4>1. x \o (y \o u) = (x \o y) \o u
                BY Regroup
            <4> QED
                BY <3>0, <4>1, Zenon
        <3>3. ((p \o pipe) \o u) \o v = (p \o pipe) \o (u \o v)
            BY <3>1, Regroup
        <3> QED
            BY <1>5, <3>2, <3>3, Zenon
    <2>6. Follows(all, end[Len(got')], Ahead(g)')
        BY <1>2, <2>1, <2>3, <2>4, <2>5 DEF readerVars
    <2>7. Framed(all, end, written')
        BY <1>2, <2>1
    <2> QED
        BY <2>g, <2>6, <2>7 DEF Streams
<1>12. CleanEndComplete'
    BY <1>2, <1>3 DEF CleanEndComplete, readerVars
<1> QED
    BY <1>7, <1>8, <1>9, <1>10, <1>11, <1>12 DEF PipeInv

-----------------------------------------------------------------------------
(* It holds at the beginning: nothing is written, nothing is ahead.        *)
LEMMA InitPipe == Init => PipeInv
<1> SUFFICES ASSUME Init PROVE PipeInv
    OBVIOUS
<1>1. <<>> \in Seq(Symbols) /\ <<>> \in Seq(Lines) /\ <<>> \in Seq(Chars) /\ <<>> \in Seq(Seq(Chars))
    BY EmptySeq
<1>2. NoBuffer # <<>>
    BY <1>1, PipeConstants
<1>3. PipeTypes
    BY <1>1 DEF Init, PipeTypes
<1>4. Ends /\ OneLine(left) /\ CleanEndComplete
    BY <1>2 DEF Init, Ends, OneLine, CleanEndComplete
<1>5. Handed
    BY DEF Init, Handed
<1>6. Streams
    <2> DEFINE end == [i \in 0 .. 0 |-> 0]
    <2>1. Ahead(<<>>) = <<>>
        <3>1. Buf = <<>> /\ partial = <<>> /\ left = <<>>
            BY DEF Init, Buf
        <3>2. <<>> \o <<>> = <<>>
            BY <1>1, ConcatEmptySeq
        <3> QED
            BY <3>1, <3>2 DEF Ahead
    <2>2. written = <<>> /\ got = <<>> /\ pipe = <<>>
        BY DEF Init
    <2>3. Framed(<<>>, end, <<>>)
        BY <1>1, EmptySeq DEF Framed
    <2>4. Follows(<<>>, end[Len(got)], Ahead(<<>>))
        BY <2>1, <2>2 DEF Follows
    <2> HIDE DEF end
    <2> QED
        BY <1>1, <2>2, <2>3, <2>4 DEF Streams
<1> QED
    BY <1>3, <1>4, <1>5, <1>6 DEF PipeInv

(* What is ahead is the same when no character moves.                      *)
LEMMA StillStreams ==
    ASSUME Streams, UNCHANGED <<written, left, buffer, partial, got>>,
           ~ lost' => ~ lost /\ pipe' = pipe
    PROVE  Streams'
<1>1. PICK all, end, between :
          /\ between \in Seq(Symbols) /\ (~ lost => between = pipe)
          /\ Framed(all, end, written)
          /\ Follows(all, end[Len(got)], Ahead(between))
    BY DEF Streams
<1>2. Ahead(between)' = Ahead(between)
    BY DEF Ahead, Buf
<1> QED
    BY <1>1, <1>2 DEF Streams

(* Each step of the writer and of both readers keeps the invariant.        *)
LEMMA PipeStep == PipeInv /\ [Next]_vars => PipeInv'
<1> SUFFICES ASSUME PipeInv, [Next]_vars PROVE PipeInv'
    OBVIOUS
<1>0. PipeTypes /\ Ends /\ OneLine(left) /\ CleanEndComplete
    BY DEF PipeInv
<1>1. CASE BeginLine
    BY <1>1, BeginStep
<1>2. CASE WritePiece
    BY <1>2, WriteStep
<1>3. CASE CloseOutput
    <2>1. /\ side = "python" /\ proc = "running" /\ proc' = "closed" /\ crashed' \in BOOLEAN
          /\ (left # <<>> => crashed') /\ status = "running"
          /\ UNCHANGED <<side, written, left, pipe, readerVars>>
        BY <1>0, <1>3 DEF CloseOutput, Ends
    <2>2. PipeTypes' /\ Ends'
        BY <1>0, <2>1 DEF PipeTypes, Ends, readerVars
    <2>3. OneLine(left)' /\ CleanEndComplete'
        BY <1>0, <2>1 DEF OneLine, CleanEndComplete, readerVars
    <2>4. Handed' /\ Streams'
        BY <2>1, StillStreams DEF PipeInv, Handed, readerVars
    <2> QED
        BY <2>2, <2>3, <2>4 DEF PipeInv
<1>4. CASE Exit
    <2>1. /\ proc = "closed" /\ proc' = "exited" /\ side # "cpp" /\ status = "running"
          /\ UNCHANGED <<side, written, left, crashed, pipe, readerVars>>
        BY <1>0, <1>4 DEF Exit, Ends
    <2>2. PipeTypes' /\ Ends'
        BY <1>0, <2>1 DEF PipeTypes, Ends, readerVars
    <2>3. OneLine(left)' /\ CleanEndComplete'
        BY <1>0, <2>1 DEF OneLine, CleanEndComplete, readerVars
    <2>4. Handed' /\ Streams'
        BY <2>1, StillStreams DEF PipeInv, Handed, readerVars
    <2> QED
        BY <2>2, <2>3, <2>4 DEF PipeInv
<1>5. CASE CheckRunning
    <2>1. /\ side = "python" /\ status = "running" /\ proc = "exited" /\ ~ lost
          /\ status' = "process_done" /\ lost' = crashed
          /\ pipe' = (IF crashed THEN <<>> ELSE pipe)
          /\ UNCHANGED <<writerVars, buffer, partial, raised, got>>
        BY <1>0, <1>5 DEF CheckRunning, Ends
    <2>2. PipeTypes' /\ Ends'
        BY <1>0, <2>1, EmptySeq DEF PipeTypes, Ends, writerVars
    <2>3. OneLine(left)' /\ CleanEndComplete'
        BY <1>0, <2>1 DEF OneLine, CleanEndComplete, writerVars
    <2>4. Handed'
        BY <2>1 DEF PipeInv, Handed, writerVars
    <2>5. Streams'
        BY <2>1, StillStreams DEF PipeInv, writerVars
    <2> QED
        BY <2>2, <2>3, <2>4, <2>5 DEF PipeInv
<1>6. CASE ReceiveBuffered \/ ReceiveFresh \/ ReadCommand
    <2>1. /\ partial' \in Seq(Chars) /\ got' \in Seq(Seq(Chars))
          /\ buffer' \in Seq(Symbols) \cup {IF side = "cpp" THEN <<>> ELSE NoBuffer}
          /\ pipe' \in Seq(Symbols)
          /\ HandsNext
          /\ status # "receive_done" /\ Streams'
        BY <1>6, ReadStep
    <2>2. UNCHANGED <<writerVars, status, raised, lost>>
        BY <1>6 DEF ReceiveBuffered, ReceiveFresh, ReadCommand
    <2>3. buffer' \in Seq(Symbols) \cup {NoBuffer} /\ (side = "cpp" => buffer' # NoBuffer)
        BY <2>1, EmptySeq, PipeConstants
    <2>4. PipeTypes' /\ Ends'
        BY <1>0, <2>1, <2>2, <2>3 DEF PipeTypes, Ends, writerVars
    <2>5. OneLine(left)' /\ CleanEndComplete'
        BY <1>0, <2>1, <2>2 DEF OneLine, CleanEndComplete, writerVars
    <2>6. Handed'
        BY <1>0, <2>1, <2>2, HandedStep DEF PipeInv, writerVars
    <2> QED
        BY <2>1, <2>4, <2>5, <2>6 DEF PipeInv
<1>7. CASE ReceiveEnd
    <2>1. got' \in Seq(Seq(Chars)) /\ CleanEndComplete'
        BY <1>7, EndStep
    <2>2. /\ side = "python" /\ proc = "exited" /\ status' = "receive_done" /\ lost' \in BOOLEAN
          /\ UNCHANGED <<writerVars, pipe, buffer, partial, raised>>
        BY <1>0, <1>7 DEF ReceiveEnd, MayReceive, PipeTypes
    <2>3. PipeTypes' /\ Ends'
        BY <1>0, <2>1, <2>2 DEF PipeTypes, Ends, writerVars
    <2>4. OneLine(left)'
        BY <1>0, <2>2 DEF OneLine, writerVars
    <2> QED
        BY <2>1, <2>2, <2>3, <2>4 DEF PipeInv
<1>8. CASE ReceiveRaises
    <2>1. /\ status # "receive_done" /\ raised' = TRUE
          /\ UNCHANGED <<writerVars, pipe, buffer, partial, status, lost, got>>
        BY <1>8 DEF ReceiveRaises, MayReceive
    <2>2. PipeTypes' /\ Ends'
        BY <1>0, <2>1 DEF PipeTypes, Ends, writerVars
    <2>3. OneLine(left)' /\ CleanEndComplete'
        BY <1>0, <2>1 DEF OneLine, CleanEndComplete, writerVars
    <2>4. Handed' /\ Streams'
        BY <2>1, StillStreams DEF PipeInv, Handed, writerVars
    <2> QED
        BY <2>2, <2>3, <2>4 DEF PipeInv
<1>9. CASE UNCHANGED vars
    <2>1. UNCHANGED <<writerVars, pipe, readerVars>>
        BY <1>9 DEF vars
    <2>2. PipeTypes' /\ Ends'
        BY <1>0, <2>1 DEF PipeTypes, Ends, writerVars, readerVars
    <2>3. OneLine(left)' /\ CleanEndComplete'
        BY <1>0, <2>1 DEF OneLine, CleanEndComplete, writerVars, readerVars
    <2>4. status # "receive_done" => Handed' /\ Streams'
        BY <2>1, StillStreams DEF PipeInv, Handed, writerVars, readerVars
    <2> QED
        BY <2>1, <2>2, <2>3, <2>4 DEF PipeInv, readerVars
<1> QED
    BY <1>1, <1>2, <1>3, <1>4, <1>5, <1>6, <1>7, <1>8, <1>9 DEF Next, Writer, PythonReader

(* PipeInv is an invariant of the pipe with either reader.                 *)
THEOREM PipeInductive == Spec => []PipeInv
<1>1. Init => PipeInv
    BY InitPipe
<1>2. PipeInv /\ [Next]_vars => PipeInv'
    BY PipeStep
<1> QED
    BY <1>1, <1>2, PTL DEF Spec

(* When the reader reports the end of the output, every character that was *)
(* put into the pipe was handed out, for lines of any length, any pipe and *)
(* any cuts (receive_message, check_p_status).                             *)
THEOREM CleanEndCompleteHolds == Spec => []CleanEndComplete
<1>1. PipeInv => CleanEndComplete
    BY DEF PipeInv
<1> QED
    BY <1>1, PipeInductive, PTL

(* A step of the two ends is a step of the channel, or none.               *)
LEMMA ChannelStep == PipeInv /\ [Next]_vars => [Channel!Next]_(Channel!vars)
<1> SUFFICES ASSUME PipeInv, [Next]_vars PROVE Channel!Next \/ UNCHANGED <<written, got, crashed>>
    BY DEF Channel!vars
<1>0. PipeTypes /\ Ends
    BY DEF PipeInv
<1>i. ASSUME Handed PROVE Channel!Intact
    <2>1. DOMAIN got = 1 .. Len(got)
        BY <1>0 DEF PipeTypes
    <2> QED
        BY <1>i, <2>1 DEF Handed, Channel!Intact
<1>1. CASE BeginLine
    <2>1. Channel!Send
        BY <1>0, <1>1 DEF BeginLine, Ends, readerVars, Channel!Send
    <2> QED
        BY <2>1 DEF Channel!Next
<1>2. CASE WritePiece \/ Exit \/ CheckRunning \/ ReceiveRaises
    BY <1>2 DEF WritePiece, Exit, CheckRunning, ReceiveRaises, writerVars, readerVars
<1>3. CASE CloseOutput
    <2>1. ~ crashed /\ crashed' \in BOOLEAN /\ UNCHANGED <<written, got>>
        BY <1>0, <1>3 DEF CloseOutput, Ends, readerVars
    <2>2. CASE crashed' = TRUE
        BY <2>1, <2>2 DEF Channel!Die, Channel!Next
    <2>3. CASE crashed' = FALSE
        BY <1>0, <2>1, <2>3 DEF PipeTypes
    <2> QED
        BY <2>1, <2>2, <2>3
<1>4. CASE ReceiveBuffered \/ ReceiveFresh \/ ReadCommand
    <2>1. HandsNext /\ status # "receive_done"
        BY <1>4, ReadStep
    <2>2. UNCHANGED <<written, crashed>>
        BY <1>4 DEF ReceiveBuffered, ReceiveFresh, ReadCommand, writerVars
    <2>3. Channel!Intact
        BY <1>i, <2>1 DEF PipeInv
    <2>4. CASE got' = got
        BY <2>2, <2>4
    <2>5. CASE Len(got) + 1 \in 1 .. Len(written) /\ got' = Append(got, written[Len(got) + 1])
        <3>1. Len(got) < Len(written)
            BY <1>0, <2>5 DEF PipeTypes
        <3> QED
            BY <2>2, <2>3, <2>5, <3>1 DEF Channel!Receive, Channel!Next
    <2> QED
        BY <2>1, <2>4, <2>5 DEF HandsNext
<1>5. CASE ReceiveEnd
    <2>1. UNCHANGED <<written, crashed>> /\ status # "receive_done"
        BY <1>5 DEF ReceiveEnd, MayReceive, writerVars
    <2>2. Channel!Intact
        BY <1>i, <2>1 DEF PipeInv
    <2>3. CASE got' = got
        BY <2>1, <2>3
    <2>4. CASE /\ Len(got) + 1 = Len(written)
               /\ \/ got' = Append(got, written[Len(got) + 1])
                  \/ /\ crashed
                     /\ \E k \in 1 .. Len(written[Len(written)]) - 1 :
                           got' = Append(got, SubSeq(written[Len(written)], 1, k))
        <3>1. Len(got) < Len(written)
            BY <1>0, <2>4 DEF PipeTypes
        <3> QED
            BY <2>1, <2>2, <2>4, <3>1 DEF Channel!Receive, Channel!Next
    <2> QED
        BY <1>5, <2>3, <2>4, EndStep
<1>6. CASE UNCHANGED vars
    BY <1>6 DEF vars, writerVars, readerVars
<1> QED
    BY <1>1, <1>2, <1>3, <1>4, <1>5, <1>6 DEF Next, Writer, PythonReader

(* Both readers implement a channel of whole lines, each once and in       *)
(* order; only the last line of a crashed process may be cut               *)
(* (read_from_process and receive_message, read_line_from_coordinator).    *)
THEOREM ReaderIsChannelHolds == Spec => ReaderIsChannel
<1>1. Init => Channel!Init
    BY DEF Init, Channel!Init
<1>2. PipeInv /\ [Next]_vars => [Channel!Next]_(Channel!vars)
    BY ChannelStep
<1> QED
    BY <1>1, <1>2, PipeInductive, PTL DEF Spec, ReaderIsChannel, Channel!Spec

=============================================================================
