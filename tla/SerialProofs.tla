---------------------------- MODULE SerialProofs ----------------------------
(***************************************************************************)
(* Proofs about Serial: for any script, any output and any way the port    *)
(* cuts it into reads, the client sees what a terminal would show, a step  *)
(* matches exactly what it should, and the device receives what was sent.  *)
(*                                                                         *)
(* The operators of SerialText are recursive functions.  Induction over    *)
(* their arguments is by the least number that is not in a given set       *)
(* (NatLadder), which needs no operator as a parameter.                    *)
(***************************************************************************)
EXTENDS Serial, TLAPS, WellFoundedInduction

-----------------------------------------------------------------------------
(* Numbers.                                                                 *)

(* A set of numbers that is not empty has a least one.                      *)
LEMMA LeastExists ==
  ASSUME NEW T, T \subseteq Nat, T # {}
  PROVE  \E x \in T : \A y \in T : x <= y
<1>1. PICK x \in T : \A y \in T : ~(<<y, x>> \in OpToRel(<, Nat))
  BY WFMin, NatLessThanWellFounded
<1>2. \A y \in T : ~(y < x)
  BY <1>1 DEF OpToRel
<1>3. \A y \in T : x <= y
  BY <1>2
<1> QED
  BY <1>3, Zenon

LEMMA MinIsLeast ==
  ASSUME NEW T, T \subseteq Nat, T # {}
  PROVE  Min(T) \in T /\ \A y \in T : Min(T) <= y
  BY LeastExists DEF Min

(* A set that holds 0 and with each number the next one holds them all.     *)
LEMMA NatLadder ==
  ASSUME NEW S, 0 \in S, \A n \in Nat : n \in S => n + 1 \in S
  PROVE  Nat \subseteq S
<1> DEFINE T == Nat \ S
<1>1. SUFFICES ASSUME T # {} PROVE FALSE
  OBVIOUS
<1>2. PICK x \in T : \A y \in T : x <= y
  BY <1>1, LeastExists
<1>3. x # 0 /\ x \in Nat
  BY <1>2
<1>4. x - 1 \in Nat /\ x - 1 \notin T
  BY <1>2, <1>3
<1> QED
  BY <1>2, <1>3, <1>4

-----------------------------------------------------------------------------
(* The terminal.                                                            *)

(* The states of a terminal that starts in t, byte by byte, and the last.   *)
IsRun(f, t, s) ==
  f = [i \in 0..Len(s) |-> IF i = 0 THEN t ELSE Terminal(f[i - 1], s[i])]

States(t, s) == CHOOSE f : IsRun(f, t, s)

End(t, s) == States(t, s)[Len(s)]

(* The states exist.                                                        *)
LEMMA StatesExist ==
  ASSUME NEW t, NEW s, NEW n \in Nat, n = Len(s)
  PROVE  IsRun(States(t, s), t, s)
<1> DEFINE Follows(f, k) == /\ DOMAIN f = Nat /\ f[0] = t
                            /\ \A i \in 1..k : f[i] = Terminal(f[i - 1], s[i])
           S == {k \in Nat : \E f : Follows(f, k)}
<1>1. 0 \in S
  <2>1. Follows([i \in Nat |-> t], 0)
    OBVIOUS
  <2> QED
    BY <2>1, Zenon
<1>2. ASSUME NEW k \in Nat, k \in S PROVE k + 1 \in S
  <2>1. PICK f : Follows(f, k)
    BY <1>2
  <2>2. PICK v : v = Terminal(f[k], s[k + 1])
    OBVIOUS
  <2>3. PICK g : g = [f EXCEPT ![k + 1] = v]
    OBVIOUS
  <2>4. DOMAIN g = Nat /\ g[0] = t /\ g[k + 1] = v /\ \A i \in 0..k : g[i] = f[i]
    BY <2>1, <2>3
  <2>5. ASSUME NEW i \in 1..(k + 1) PROVE g[i] = Terminal(g[i - 1], s[i])
    <3>1. CASE i = k + 1
      <4>1. g[i] = v /\ i - 1 = k /\ g[k] = f[k]
        BY <2>4, <3>1
      <4> QED
        BY <2>2, <3>1, <4>1, Zenon
    <3>2. CASE i # k + 1
      <4>1. i \in 1..k /\ i - 1 \in 0..k /\ i \in 0..k
        BY <3>2
      <4>2. g[i] = f[i] /\ g[i - 1] = f[i - 1] /\ f[i] = Terminal(f[i - 1], s[i])
        BY <2>1, <2>4, <4>1
      <4> QED
        BY <4>2, Zenon
    <3> QED
      BY <3>1, <3>2
  <2>6. Follows(g, k + 1)
    BY <2>4, <2>5
  <2>7. k + 1 \in Nat
    OBVIOUS
  <2> QED
    BY <2>6, <2>7, Zenon
<1>3. n \in S
  <2> HIDE DEF S
  <2> QED
    BY <1>1, <1>2, NatLadder
<1>4. PICK f : Follows(f, n)
  BY <1>3
<1>5. PICK g : g = [i \in 0..n |-> f[i]]
  OBVIOUS
<1>6. ASSUME NEW i \in 0..n PROVE g[i] = IF i = 0 THEN t ELSE Terminal(g[i - 1], s[i])
  <2>1. CASE i = 0
    BY <1>4, <1>5, <2>1
  <2>2. CASE i # 0
    <3>1. i \in 1..n /\ i - 1 \in 0..n
      BY <2>2
    <3>2. g[i] = f[i] /\ g[i - 1] = f[i - 1] /\ f[i] = Terminal(f[i - 1], s[i])
      BY <1>4, <1>5, <3>1
    <3> QED
      BY <2>2, <3>2, Zenon
  <2> QED
    BY <2>1, <2>2
<1>7. IsRun(g, t, s)
  <2>1. g = [i \in 0..n |-> g[i]]
    BY <1>5
  <2>2. g = [i \in 0..n |-> IF i = 0 THEN t ELSE Terminal(g[i - 1], s[i])]
    BY <1>6, <2>1, Zenon
  <2> QED
    BY <2>2 DEF IsRun
<1> QED
  BY <1>7, Zenon DEF States

(* The states, one from the other.                                          *)
LEMMA StateAt ==
  ASSUME NEW t, NEW s, NEW n \in Nat, n = Len(s)
  PROVE  /\ States(t, s)[0] = t
         /\ \A i \in 1..n : States(t, s)[i] = Terminal(States(t, s)[i - 1], s[i])
<1>1. PICK f : f = States(t, s)
  OBVIOUS
<1>2. f = [i \in 0..n |-> IF i = 0 THEN t ELSE Terminal(f[i - 1], s[i])]
  <2>1. IsRun(f, t, s)
    BY <1>1, StatesExist
  <2> QED
    BY <2>1, Zenon DEF IsRun
<1>3. \A i \in 0..n : f[i] = IF i = 0 THEN t ELSE Terminal(f[i - 1], s[i])
  BY <1>2, Zenon
<1>4. f[0] = t
  <2>1. 0 \in 0..n
    OBVIOUS
  <2> QED
    BY <1>3, <2>1, Zenon
<1>5. ASSUME NEW i \in 1..n PROVE f[i] = Terminal(f[i - 1], s[i])
  <2>1. i \in 0..n /\ i # 0
    OBVIOUS
  <2> QED
    BY <1>3, <2>1, Zenon
<1> QED
  BY <1>1, <1>4, <1>5

(* Nothing changes nothing.                                                 *)
LEMMA EndEmpty ==
  ASSUME NEW t
  PROVE  End(t, <<>>) = t
<1>1. Len(<<>>) = 0
  OBVIOUS
<1>2. States(t, <<>>)[0] = t
  BY <1>1, StateAt
<1> QED
  BY <1>1, <1>2, Zenon DEF End

(* One stream after another.                                                *)
LEMMA EndConcat ==
  ASSUME NEW t, NEW s \in Seq(Byte), NEW u \in Seq(Byte)
  PROVE  End(t, s \o u) = End(End(t, s), u)
<1>1. PICK n \in Nat : n = Len(s)
  OBVIOUS
<1>2. PICK m \in Nat : m = Len(u)
  OBVIOUS
<1>3. PICK w : w = s \o u
  OBVIOUS
<1>4. /\ Len(w) = n + m
      /\ \A i \in 1..n : w[i] = s[i]
      /\ \A j \in 1..m : w[n + j] = u[j]
  <2>1. \A j \in 1..m : w[n + j] = u[j]
    BY <1>1, <1>2, <1>3
  <2> QED
    BY <1>1, <1>2, <1>3, <2>1
<1>5. PICK f : f = States(t, w)
  OBVIOUS
<1>6. PICK g : g = States(t, s)
  OBVIOUS
<1>7. PICK h : h = States(g[n], u)
  OBVIOUS
<1>8. /\ f[0] = t /\ \A i \in 1..(n + m) : f[i] = Terminal(f[i - 1], w[i])
  BY <1>4, <1>5, StateAt
<1>9. /\ g[0] = t /\ \A i \in 1..n : g[i] = Terminal(g[i - 1], s[i])
  BY <1>1, <1>6, StateAt
<1>10. /\ h[0] = g[n] /\ \A i \in 1..m : h[i] = Terminal(h[i - 1], u[i])
  BY <1>2, <1>7, StateAt
<1>11. f[n] = g[n]
  <2> DEFINE S == {i \in Nat : i <= n => f[i] = g[i]}
  <2>1. 0 \in S
    BY <1>8, <1>9
  <2>2. ASSUME NEW k \in Nat, k \in S PROVE k + 1 \in S
    <3>1. SUFFICES ASSUME k + 1 <= n PROVE f[k + 1] = g[k + 1]
      OBVIOUS
    <3>2. f[k] = g[k] /\ w[k + 1] = s[k + 1]
      BY <1>4, <2>2, <3>1
    <3>3. f[k + 1] = Terminal(f[k], w[k + 1]) /\ g[k + 1] = Terminal(g[k], s[k + 1])
      <4>1. k + 1 \in 1..n /\ k + 1 \in 1..(n + m) /\ (k + 1) - 1 = k
        BY <3>1
      <4> QED
        BY <1>8, <1>9, <4>1
    <3> QED
      BY <3>2, <3>3, Zenon
  <2>3. n \in S
    <3> HIDE DEF S
    <3> QED
      BY <2>1, <2>2, NatLadder
  <2> QED
    BY <2>3
<1>12. f[n + m] = h[m]
  <2> DEFINE S == {i \in Nat : i <= m => f[n + i] = h[i]}
  <2>1. 0 \in S
    BY <1>10, <1>11
  <2>2. ASSUME NEW k \in Nat, k \in S PROVE k + 1 \in S
    <3>1. SUFFICES ASSUME k + 1 <= m PROVE f[n + (k + 1)] = h[k + 1]
      OBVIOUS
    <3>2. f[n + k] = h[k] /\ w[n + (k + 1)] = u[k + 1]
      BY <1>4, <2>2, <3>1
    <3>3. f[n + (k + 1)] = Terminal(f[n + k], w[n + (k + 1)]) /\ h[k + 1] = Terminal(h[k], u[k + 1])
      <4>1. /\ k + 1 \in 1..m /\ n + (k + 1) \in 1..(n + m) /\ (k + 1) - 1 = k
            /\ (n + (k + 1)) - 1 = n + k
        BY <3>1
      <4> QED
        BY <1>8, <1>10, <4>1
    <3> QED
      BY <3>2, <3>3, Zenon
  <2>3. m \in S
    <3> HIDE DEF S
    <3> QED
      BY <2>1, <2>2, NatLadder
  <2> QED
    BY <2>3
<1>13. End(t, w) = f[n + m] /\ End(t, s) = g[n] /\ End(g[n], u) = h[m]
  BY <1>1, <1>2, <1>4, <1>5, <1>6, <1>7 DEF End
<1> QED
  BY <1>3, <1>12, <1>13, Zenon

(* One byte.                                                                *)
LEMMA EndOne ==
  ASSUME NEW t, NEW b
  PROVE  End(t, <<b>>) = Terminal(t, b)
<1>1. PICK s : s = <<b>>
  OBVIOUS
<1>2. Len(s) = 1 /\ s[1] = b
  BY <1>1
<1>3. PICK f : f = States(t, s)
  OBVIOUS
<1>4. f[0] = t /\ \A i \in 1..1 : f[i] = Terminal(f[i - 1], s[i])
  <2>1. PICK n \in Nat : n = 1
    OBVIOUS
  <2>2. n = Len(s)
    BY <1>2, <2>1
  <2>3. f[0] = t /\ \A i \in 1..n : f[i] = Terminal(f[i - 1], s[i])
    BY <1>3, <2>2, StateAt
  <2> QED
    BY <2>1, <2>3, Zenon
<1>5. f[1] = Terminal(f[0], s[1])
  <2>1. 1 \in 1..1 /\ 1 - 1 = 0
    OBVIOUS
  <2> QED
    BY <1>4, <2>1
<1>6. End(t, s) = f[1]
  BY <1>2, <1>3 DEF End
<1> QED
  BY <1>1, <1>2, <1>4, <1>5, <1>6, Zenon

(* The byte at the front first.                                             *)
LEMMA EndFrom ==
  ASSUME NEW t, NEW s \in Seq(Byte), NEW n \in Nat, n = Len(s), NEW p \in 1..n
  PROVE  End(t, SubSeq(s, p, n)) = End(Terminal(t, s[p]), SubSeq(s, p + 1, n))
<1>1. s[p] \in Byte
  OBVIOUS
<1>2. PICK a : a = <<s[p]>>
  OBVIOUS
<1>3. PICK u : u = SubSeq(s, p + 1, n)
  OBVIOUS
<1>4. a \in Seq(Byte)
  BY <1>1, <1>2
<1>5. u \in Seq(Byte)
  BY <1>3
<1>6. SubSeq(s, p, n) = a \o u
  BY <1>1, <1>2, <1>3
<1>7. End(t, a \o u) = End(End(t, a), u)
  BY <1>4, <1>5, EndConcat
<1>8. End(t, a) = Terminal(t, s[p])
  BY <1>2, EndOne
<1> QED
  BY <1>3, <1>6, <1>7, <1>8, Zenon

(* Sequences of one length with the same elements are the same.             *)
LEMMA SameSeq ==
  ASSUME NEW S, NEW l \in Seq(S), NEW r \in Seq(S), NEW n, Len(l) = n, Len(r) = n,
         \A i \in 1..n : l[i] = r[i]
  PROVE  l = r
<1>1. l = [i \in 1..n |-> l[i]] /\ r = [i \in 1..n |-> r[i]]
  OBVIOUS
<1> QED
  BY <1>1, Zenon

LEMMA AppendConcat ==
  ASSUME NEW o \in Seq(Byte), NEW x \in Seq(Byte), NEW b \in Byte
  PROVE  Append(o \o x, b) = o \o Append(x, b)
<1>1. PICK n \in Nat : n = Len(o)
  OBVIOUS
<1>2. PICK m \in Nat : m = Len(x)
  OBVIOUS
<1>3. PICK l : l = Append(o \o x, b)
  OBVIOUS
<1>4. PICK r : r = o \o Append(x, b)
  OBVIOUS
<1>5. l \in Seq(Byte) /\ Len(l) = n + m + 1
  BY <1>1, <1>2, <1>3
<1>6. r \in Seq(Byte) /\ Len(r) = n + m + 1
  BY <1>1, <1>2, <1>4
<1>7. ASSUME NEW i \in 1..(n + m + 1) PROVE l[i] = r[i]
  <2>1. PICK y : y = o \o x
    OBVIOUS
  <2>2. PICK z : z = Append(x, b)
    OBVIOUS
  <2>3. y \in Seq(Byte) /\ Len(y) = n + m /\ l = Append(y, b)
    BY <1>1, <1>2, <1>3, <2>1
  <2>4. z \in Seq(Byte) /\ Len(z) = m + 1 /\ r = o \o z
    BY <1>2, <1>4, <2>2
  <2>5. l[i] = IF i = n + m + 1 THEN b ELSE y[i]
    BY <2>3
  <2>6. r[i] = IF i <= n THEN o[i] ELSE z[i - n]
    BY <1>1, <2>4
  <2>7. i # n + m + 1 => y[i] = IF i <= n THEN o[i] ELSE x[i - n]
    BY <1>1, <1>2, <2>1
  <2>8. i > n => z[i - n] = IF i = n + m + 1 THEN b ELSE x[i - n]
    BY <1>2, <2>2
  <2> QED
    BY <2>5, <2>6, <2>7, <2>8
<1> QED
  BY <1>3, <1>4, <1>5, <1>6, <1>7, SameSeq, Zenon

(* What was shown before does not matter to what is shown next, and no byte *)
(* shows more than itself.                                                  *)
LEMMA EndShift ==
  ASSUME NEW m, NEW o \in Seq(Byte), NEW s \in Seq(Byte)
  PROVE  LET e == End([mode |-> m, out |-> <<>>], s) IN
         /\ e.out \in Seq(Byte) /\ Len(e.out) <= Len(s)
         /\ e = [mode |-> e.mode, out |-> e.out]
         /\ End([mode |-> m, out |-> o], s) = [mode |-> e.mode, out |-> o \o e.out]
<1>1. PICK n \in Nat : n = Len(s)
  OBVIOUS
<1>2. PICK t0 : t0 = [mode |-> m, out |-> <<>>]
  OBVIOUS
<1>3. PICK t1 : t1 = [mode |-> m, out |-> o]
  OBVIOUS
<1>4. PICK g : g = States(t0, s)
  OBVIOUS
<1>5. PICK f : f = States(t1, s)
  OBVIOUS
<1>6. g[0] = t0 /\ \A i \in 1..n : g[i] = Terminal(g[i - 1], s[i])
  BY <1>1, <1>4, StateAt
<1>7. f[0] = t1 /\ \A i \in 1..n : f[i] = Terminal(f[i - 1], s[i])
  BY <1>1, <1>5, StateAt
<1> DEFINE Agree(i) == \E mode : \E out \in Seq(Byte) :
                         /\ Len(out) <= i
                         /\ g[i] = [mode |-> mode, out |-> out]
                         /\ f[i] = [mode |-> mode, out |-> o \o out]
           S == {i \in Nat : i <= n => Agree(i)}
<1> HIDE DEF Agree
<1>8. 0 \in S
  <2>1. o \o <<>> = o /\ <<>> \in Seq(Byte) /\ Len(<<>>) = 0
    OBVIOUS
  <2>2. g[0] = [mode |-> m, out |-> <<>>]
    BY <1>2, <1>6
  <2>3. f[0] = [mode |-> m, out |-> o \o <<>>]
    BY <1>3, <1>7, <2>1
  <2>4. Agree(0)
    <3>1. PICK x : x = <<>>
      OBVIOUS
    <3>2. x \in Seq(Byte) /\ Len(x) <= 0
      BY <2>1, <3>1
    <3> QED
      BY <2>2, <2>3, <3>1, <3>2, Zenon DEF Agree
  <2> QED
    BY <2>4
<1>9. ASSUME NEW k \in Nat, k \in S PROVE k + 1 \in S
  <2>1. SUFFICES ASSUME k + 1 <= n PROVE Agree(k + 1)
    OBVIOUS
  <2>2. Agree(k)
    <3>1. k <= n
      BY <2>1
    <3> QED
      BY <1>9, <3>1
  <2>3. PICK mode : \E out \in Seq(Byte) :
                         /\ Len(out) <= k
                         /\ g[k] = [mode |-> mode, out |-> out]
                         /\ f[k] = [mode |-> mode, out |-> o \o out]
    BY <2>2 DEF Agree
  <2>4. PICK out \in Seq(Byte) :
                         /\ Len(out) <= k
                         /\ g[k] = [mode |-> mode, out |-> out]
                         /\ f[k] = [mode |-> mode, out |-> o \o out]
    BY <2>3
  <2>5. k + 1 \in 1..n /\ (k + 1) - 1 = k
    BY <2>1
  <2>6. PICK b : b = s[k + 1]
    OBVIOUS
  <2>7. b \in Byte
    BY <1>1, <2>5, <2>6
  <2>8. g[k + 1] = Terminal(g[k], b) /\ f[k + 1] = Terminal(f[k], b)
    BY <1>6, <1>7, <2>5, <2>6
  <2>9. CASE Outside(mode, b) /\ b # "ESC"
    <3>1. g[k + 1] = [mode |-> Mode(mode, b), out |-> Append(out, b)]
      BY <2>4, <2>8, <2>9 DEF Terminal
    <3>2. f[k + 1] = [mode |-> Mode(mode, b), out |-> Append(o \o out, b)]
      BY <2>4, <2>8, <2>9 DEF Terminal
    <3>3. PICK out2 : out2 = Append(out, b)
      OBVIOUS
    <3>4. Append(o \o out, b) = o \o out2
      <4>1. o \in Seq(Byte) /\ out \in Seq(Byte)
        BY <2>4
      <4>2. Append(o \o out, b) = o \o Append(out, b)
        BY <2>7, <4>1, AppendConcat, Zenon
      <4> QED
        BY <3>3, <4>2, Zenon
    <3>5. out2 \in Seq(Byte) /\ Len(out2) <= k + 1
      BY <2>4, <2>7, <3>3
    <3> QED
      BY <3>1, <3>2, <3>3, <3>4, <3>5, Zenon DEF Agree
  <2>10. CASE ~(Outside(mode, b) /\ b # "ESC")
    <3>1. g[k + 1] = [mode |-> Mode(mode, b), out |-> out]
      BY <2>4, <2>8, <2>10 DEF Terminal
    <3>2. f[k + 1] = [mode |-> Mode(mode, b), out |-> o \o out]
      <4>1. PICK y : y = o \o out
        OBVIOUS
      <4>2. f[k] = [mode |-> mode, out |-> y]
        BY <2>4, <4>1
      <4>3. f[k + 1] = [mode |-> Mode(mode, b), out |-> y]
        BY <2>8, <2>10, <4>2 DEF Terminal
      <4> QED
        BY <4>1, <4>3
    <3>3. Len(out) <= k + 1
      BY <2>4
    <3> QED
      BY <3>1, <3>2, <3>3, Zenon DEF Agree
  <2> QED
    BY <2>9, <2>10
<1>10. n \in S
  <2> HIDE DEF S
  <2> QED
    BY <1>8, <1>9, NatLadder
<1>11. Agree(n)
  BY <1>10
<1>12. End(t0, s) = g[n] /\ End(t1, s) = f[n]
  BY <1>1, <1>4, <1>5 DEF End
<1>13. PICK mode : \E out \in Seq(Byte) :
                         /\ Len(out) <= n
                         /\ g[n] = [mode |-> mode, out |-> out]
                         /\ f[n] = [mode |-> mode, out |-> o \o out]
  BY <1>11 DEF Agree
<1>14. PICK out \in Seq(Byte) :
                         /\ Len(out) <= n
                         /\ g[n] = [mode |-> mode, out |-> out]
                         /\ f[n] = [mode |-> mode, out |-> o \o out]
  BY <1>13
<1>15. PICK e : e = End(t0, s)
  OBVIOUS
<1>16. e.mode = mode /\ e.out = out
  BY <1>12, <1>14, <1>15
<1>17. /\ e.out \in Seq(Byte) /\ Len(e.out) <= Len(s)
       /\ e = [mode |-> e.mode, out |-> e.out]
       /\ End(t1, s) = [mode |-> e.mode, out |-> o \o e.out]
  BY <1>1, <1>12, <1>14, <1>15, <1>16
<1> QED
  BY <1>2, <1>3, <1>15, <1>17, Zenon

(* A walk: if each byte takes the terminal from one given state to the      *)
(* next, what follows is seen in the last of them.                          *)
LEMMA Walk ==
  ASSUME NEW s \in Seq(Byte), NEW n \in Nat, n = Len(s),
         NEW a \in 1..(n + 1), NEW b \in a..(n + 1), NEW tt,
         \A q \in a..(b - 1) : Terminal(tt[q], s[q]) = tt[q + 1]
  PROVE  End(tt[a], SubSeq(s, a, n)) = End(tt[b], SubSeq(s, b, n))
<1> DEFINE Same(p) == End(tt[a], SubSeq(s, a, n)) = End(tt[p], SubSeq(s, p, n))
           S == {k \in Nat : a + k <= b => Same(a + k)}
<1> HIDE DEF Same
<1>1. 0 \in S
  <2>1. Same(a + 0)
    BY DEF Same
  <2> QED
    BY <2>1
<1>2. ASSUME NEW k \in Nat, k \in S PROVE k + 1 \in S
  <2>1. SUFFICES ASSUME a + (k + 1) <= b PROVE Same(a + (k + 1))
    OBVIOUS
  <2>2. PICK p \in 1..n : p = a + k
    BY <2>1
  <2>3. Same(p)
    BY <1>2, <2>1, <2>2
  <2>4. p \in a..(b - 1) /\ a + (k + 1) = p + 1
    BY <2>1, <2>2
  <2>5. Terminal(tt[p], s[p]) = tt[p + 1]
    BY <2>4
  <2>6. End(tt[p], SubSeq(s, p, n)) = End(Terminal(tt[p], s[p]), SubSeq(s, p + 1, n))
    BY EndFrom
  <2>7. Same(p + 1)
    BY <2>3, <2>5, <2>6, Zenon DEF Same
  <2> QED
    BY <2>4, <2>7
<1>3. PICK k \in Nat : a + k = b
  <2>1. b - a \in Nat /\ a + (b - a) = b
    OBVIOUS
  <2> QED
    BY <2>1
<1>4. k \in S
  <2> HIDE DEF S
  <2> QED
    BY <1>1, <1>2, NatLadder
<1>5. Same(b)
  <2>1. a + k <= b
    BY <1>3
  <2>2. Same(a + k)
    BY <1>4, <2>1
  <2> QED
    BY <1>3, <2>2, Zenon
<1> QED
  BY <1>5 DEF Same

-----------------------------------------------------------------------------
(* The escape filter.                                                       *)

In(m) == [mode |-> m, out |-> <<>>]

(* A byte of a control sequence shows nothing.                              *)
LEMMA Quiet ==
  ASSUME NEW m, NEW b, ~Outside(m, b) \/ b = "ESC"
  PROVE  Terminal(In(m), b) = In(Mode(m, b))
  BY DEF Terminal, In

(* Where a class of bytes ends.                                             *)
Past(data, from, Class) ==
  Min({p \in from..(Len(data) + 1) : p > Len(data) \/ data[p] \notin Class})

LEMMA PastClass ==
  ASSUME NEW data \in Seq(Byte), NEW n \in Nat, n = Len(data), NEW from \in 1..(n + 1), NEW Class,
         NEW past, past = Past(data, from, Class)
  PROVE  /\ past \in from..(n + 1)
         /\ past <= n => data[past] \notin Class
         /\ \A q \in from..(past - 1) : q <= n /\ data[q] \in Class
<1> DEFINE T == {p \in from..(n + 1) : p > n \/ data[p] \notin Class}
<1>1. n + 1 \in T /\ T \subseteq Nat
  OBVIOUS
<1>2. past = Min(T)
  BY DEF Past
<1>3. past \in T /\ \A y \in T : past <= y
  <2> HIDE DEF T
  <2> QED
    BY <1>1, <1>2, MinIsLeast
<1>4. past \in from..(n + 1) /\ (past <= n => data[past] \notin Class)
  BY <1>3
<1>5. ASSUME NEW q \in from..(past - 1) PROVE q <= n /\ data[q] \in Class
  <2>1. q \in from..(n + 1) /\ q <= n /\ ~(past <= q)
    BY <1>4
  <2>2. q \notin T
    BY <1>3, <2>1
  <2> QED
    BY <2>1, <2>2
<1> QED
  BY <1>2, <1>4, <1>5

(* A sequence that begins with ESC [ : what csiEnd finds is where the       *)
(* terminal is out of it.                                                   *)
LEMMA CsiRead ==
  ASSUME NEW data \in Seq(Byte), NEW n \in Nat, n = Len(data), NEW esc \in 1..n, esc < n
  PROVE  LET e == csiEnd(data, esc)
             rest == End(In("csi"), SubSeq(data, esc + 2, n))
         IN  /\ e = 0 \/ e \in (esc + 1)..n
             /\ e = 0 => \E m : rest = In(m)
             /\ e # 0 => rest = End(Ground, SubSeq(data, e + 1, n))
<1>1. PICK a : a = esc + 2
  OBVIOUS
<1>2. a \in 1..(n + 1)
  BY <1>1
<1>3. PICK p1 : p1 = Past(data, a, Param)
  OBVIOUS
<1>4. /\ p1 \in a..(n + 1) /\ (p1 <= n => data[p1] \notin Param)
      /\ \A q \in a..(p1 - 1) : q <= n /\ data[q] \in Param
  BY <1>2, <1>3, PastClass
<1>5. p1 \in 1..(n + 1)
  BY <1>2, <1>4
<1>6. PICK p2 : p2 = Past(data, p1, Inter)
  OBVIOUS
<1>7. /\ p2 \in p1..(n + 1) /\ (p2 <= n => data[p2] \notin Inter)
      /\ \A q \in p1..(p2 - 1) : q <= n /\ data[q] \in Inter
  BY <1>5, <1>6, PastClass
<1>8. PICK e : e = csiEnd(data, esc)
  OBVIOUS
<1>9. e = IF p2 > n THEN 0 ELSE IF data[p2] \in Final THEN p2 ELSE p2 - 1
  BY <1>1, <1>3, <1>6, <1>8, Zenon DEF csiEnd, Past
<1>10. e = 0 \/ e \in (esc + 1)..n
  BY <1>1, <1>2, <1>4, <1>7, <1>9
<1>11. PICK rest : rest = End(In("csi"), SubSeq(data, a, n))
  OBVIOUS
<1>12. rest = End(In("csi"), SubSeq(data, p1, n))
  <2>1. PICK tt : tt = [q \in Nat |-> In("csi")]
    OBVIOUS
  <2>2. ASSUME NEW q \in a..(p1 - 1) PROVE Terminal(tt[q], data[q]) = tt[q + 1]
    <3>1. data[q] \in Param /\ q \in Nat /\ q + 1 \in Nat
      BY <1>2, <1>4
    <3>2. ~Outside("csi", data[q]) /\ Mode("csi", data[q]) = "csi"
      BY <3>1 DEF Outside, Mode
    <3> QED
      BY <2>1, <3>1, <3>2, Quiet
  <2>3. End(tt[a], SubSeq(data, a, n)) = End(tt[p1], SubSeq(data, p1, n))
    <3>1. p1 \in a..(n + 1)
      BY <1>4
    <3>2. \A q \in a..(p1 - 1) : Terminal(tt[q], data[q]) = tt[q + 1]
      BY <2>2
    <3> QED
      BY <1>2, <3>1, <3>2, Walk
  <2>4. tt[a] = In("csi") /\ tt[p1] = In("csi")
    BY <1>2, <1>5, <2>1
  <2> QED
    BY <1>11, <2>3, <2>4, Zenon
<1>13. PICK m \in {"csi", "csiInter"} :
         /\ rest = End(In(m), SubSeq(data, p2, n))
         /\ p2 <= n /\ m = "csi" => data[p2] \notin Param
  <2>1. CASE p1 = p2
    BY <1>4, <1>12, <2>1
  <2>2. CASE p1 # p2
    <3>1. PICK tt : tt = [q \in Nat |-> IF q = p1 THEN In("csi") ELSE In("csiInter")]
      OBVIOUS
    <3>2. ASSUME NEW q \in p1..(p2 - 1) PROVE Terminal(tt[q], data[q]) = tt[q + 1]
      <4>1. data[q] \in Inter /\ q \in Nat /\ q + 1 \in Nat /\ q + 1 # p1
        BY <1>5, <1>7
      <4>2. \A x \in {"csi", "csiInter"} : ~Outside(x, data[q]) /\ Mode(x, data[q]) = "csiInter"
        BY <4>1 DEF Outside, Mode, Inter, Param
      <4>3. PICK x \in {"csi", "csiInter"} : tt[q] = In(x)
        BY <3>1, <4>1
      <4>4. Terminal(In(x), data[q]) = In("csiInter")
        BY <4>2, Quiet
      <4>5. tt[q + 1] = In("csiInter")
        BY <3>1, <4>1
      <4> QED
        BY <4>3, <4>4, <4>5, Zenon
    <3>3. End(tt[p1], SubSeq(data, p1, n)) = End(tt[p2], SubSeq(data, p2, n))
      <4>1. p2 \in p1..(n + 1)
        BY <1>7
      <4>2. \A q \in p1..(p2 - 1) : Terminal(tt[q], data[q]) = tt[q + 1]
        BY <3>2
      <4> QED
        BY <1>5, <4>1, <4>2, Walk
    <3>4. tt[p1] = In("csi") /\ tt[p2] = In("csiInter")
      BY <1>5, <1>7, <2>2, <3>1
    <3>5. rest = End(In("csiInter"), SubSeq(data, p2, n)) /\ "csiInter" # "csi"
      BY <1>12, <3>3, <3>4
    <3> QED
      BY <3>5, Zenon
  <2> QED
    BY <2>1, <2>2
<1>14. CASE p2 > n
  <2>1. p2 = n + 1
    BY <1>5, <1>7, <1>14
  <2>2. SubSeq(data, p2, n) = <<>>
    BY <2>1
  <2>3. rest = In(m)
    BY <1>13, <2>2, EndEmpty
  <2>4. e = 0
    BY <1>9, <1>14
  <2> QED
    BY <1>1, <1>8, <1>10, <1>11, <2>3, <2>4, Zenon
<1>15. CASE p2 <= n
  <2>1. p2 \in 1..n
    BY <1>5, <1>7, <1>15
  <2>2. PICK b : b = data[p2]
    OBVIOUS
  <2>3. rest = End(Terminal(In(m), b), SubSeq(data, p2 + 1, n))
    BY <1>13, <2>1, <2>2, EndFrom
  <2>4. b \notin Inter /\ (m = "csi" => b \notin Param)
    BY <1>7, <1>13, <1>15, <2>2
  <2>5. CASE b \in Final
    <3>1. e = p2
      <4>1. ~(p2 > n)
        BY <1>15, <2>1
      <4> QED
        BY <1>9, <2>2, <2>5, <4>1, Zenon
    <3>2. ~Outside(m, b) /\ Mode(m, b) = "ground"
      <4>1. b \notin Param
        BY <2>5 DEF Final, Param
      <4>2. ~Outside(m, b)
        BY <1>13, <2>5 DEF Outside
      <4> QED
        BY <1>13, <2>4, <4>1, <4>2 DEF Mode
    <3>3. Terminal(In(m), b) = Ground
      BY <3>2, Quiet DEF Ground, In
    <3>4. e # 0
      BY <2>1, <3>1
    <3> QED
      BY <1>1, <1>8, <1>10, <1>11, <2>3, <3>1, <3>3, <3>4, Zenon
  <2>6. CASE b \notin Final
    <3>1. e = p2 - 1 /\ e # 0 /\ e + 1 = p2
      BY <1>1, <1>2, <1>4, <1>7, <1>9, <1>15, <2>1, <2>2, <2>6
    <3>2. Outside(m, b) /\ Outside("ground", b)
      BY <1>13, <2>4, <2>6 DEF Outside
    <3>3. Terminal(In(m), b) = Terminal(Ground, b)
      BY <3>2 DEF Terminal, In, Ground, Mode
    <3>4. End(Ground, SubSeq(data, p2, n)) = End(Terminal(Ground, b), SubSeq(data, p2 + 1, n))
      BY <2>1, <2>2, EndFrom
    <3>5. rest = End(Ground, SubSeq(data, p2, n))
      BY <2>3, <3>3, <3>4, Zenon
    <3> QED
      BY <1>1, <1>8, <1>10, <1>11, <3>1, <3>5, Zenon
  <2> QED
    BY <2>5, <2>6
<1> QED
  <2>1. p2 > n \/ p2 <= n
    BY <1>5, <1>7
  <2> QED
    BY <2>1, <1>14, <1>15

(* The bytes that close a string: its terminators, and ESC \ .              *)
Closes(data, esc, q) ==
  \/ data[q] = "ST"
  \/ data[q] = "BEL" /\ data[esc + 1] = "]"
  \/ q > esc + 2 /\ data[q - 1] = "ESC" /\ data[q] = "\\"

(* stringSeqEnd finds the first of them.                                    *)
LEMMA StringEnd ==
  ASSUME NEW data \in Seq(Byte), NEW n \in Nat, n = Len(data), NEW esc \in 1..n, esc < n,
         NEW e, e = stringSeqEnd(data, esc)
  PROVE  /\ e = 0 \/ (e \in (esc + 2)..n /\ Closes(data, esc, e))
         /\ e = 0 => \A q \in (esc + 2)..n : ~Closes(data, esc, q)
         /\ e # 0 => \A q \in (esc + 2)..(e - 1) : ~Closes(data, esc, q)
<1> DEFINE body == (esc + 2)..n
           A == {p \in body : data[p] = "ST" \/ (data[p] = "BEL" /\ data[esc + 1] = "]")}
           B == {p + 1 : p \in {q \in body : q < n /\ data[q] = "ESC" /\ data[q + 1] = "\\"}}
           ends == A \cup B
<1>1. e = IF ends = {} THEN 0 ELSE Min(ends)
  BY Zenon DEF stringSeqEnd
<1>2. \A x \in B : x \in body /\ x > esc + 2 /\ data[x - 1] = "ESC" /\ data[x] = "\\"
  OBVIOUS
<1>3. ASSUME NEW x \in body, x > esc + 2, data[x - 1] = "ESC", data[x] = "\\"
      PROVE  x \in B
  <2>1. PICK p : p = x - 1
    OBVIOUS
  <2>2. p \in body /\ p < n /\ data[p] = "ESC" /\ data[p + 1] = "\\" /\ x = p + 1
    BY <1>3, <2>1
  <2> QED
    BY <2>2
<1> HIDE DEF B
<1>4. \A x \in ends : x \in body /\ Closes(data, esc, x)
  BY <1>2 DEF Closes
<1>5. \A x \in body : Closes(data, esc, x) => x \in ends
  BY <1>3 DEF Closes
<1> HIDE DEF ends, A
<1>6. ends \subseteq Nat
  BY <1>4
<1>7. CASE ends = {}
  <2>1. e = 0
    BY <1>1, <1>7
  <2> QED
    BY <1>5, <1>7, <2>1
<1>8. CASE ends # {}
  <2>1. e = Min(ends)
    BY <1>1, <1>8
  <2>2. e \in ends /\ \A y \in ends : e <= y
    BY <1>6, <1>8, <2>1, MinIsLeast
  <2>3. e \in body /\ Closes(data, esc, e)
    BY <1>4, <2>2
  <2>4. e # 0
    BY <2>3
  <2>5. ASSUME NEW q \in (esc + 2)..(e - 1) PROVE ~Closes(data, esc, q)
    <3>1. q \in body /\ ~(e <= q)
      BY <2>3
    <3> QED
      BY <1>5, <2>2, <3>1
  <2> QED
    BY <2>3, <2>4, <2>5
<1> QED
  BY <1>7, <1>8

(* In a string the terminal stays in it until a byte that closes it.        *)
LEMMA StringRead ==
  ASSUME NEW data \in Seq(Byte), NEW n \in Nat, n = Len(data), NEW esc \in 1..n, esc < n,
         data[esc + 1] \in StringIntroducer,
         NEW e, e = stringSeqEnd(data, esc),
         NEW rest, rest = End(In(Mode("esc", data[esc + 1])), SubSeq(data, esc + 2, n))
  PROVE  /\ e = 0 \/ e \in (esc + 1)..n
         /\ e = 0 => \E m : rest = In(m)
         /\ e # 0 => rest = End(Ground, SubSeq(data, e + 1, n))
<1>1. PICK intro : intro = data[esc + 1]
  OBVIOUS
<1>2. PICK m0 : m0 = IF intro = "]" THEN "osc" ELSE "dcs"
  OBVIOUS
<1>3. PICK mEsc : mEsc = IF intro = "]" THEN "oscEsc" ELSE "dcsEsc"
  OBVIOUS
<1>4. intro \in {"]", "P"} /\ Mode("esc", intro) = m0
  BY <1>1, <1>2 DEF StringIntroducer, Mode, Outside
<1>5. PICK a \in 1..(n + 1) : a = esc + 2
  OBVIOUS
<1>6. PICK tt : tt = [q \in Nat |-> IF q > a /\ data[q - 1] = "ESC" THEN In(mEsc) ELSE In(m0)]
  OBVIOUS
<1>7. ASSUME NEW q \in a..n, ~Closes(data, esc, q)
      PROVE  Terminal(tt[q], data[q]) = tt[q + 1]
  <2>1. q \in Nat /\ q + 1 \in Nat /\ q + 1 > a /\ (q + 1) - 1 = q
    OBVIOUS
  <2>2. PICK b : b = data[q]
    OBVIOUS
  <2>3. tt[q + 1] = IF b = "ESC" THEN In(mEsc) ELSE In(m0)
    BY <1>6, <2>1, <2>2
  <2>4. b # "ST" /\ ~(b = "BEL" /\ intro = "]")
    BY <1>1, <1>7, <2>2 DEF Closes
  <2>5. CASE q > a /\ data[q - 1] = "ESC"
    <3>1. b # "\\"
      BY <1>5, <1>7, <2>2, <2>5 DEF Closes
    <3>2. tt[q] = In(mEsc)
      BY <1>6, <2>1, <2>5
    <3>3. ~Outside(mEsc, b) /\ Mode(mEsc, b) = IF b = "ESC" THEN mEsc ELSE m0
      BY <1>2, <1>3, <1>4, <2>4, <3>1 DEF Outside, Mode
    <3> QED
      BY <2>2, <2>3, <3>2, <3>3, Quiet
  <2>6. CASE ~(q > a /\ data[q - 1] = "ESC")
    <3>2. tt[q] = In(m0)
      BY <1>6, <2>1, <2>6
    <3>3. ~Outside(m0, b) /\ Mode(m0, b) = IF b = "ESC" THEN mEsc ELSE m0
      BY <1>2, <1>3, <1>4, <2>4 DEF Outside, Mode
    <3> QED
      BY <2>2, <2>3, <3>2, <3>3, Quiet
  <2> QED
    BY <2>5, <2>6
<1>8. tt[a] = In(m0) /\ rest = End(tt[a], SubSeq(data, a, n))
  <2>1. tt[a] = In(m0)
    BY <1>6
  <2> QED
    BY <1>1, <1>4, <1>5, <2>1
<1>9. \A q \in Nat : tt[q] \in {In(m0), In(mEsc)}
  BY <1>6
<1>10. /\ e = 0 \/ (e \in a..n /\ Closes(data, esc, e))
       /\ e = 0 => \A q \in a..n : ~Closes(data, esc, q)
       /\ e # 0 => \A q \in a..(e - 1) : ~Closes(data, esc, q)
  BY <1>5, StringEnd
<1>11. e = 0 \/ e \in (esc + 1)..n
  BY <1>5, <1>10
<1>12. CASE e = 0
  <2>1. \A q \in a..((n + 1) - 1) : Terminal(tt[q], data[q]) = tt[q + 1]
    BY <1>7, <1>10, <1>12
  <2>2. n + 1 \in a..(n + 1)
    OBVIOUS
  <2>3. End(tt[a], SubSeq(data, a, n)) = End(tt[n + 1], SubSeq(data, n + 1, n))
    BY <2>1, <2>2, Walk
  <2>4. SubSeq(data, n + 1, n) = <<>>
    OBVIOUS
  <2>5. rest = tt[n + 1]
    BY <1>8, <2>3, <2>4, EndEmpty
  <2>6. tt[n + 1] \in {In(m0), In(mEsc)}
    BY <1>9
  <2> QED
    BY <1>11, <1>12, <2>5, <2>6, Zenon
<1>13. CASE e # 0
  <2>1. e \in a..n /\ e \in a..(n + 1) /\ e \in 1..n /\ e \in Nat
    BY <1>10, <1>13
  <2>2. \A q \in a..(e - 1) : Terminal(tt[q], data[q]) = tt[q + 1]
    <3>1. ASSUME NEW q \in a..(e - 1) PROVE q \in a..n /\ ~Closes(data, esc, q)
      BY <1>10, <1>13, <2>1
    <3> QED
      BY <1>7, <3>1
  <2>3. End(tt[a], SubSeq(data, a, n)) = End(tt[e], SubSeq(data, e, n))
    BY <2>1, <2>2, Walk
  <2>4. PICK b : b = data[e]
    OBVIOUS
  <2>5. End(tt[e], SubSeq(data, e, n)) = End(Terminal(tt[e], b), SubSeq(data, e + 1, n))
    BY <2>1, <2>4, EndFrom
  <2>6. Closes(data, esc, e)
    BY <1>10, <1>13
  <2>7. CASE e > a /\ data[e - 1] = "ESC"
    <3>1. tt[e] = In(mEsc)
      BY <1>6, <2>1, <2>7
    <3>2. b = "ST" \/ (b = "BEL" /\ intro = "]") \/ b = "\\"
      BY <1>1, <2>4, <2>6 DEF Closes
    <3>3. ~Outside(mEsc, b) /\ Mode(mEsc, b) = "ground"
      BY <1>3, <1>4, <3>2 DEF Outside, Mode
    <3> QED
      BY <1>8, <1>11, <1>13, <2>3, <2>5, <3>1, <3>3, Quiet DEF Ground, In
  <2>8. CASE ~(e > a /\ data[e - 1] = "ESC")
    <3>1. tt[e] = In(m0)
      BY <1>6, <2>1, <2>8
    <3>2. b = "ST" \/ (b = "BEL" /\ intro = "]")
      BY <1>1, <1>5, <2>4, <2>6, <2>8 DEF Closes
    <3>3. ~Outside(m0, b) /\ Mode(m0, b) = "ground"
      BY <1>2, <1>4, <3>2 DEF Outside, Mode
    <3> QED
      BY <1>8, <1>11, <1>13, <2>3, <2>5, <3>1, <3>3, Quiet DEF Ground, In
  <2> QED
    BY <2>7, <2>8
<1> QED
  BY <1>12, <1>13

(* seqEnd finds where the terminal is out of a sequence.                    *)
LEMMA SequenceRead ==
  ASSUME NEW data \in Seq(Byte), NEW n \in Nat, n = Len(data), NEW esc \in 1..n,
         data[esc] = "ESC", NEW e, e = seqEnd(data, esc),
         NEW rest, rest = End(Ground, SubSeq(data, esc, n))
  PROVE  /\ e = 0 \/ e \in (esc + 1)..n
         /\ e = 0 => \E m : rest = In(m)
         /\ e # 0 => rest = End(Ground, SubSeq(data, e + 1, n))
<1>1. rest = End(In("esc"), SubSeq(data, esc + 1, n))
  <2>1. rest = End(Terminal(Ground, "ESC"), SubSeq(data, esc + 1, n))
    BY EndFrom
  <2>2. Terminal(Ground, "ESC") = In("esc")
    BY DEF Terminal, Ground, In, Mode, Outside
  <2> QED
    BY <2>1, <2>2
<1>2. CASE esc = n
  <2>1. e = 0
    BY <1>2 DEF seqEnd
  <2>2. SubSeq(data, esc + 1, n) = <<>>
    BY <1>2
  <2>3. rest = In("esc")
    BY <1>1, <2>2, EndEmpty
  <2> QED
    BY <2>1, <2>3
<1>3. CASE esc < n
  <2>1. PICK b : b = data[esc + 1]
    OBVIOUS
  <2>2. esc + 1 \in 1..n /\ (esc + 1) + 1 = esc + 2
    BY <1>3
  <2>3. rest = End(In(Mode("esc", b)), SubSeq(data, esc + 2, n))
    <3>1. PICK c \in 1..n : c = esc + 1
      BY <2>2
    <3>2. End(In("esc"), SubSeq(data, c, n)) = End(Terminal(In("esc"), b), SubSeq(data, c + 1, n))
      BY <2>1, <3>1, EndFrom
    <3>3. Terminal(In("esc"), b) = In(Mode("esc", b))
      BY Quiet DEF Outside
    <3> QED
      BY <1>1, <2>2, <3>1, <3>2, <3>3
  <2>4. CASE b \in StringIntroducer
    <3>1. e = stringSeqEnd(data, esc)
      <4>1. ~(esc = Len(data)) /\ esc < Len(data) /\ data[esc + 1] \in StringIntroducer
        BY <1>3, <2>1, <2>4
      <4>2. data[esc + 1] # "["
        BY <4>1 DEF StringIntroducer
      <4> QED
        BY <4>1, <4>2 DEF seqEnd
    <3> QED
      BY <1>3, <2>1, <2>3, <2>4, <3>1, StringRead
  <2>5. CASE b = "["
    <3>1. e = csiEnd(data, esc)
      BY <1>3, <2>1, <2>5 DEF seqEnd, StringIntroducer
    <3>2. Mode("esc", b) = "csi"
      BY <2>5 DEF Mode, Outside
    <3>3. PICK r : r = End(In("csi"), SubSeq(data, esc + 2, n))
      OBVIOUS
    <3>4. rest = r
      BY <2>3, <3>2, <3>3
    <3> QED
      BY <1>3, <3>1, <3>3, <3>4, CsiRead
  <2>6. CASE b \notin StringIntroducer /\ b # "["
    <3>1. e = esc + 1
      <4>1. ~(esc = Len(data))
        BY <1>3
      <4>2. ~(esc < Len(data) /\ data[esc + 1] \in StringIntroducer)
            /\ ~(esc < Len(data) /\ data[esc + 1] = "[")
        BY <2>1, <2>6
      <4> QED
        BY <4>1, <4>2 DEF seqEnd
    <3>2. Mode("esc", b) = "ground"
      BY <2>6 DEF Mode, Outside, StringIntroducer
    <3>3. rest = End(Ground, SubSeq(data, e + 1, n))
      BY <2>2, <2>3, <3>1, <3>2 DEF In, Ground
    <3> QED
      BY <1>3, <3>1, <3>3
  <2> QED
    BY <2>4, <2>5, <2>6
<1> QED
  BY <1>2, <1>3

(* One turn of stripEscapes, from what it makes of the rest.                *)
StripAt(data, f, i) ==
  IF i > Len(data) THEN [out |-> <<>>, remainder |-> <<>>]
  ELSE IF data[i] # "ESC" THEN [f[i + 1] EXCEPT !.out = <<data[i]>> \o @]
  ELSE IF seqEnd(data, i) = 0 THEN [out |-> <<>>, remainder |-> SubSeq(data, i, Len(data))]
  ELSE f[seqEnd(data, i) + 1]

IsStrip(f, data) == f = [i \in 1..(Len(data) + 1) |-> StripAt(data, f, i)]

(* A turn depends on later turns only.                                      *)
LEMMA StripLater ==
  ASSUME NEW data \in Seq(Byte), NEW n \in Nat, n = Len(data), NEW i \in 1..(n + 1),
         NEW f, NEW g, \A j \in (i + 1)..(n + 1) : f[j] = g[j]
  PROVE  StripAt(data, f, i) = StripAt(data, g, i)
<1>1. CASE i > n
  BY <1>1 DEF StripAt
<1>2. CASE i <= n
  <2>1. i \in 1..n /\ i + 1 \in (i + 1)..(n + 1)
    BY <1>2
  <2>2. f[i + 1] = g[i + 1]
    BY <2>1
  <2>3. PICK e : e = seqEnd(data, i)
    OBVIOUS
  <2>4. data[i] = "ESC" => e = 0 \/ e + 1 \in (i + 1)..(n + 1)
    <3>1. data[i] = "ESC" => e = 0 \/ e \in (i + 1)..n
      BY <2>1, <2>3, SequenceRead
    <3> QED
      BY <2>1, <3>1
  <2>5. data[i] = "ESC" /\ e # 0 => f[e + 1] = g[e + 1]
    BY <2>4
  <2> QED
    BY <2>2, <2>3, <2>5, Zenon DEF StripAt
<1> QED
  BY <1>1, <1>2

(* The turns exist.                                                         *)
LEMMA StripExists ==
  ASSUME NEW data \in Seq(Byte), NEW n \in Nat, n = Len(data)
  PROVE  \E f : IsStrip(f, data) /\ stripEscapes(data) = f[1]
<1> DEFINE Done(f, k) == /\ f = [i \in 1..(n + 1) |-> f[i]]
                         /\ \A i \in 1..(n + 1) : i + k > n + 1 => f[i] = StripAt(data, f, i)
           S == {k \in Nat : \E f : Done(f, k)}
<1>1. 0 \in S
  <2>1. Done([i \in 1..(n + 1) |-> 0], 0)
    OBVIOUS
  <2> QED
    BY <2>1, Zenon
<1>2. ASSUME NEW k \in Nat, k \in S PROVE k + 1 \in S
  <2>1. PICK f : Done(f, k)
    BY <1>2
  <2>2. CASE k > n
    <3>1. \A i \in 1..(n + 1) : i + k > n + 1
      BY <2>2
    <3>2. Done(f, k + 1)
      BY <2>1, <3>1
    <3>3. k + 1 \in Nat
      OBVIOUS
    <3> QED
      BY <3>2, <3>3, Zenon
  <2>3. CASE k <= n
    <3>1. PICK p \in 1..(n + 1) : p + k = n + 1
      <4>1. n + 1 - k \in 1..(n + 1) /\ (n + 1 - k) + k = n + 1
        BY <2>3
      <4> QED
        BY <4>1
    <3>2. PICK v : v = StripAt(data, f, p)
      OBVIOUS
    <3>3. PICK g : g = [f EXCEPT ![p] = v]
      OBVIOUS
    <3>4. g = [i \in 1..(n + 1) |-> g[i]] /\ g[p] = v /\ \A i \in 1..(n + 1) : i # p => g[i] = f[i]
      BY <2>1, <3>3
    <3>5. ASSUME NEW i \in 1..(n + 1), i + (k + 1) > n + 1 PROVE g[i] = StripAt(data, g, i)
      <4>1. \A j \in (i + 1)..(n + 1) : f[j] = g[j]
        BY <3>1, <3>4, <3>5
      <4>2. StripAt(data, f, i) = StripAt(data, g, i)
        BY <4>1, StripLater
      <4>3. CASE i = p
        BY <3>2, <3>4, <4>2, <4>3, Zenon
      <4>4. CASE i # p
        <5>1. i + k > n + 1
          BY <3>1, <3>5, <4>4
        <5>2. f[i] = StripAt(data, f, i) /\ g[i] = f[i]
          BY <2>1, <3>4, <4>4, <5>1
        <5> QED
          BY <4>2, <5>2, Zenon
      <4> QED
        BY <4>3, <4>4
    <3>6. Done(g, k + 1)
      BY <3>4, <3>5
    <3>7. k + 1 \in Nat
      OBVIOUS
    <3> QED
      BY <3>6, <3>7, Zenon
  <2> QED
    BY <2>2, <2>3
<1>3. n + 1 \in S
  <2> HIDE DEF S
  <2> QED
    BY <1>1, <1>2, NatLadder
<1>4. PICK g : Done(g, n + 1)
  BY <1>3
<1>5. IsStrip(g, data)
  <2>1. \A i \in 1..(n + 1) : i + (n + 1) > n + 1
    OBVIOUS
  <2>2. \A i \in 1..(n + 1) : g[i] = StripAt(data, g, i)
    BY <1>4, <2>1
  <2>3. g = [i \in 1..(n + 1) |-> g[i]]
    BY <1>4
  <2> QED
    BY <2>2, <2>3, Zenon DEF IsStrip
<1>6. PICK f : f = CHOOSE h : IsStrip(h, data)
  OBVIOUS
<1>7. IsStrip(f, data)
  BY <1>5, <1>6, Zenon
<1>8. stripEscapes(data) = f[1]
  BY <1>6, Zenon DEF stripEscapes, StripAt, IsStrip
<1> QED
  BY <1>7, <1>8, Zenon

(* stripEscapes shows what the terminal shows, and what it keeps for the    *)
(* next read leaves the terminal where all of it does.                      *)
LEMMA StripRead ==
  ASSUME NEW data \in Seq(Byte), NEW r, r = stripEscapes(data)
  PROVE  \E m : \E x \in Seq(Byte), y \in Seq(Byte) :
           /\ r = [out |-> x, remainder |-> y]
           /\ End(Ground, data) = [mode |-> m, out |-> x]
           /\ End(Ground, y) = In(m)
<1>1. PICK n \in Nat : n = Len(data)
  OBVIOUS
<1>2. PICK f : IsStrip(f, data) /\ r = f[1]
  BY <1>1, StripExists
<1>3. \A i \in 1..(n + 1) : f[i] = StripAt(data, f, i)
  <2>1. f = [i \in 1..(n + 1) |-> StripAt(data, f, i)]
    BY <1>1, <1>2, Zenon DEF IsStrip
  <2> QED
    BY <2>1, Zenon
<1> DEFINE Good(i) == \E m : \E x \in Seq(Byte), y \in Seq(Byte) :
                        /\ f[i] = [out |-> x, remainder |-> y]
                        /\ End(Ground, SubSeq(data, i, n)) = [mode |-> m, out |-> x]
                        /\ End(Ground, y) = In(m)
           S == {k \in Nat : \A i \in 1..(n + 1) : i + k > n + 1 => Good(i)}
<1> HIDE DEF Good
<1>4. ASSUME NEW p \in 1..(n + 1), \A j \in (p + 1)..(n + 1) : Good(j)
      PROVE  Good(p)
  <2>1. f[p] = StripAt(data, f, p)
    BY <1>3
  <2>2. PICK em : em = <<>>
    OBVIOUS
  <2>3. em \in Seq(Byte) /\ End(Ground, em) = In("ground")
    <3>1. em \in Seq(Byte)
      BY <2>2
    <3>2. End(Ground, em) = Ground
      BY <2>2, EndEmpty
    <3> QED
      BY <3>1, <3>2 DEF Ground, In
  <2>4. CASE p = n + 1
    <3>1. f[p] = [out |-> em, remainder |-> em]
      BY <1>1, <2>1, <2>2, <2>4 DEF StripAt
    <3>2. SubSeq(data, p, n) = em
      BY <1>1, <2>2, <2>4
    <3>3. End(Ground, SubSeq(data, p, n)) = [mode |-> "ground", out |-> em]
      BY <2>2, <2>3, <3>2 DEF In
    <3> QED
      BY <2>3, <3>1, <3>3, Zenon DEF Good
  <2>5. CASE p # n + 1
    <3>1. p \in 1..n /\ ~(p > Len(data)) /\ p + 1 \in (p + 1)..(n + 1)
      BY <1>1, <2>5
    <3>2. PICK b \in Byte : b = data[p]
      BY <1>1, <3>1
    <3>3. CASE b # "ESC"
      <4>1. Good(p + 1)
        BY <1>4, <3>1
      <4>2. PICK m : \E x \in Seq(Byte), y \in Seq(Byte) :
                        /\ f[p + 1] = [out |-> x, remainder |-> y]
                        /\ End(Ground, SubSeq(data, p + 1, n)) = [mode |-> m, out |-> x]
                        /\ End(Ground, y) = In(m)
        BY <4>1 DEF Good
      <4>3. PICK x \in Seq(Byte), y \in Seq(Byte) :
                        /\ f[p + 1] = [out |-> x, remainder |-> y]
                        /\ End(Ground, SubSeq(data, p + 1, n)) = [mode |-> m, out |-> x]
                        /\ End(Ground, y) = In(m)
        BY <4>2
      <4>4. PICK o : o = <<b>>
        OBVIOUS
      <4>5. o \in Seq(Byte)
        BY <4>4
      <4>6. PICK z : z = o \o x
        OBVIOUS
      <4>7. z \in Seq(Byte)
        BY <4>3, <4>5, <4>6
      <4>8. f[p] = [out |-> z, remainder |-> y]
        <5>1. f[p] = [f[p + 1] EXCEPT !.out = o \o @]
          BY <2>1, <3>1, <3>2, <3>3, <4>4, Zenon DEF StripAt
        <5>2. PICK ff : ff = f[p + 1]
          OBVIOUS
        <5>3. ff = [out |-> x, remainder |-> y]
          BY <4>3, <5>2
        <5>4. [ff EXCEPT !.out = o \o @] = [out |-> o \o x, remainder |-> y]
          <6>1. ff.out = x /\ ff.remainder = y /\ DOMAIN ff = {"out", "remainder"}
            BY <5>3
          <6>2. [ff EXCEPT !.out = o \o @] = [ff EXCEPT !.out = z]
            BY <4>6, <6>1, Zenon
          <6>3. [ff EXCEPT !.out = z] = [out |-> z, remainder |-> y]
            BY <5>3
          <6> QED
            BY <4>6, <6>2, <6>3, Zenon
        <5> QED
          BY <4>6, <5>1, <5>2, <5>4, Zenon
      <4>9. End(Ground, SubSeq(data, p, n)) = End([mode |-> "ground", out |-> o], SubSeq(data, p + 1, n))
        <5>1. End(Ground, SubSeq(data, p, n)) = End(Terminal(Ground, b), SubSeq(data, p + 1, n))
          BY <1>1, <3>1, <3>2, EndFrom
        <5>2. Append(<<>>, b) = o
          BY <4>4
        <5>3. Terminal(Ground, b) = [mode |-> "ground", out |-> o]
          BY <3>3, <5>2 DEF Terminal, Ground, Outside, Mode
        <5> QED
          BY <5>1, <5>3
      <4>10. PICK u : u = SubSeq(data, p + 1, n)
        OBVIOUS
      <4>11. u \in Seq(Byte)
        BY <1>1, <3>1, <4>10
      <4>12. PICK e : e = End([mode |-> "ground", out |-> <<>>], u)
        OBVIOUS
      <4>13. e = [mode |-> m, out |-> x]
        BY <4>3, <4>10, <4>12 DEF Ground
      <4>14. End([mode |-> "ground", out |-> o], u) = [mode |-> e.mode, out |-> o \o e.out]
        BY <4>5, <4>11, <4>12, EndShift
      <4>15. e.mode = m /\ e.out = x
        BY <4>13
      <4>16. End(Ground, SubSeq(data, p, n)) = [mode |-> m, out |-> z]
        BY <4>6, <4>9, <4>10, <4>14, <4>15, Zenon
      <4> QED
        BY <4>3, <4>7, <4>8, <4>16, Zenon DEF Good
    <3>4. CASE b = "ESC"
      <4>1. PICK e : e = seqEnd(data, p)
        OBVIOUS
      <4>2. PICK rest : rest = End(Ground, SubSeq(data, p, n))
        OBVIOUS
      <4>3. /\ e = 0 \/ e \in (p + 1)..n
            /\ e = 0 => \E m : rest = In(m)
            /\ e # 0 => rest = End(Ground, SubSeq(data, e + 1, n))
        <5>1. data[p] = "ESC" /\ p \in 1..n
          BY <3>1, <3>2, <3>4
        <5> QED
          BY <1>1, <4>1, <4>2, <5>1, SequenceRead
      <4>4. CASE e = 0
        <5>1. PICK y : y = SubSeq(data, p, n)
          OBVIOUS
        <5>2. y \in Seq(Byte)
          BY <1>1, <3>1, <5>1
        <5>3. f[p] = [out |-> em, remainder |-> y]
          BY <1>1, <2>1, <2>2, <3>1, <3>2, <3>4, <4>1, <4>4, <5>1, Zenon DEF StripAt
        <5>4. PICK m : rest = In(m)
          BY <4>3, <4>4
        <5>5. rest = [mode |-> m, out |-> em]
          BY <2>2, <5>4 DEF In
        <5> QED
          BY <2>3, <4>2, <5>1, <5>2, <5>3, <5>4, <5>5, Zenon DEF Good
      <4>5. CASE e # 0
        <5>1. e + 1 \in (p + 1)..(n + 1)
          BY <3>1, <4>3, <4>5
        <5>2. Good(e + 1)
          BY <1>4, <5>1
        <5>3. f[p] = f[e + 1]
          BY <2>1, <3>1, <3>2, <3>4, <4>1, <4>5, Zenon DEF StripAt
        <5>4. End(Ground, SubSeq(data, p, n)) = End(Ground, SubSeq(data, e + 1, n))
          BY <4>2, <4>3, <4>5
        <5> QED
          BY <5>2, <5>3, <5>4, Zenon DEF Good
      <4> QED
        BY <4>4, <4>5
    <3> QED
      BY <3>3, <3>4
  <2> QED
    BY <2>4, <2>5
<1>5. 0 \in S
  OBVIOUS
<1>6. ASSUME NEW k \in Nat, k \in S PROVE k + 1 \in S
  <2>1. ASSUME NEW i \in 1..(n + 1), i + (k + 1) > n + 1 PROVE Good(i)
    <3>1. \A j \in (i + 1)..(n + 1) : Good(j)
      BY <1>6, <2>1
    <3> QED
      BY <1>4, <3>1
  <2> QED
    BY <2>1
<1>7. n + 1 \in S
  <2> HIDE DEF S
  <2> QED
    BY <1>5, <1>6, NatLadder
<1>8. Good(1)
  <2>1. 1 \in 1..(n + 1) /\ 1 + (n + 1) > n + 1
    OBVIOUS
  <2> QED
    BY <1>7, <2>1
<1>9. SubSeq(data, 1, n) = data
  BY <1>1
<1> QED
  BY <1>2, <1>8, <1>9, Zenon DEF Good

LEMMA VisibleIsEnd ==
  ASSUME NEW s
  PROVE  Visible(s) = End(Ground, s).out
  BY Zenon DEF Visible, End, States, IsRun

(* What may be kept for the next read: the beginning of a sequence.         *)
Kept(r, m) == r \in Seq(Byte) /\ Len(r) <= MaxRemainder /\ End(Ground, r) = In(m)

LEMMA NothingKept == Kept(<<>>, "ground")
<1>1. <<>> \in Seq(Byte) /\ Len(<<>>) <= MaxRemainder
  BY SerialTextAssumption
<1>2. End(Ground, <<>>) = In("ground")
  BY EndEmpty DEF Ground, In
<1> QED
  BY <1>1, <1>2 DEF Kept

(* clean of one read: what it shows is what the terminal shows of the new   *)
(* bytes, one each at most.                                                 *)
LEMMA CleanRead ==
  ASSUME NEW old, NEW m, Kept(old, m), NEW chunk \in Seq(Byte),
         NEW c, c = clean(old, chunk)
  PROVE  \E out \in Seq(Byte) : \E r, m2, m3 :
           /\ c = [out |-> out, remainder |-> r]
           /\ Kept(r, m2) /\ Len(out) <= Len(chunk)
           /\ End(In(m), chunk) = [mode |-> m3, out |-> out]
           /\ Len(stripEscapes(old \o chunk).remainder) <= MaxRemainder => m3 = m2
<1>1. old \in Seq(Byte) /\ End(Ground, old) = In(m)
  BY DEF Kept
<1>2. PICK data : data = old \o chunk
  OBVIOUS
<1>3. data \in Seq(Byte)
  BY <1>1, <1>2
<1>4. PICK s : s = stripEscapes(data)
  OBVIOUS
<1>5. PICK m3 : \E x \in Seq(Byte), y \in Seq(Byte) :
           /\ s = [out |-> x, remainder |-> y]
           /\ End(Ground, data) = [mode |-> m3, out |-> x]
           /\ End(Ground, y) = In(m3)
  BY <1>3, <1>4, StripRead
<1>6. PICK x \in Seq(Byte), y \in Seq(Byte) :
           /\ s = [out |-> x, remainder |-> y]
           /\ End(Ground, data) = [mode |-> m3, out |-> x]
           /\ End(Ground, y) = In(m3)
  BY <1>5
<1>7. End(Ground, data) = End(In(m), chunk)
  BY <1>1, <1>2, EndConcat
<1>8. PICK e : e = End(In(m), chunk)
  OBVIOUS
<1>9. Len(e.out) <= Len(chunk)
  <2>1. <<>> \in Seq(Byte)
    OBVIOUS
  <2>2. In(m) = [mode |-> m, out |-> <<>>]
    BY DEF In
  <2> QED
    BY <1>8, <2>1, <2>2, EndShift
<1>10. e = [mode |-> m3, out |-> x]
  BY <1>6, <1>7, <1>8
<1>11. Len(x) <= Len(chunk)
  BY <1>9, <1>10
<1>12. c = [s EXCEPT !.remainder = IF Len(@) > MaxRemainder THEN <<>> ELSE @]
  BY <1>2, <1>4, Zenon DEF clean
<1>13. s.remainder = y
  BY <1>6
<1>14. CASE Len(y) > MaxRemainder
  <2>1. c = [out |-> x, remainder |-> <<>>]
    BY <1>6, <1>12, <1>14
  <2>2. ~(Len(y) <= MaxRemainder)
    BY <1>14, SerialTextAssumption
  <2> QED
    BY <1>2, <1>4, <1>8, <1>10, <1>11, <1>13, <2>1, <2>2, NothingKept, Zenon
<1>15. CASE ~(Len(y) > MaxRemainder)
  <2>1. c = [out |-> x, remainder |-> y]
    BY <1>6, <1>12, <1>15
  <2>2. Kept(y, m3)
    BY <1>6, <1>15, SerialTextAssumption DEF Kept
  <2> QED
    BY <1>8, <1>10, <1>11, <2>1, <2>2, Zenon
<1> QED
  BY <1>14, <1>15

-----------------------------------------------------------------------------
(* The inductive invariant.                                                 *)

(* Types, and which step Run is at.                                         *)
PlaceOK ==
  /\ scenario \in Scenarios /\ SerialTypeOK /\ marks \in Seq(Int)
  /\ pc \in {"match", "read"} => idx <= Len(steps) /\ steps[idx].kind = "expect"
  /\ pc \in {"sleep", "write"} => idx <= Len(steps) /\ steps[idx].kind = "send"

(* The client has been shown what the terminal shows, and the terminal is   *)
(* where the kept bytes leave it.                                           *)
StreamsOK ==
  /\ wire \in Seq(Byte) /\ raw \in Seq(Byte) /\ shown \in Seq(Byte)
  /\ scenario.keepEscapes => shown = raw
  /\ \E m : /\ Kept(remainder, m)
            /\ ~scenario.keepEscapes /\ ~dropped => End(Ground, raw) = [mode |-> m, out |-> shown]

(* The buffer is trimmed before every Read.                                 *)
BufferOK ==
  /\ buf \in Seq(Byte) /\ Len(buf) <= MatchWindow + ReadChunk
  /\ pc = "read" => Len(buf) <= MatchWindow

(* The writer knows whether the console is at the start of a line.          *)
ConsoleOK ==
  /\ console \in Seq(Byte \cup {"\n", "MARK"}) /\ MarkersOnOwnLine
  /\ atLineStart => console = <<>> \/ console[Len(console)] \in {"\n", "MARK"}

ConsoleInv == PlaceOK /\ StreamsOK /\ BufferOK /\ ConsoleOK

(* A text stands in a stream behind its first s bytes.                      *)
Occurs(text, w, s) == s + Len(text) <= Len(w) /\ \A i \in 1..Len(text) : w[s + i] = text[i]

(* How much of what was shown is not in the buffer any more.                *)
Gone == Len(shown) - Len(buf)

(* Marks grow, and stay within what was shown.                              *)
MarksOK == \A k \in 1..Len(marks) : marks[k] \in Nat /\ Since(k) <= marks[k] /\ marks[k] <= Len(shown)

(* The buffer is the end of what was shown, and nothing of it counted for an *)
(* earlier step.  Only a step that waits has lost something it could have    *)
(* matched, and then a whole window is left.                                 *)
TailOK ==
  /\ pc = "open" => shown = <<>> /\ buf = <<>> /\ marks = <<>>
  /\ pc \in {"step", "match", "read", "sleep", "write"} =>
       /\ Gone >= Since(idx)
       /\ \A i \in 1..Len(buf) : buf[i] = shown[Gone + i]
       /\ Gone = Since(idx) \/ (pc \in {"match", "read"} /\ Len(buf) >= MatchWindow)

FoundOK ==
  \A k \in 1..Len(marks) : steps[k].kind = "expect" =>
    /\ marks[k] - Len(steps[k].text) >= Since(k)
    /\ Occurs(steps[k].text, shown, marks[k] - Len(steps[k].text))

(* A waiting step has looked at everything that begins before the buffer,   *)
(* and before a Read at everything.                                         *)
SearchOK ==
  pc \in {"match", "read"} /\ Len(steps[idx].text) <= MatchWindow + 1 =>
    \A s \in Nat : s >= Since(idx) /\ (s < Gone \/ pc = "read") => ~Occurs(steps[idx].text, shown, s)

MatchInv == MarksOK /\ TailOK /\ FoundOK /\ SearchOK

(* What parseArgs makes of a verb and its argument.                         *)
StepOf(k, arg) ==
  \/ steps[k] = [kind |-> "expect", text |-> arg]
  \/ \E eol \in DOMAIN resolveEOL : steps[k] = [kind |-> "send", text |-> decodeEscapes(arg).value \o resolveEOL[eol]]
  \/ steps[k] = [kind |-> "send", text |-> decodeEscapes(arg).value]

LEMMA StepShape ==
  ASSUME scenario \in Scenarios
  PROVE  /\ Len(steps) \in Nat
         /\ \A k \in 1..Len(steps) : \E arg \in Seq(Byte) : StepOf(k, arg)
<1>1. PICK tokens : tokens = scenario.tokens
  OBVIOUS
<1>2. /\ Len(tokens) \in Nat
      /\ \A k \in 1..(Len(tokens) \div 2) : tokens[2 * k] \in Seq(Byte)
  BY <1>1, ScenariosAssumption
<1>3. CASE steps = <<>>
  BY <1>3
<1>4. CASE steps # <<>>
  <2>1. PICK end \in DOMAIN resolveEOL : steps = parseSteps(tokens, resolveEOL[end]).value
    BY <1>1, <1>4 DEF steps, parseArgs, Invalid
  <2>2. PICK eol : eol = resolveEOL[end]
    OBVIOUS
  <2> DEFINE verb(k) == tokens[2 * k - 1]
             count == (Len(tokens) + 1) \div 2
             data(k) == decodeEscapes(tokens[2 * k])
             valid(k) == /\ verb(k) \in {"expect", "send", "send-raw"} /\ 2 * k <= Len(tokens)
                         /\ IF verb(k) = "expect" THEN tokens[2 * k] # <<"(">> ELSE data(k).ok
             step(k) == CASE verb(k) = "expect" -> [kind |-> "expect", text |-> tokens[2 * k]]
                          [] verb(k) = "send" -> [kind |-> "send", text |-> data(k).value \o eol]
                          [] verb(k) = "send-raw" -> [kind |-> "send", text |-> data(k).value]
  <2>3. parseSteps(tokens, eol) =
          IF \A k \in 1..count : valid(k) THEN [ok |-> TRUE, value |-> [k \in 1..count |-> step(k)]] ELSE Invalid
    BY Zenon DEF parseSteps
  <2>4. \A k \in 1..count : valid(k)
    <3>1. Invalid.value = <<>>
      BY DEF Invalid
    <3> QED
      BY <1>4, <2>1, <2>2, <2>3, <3>1, Zenon
  <2>5. steps = [k \in 1..count |-> step(k)]
    <3>1. PICK v : v = [k \in 1..count |-> step(k)]
      OBVIOUS
    <3>2. parseSteps(tokens, eol) = [ok |-> TRUE, value |-> v]
      BY <2>3, <2>4, <3>1, Zenon
    <3>3. parseSteps(tokens, eol).value = v
      BY <3>2
    <3> QED
      BY <2>1, <2>2, <3>1, <3>3, Zenon
  <2>6. PICK c \in Nat : c = count
    BY <1>2
  <2>7. ASSUME NEW k \in 1..c PROVE \E arg \in Seq(Byte) : StepOf(k, arg)
    <3>1. valid(k) /\ steps[k] = step(k)
      BY <2>4, <2>5, <2>6, Zenon
    <3>2. PICK v : v = verb(k)
      OBVIOUS
    <3>3. PICK a, d : a = tokens[2 * k] /\ d = decodeEscapes(a).value
      OBVIOUS
    <3>4. v \in {"expect", "send", "send-raw"} /\ 2 * k <= Len(tokens)
      BY <3>1, <3>2
    <3>5. a \in Seq(Byte)
      <4>1. PICK l \in Nat : l = Len(tokens)
        BY <1>2
      <4>2. k \in 1..(l \div 2)
        BY <3>4, <4>1
      <4>3. tokens[2 * k] \in Seq(Byte)
        BY <1>2, <4>1, <4>2, Zenon
      <4> QED
        BY <3>3, <4>3, Zenon
    <3>6. steps[k] = CASE v = "expect" -> [kind |-> "expect", text |-> a]
                       [] v = "send" -> [kind |-> "send", text |-> d \o eol]
                       [] v = "send-raw" -> [kind |-> "send", text |-> d]
      BY <3>1, <3>2, <3>3, Zenon
    <3>7. \/ steps[k] = [kind |-> "expect", text |-> a]
          \/ steps[k] = [kind |-> "send", text |-> d \o eol]
          \/ steps[k] = [kind |-> "send", text |-> d]
      BY <3>4, <3>6
    <3>8. StepOf(k, a)
      BY <2>1, <2>2, <3>3, <3>7, Zenon DEF StepOf
    <3> QED
      BY <3>5, <3>8
  <2>8. Len(steps) = c
    <3> HIDE DEF count, step
    <3> QED
      BY <2>5, <2>6
  <2> QED
    BY <2>6, <2>7, <2>8
<1> QED
  BY <1>3, <1>4

(* A step of a script expects a text or sends something.                    *)
LEMMA StepsType ==
  ASSUME scenario \in Scenarios
  PROVE  /\ Len(steps) \in Nat
         /\ \A k \in 1..Len(steps) : /\ steps[k].kind \in {"expect", "send"}
                                     /\ steps[k].kind = "expect" => steps[k].text \in Seq(Byte)
<1>1. ASSUME NEW k \in 1..Len(steps)
      PROVE  /\ steps[k].kind \in {"expect", "send"}
             /\ steps[k].kind = "expect" => steps[k].text \in Seq(Byte)
  <2>1. PICK arg \in Seq(Byte) : StepOf(k, arg)
    BY <1>1, StepShape
  <2>2. \/ steps[k] = [kind |-> "expect", text |-> arg]
        \/ \E x : steps[k] = [kind |-> "send", text |-> x]
    BY <2>1, Zenon DEF StepOf
  <2>3. CASE steps[k] = [kind |-> "expect", text |-> arg]
    BY <2>1, <2>3
  <2>4. CASE \E x : steps[k] = [kind |-> "send", text |-> x]
    BY <2>4
  <2> QED
    BY <2>2, <2>3, <2>4
<1> QED
  BY <1>1, StepShape

(* A piece of a stream is a text if and only if the text stands there.      *)
LEMMA PieceIsText ==
  ASSUME NEW text \in Seq(Byte), NEW w \in Seq(Byte)
  PROVE  \A e \in Len(text)..Len(w) :
           SubSeq(w, e - Len(text) + 1, e) = text <=> Occurs(text, w, e - Len(text))
<1>1. PICK l \in Nat : l = Len(text)
  OBVIOUS
<1>2. PICK n \in Nat : n = Len(w)
  OBVIOUS
<1>3. ASSUME NEW e \in l..n PROVE SubSeq(w, e - l + 1, e) = text <=> Occurs(text, w, e - l)
  <2>1. PICK p : p = SubSeq(w, e - l + 1, e)
    OBVIOUS
  <2>2. e - l + 1 \in 1..(n + 1) /\ e \in 0..n /\ e - (e - l + 1) + 1 = l
    OBVIOUS
  <2>3. p \in Seq(Byte) /\ Len(p) = l
    BY <1>2, <2>1, <2>2
  <2>4. ASSUME NEW i \in 1..l PROVE p[i] = w[(e - l) + i]
    <3>1. p[i] = w[(e - l + 1) + i - 1]
      BY <1>2, <2>1, <2>2
    <3> QED
      BY <3>1
  <2>5. (\A i \in 1..l : p[i] = text[i]) => p = text
    BY <1>1, <2>3, SameSeq
  <2>6. (e - l) + l <= n
    OBVIOUS
  <2> QED
    BY <1>1, <1>2, <2>1, <2>4, <2>5, <2>6 DEF Occurs
<1> QED
  BY <1>1, <1>2, <1>3, Zenon

(* FindEnd finds an occurrence if there is one.                             *)
LEMMA FindEndIs ==
  ASSUME NEW text \in Seq(Byte), NEW w \in Seq(Byte), NEW e, e = FindEnd(text, w)
  PROVE  \/ e = -1 /\ \A s \in Nat : ~Occurs(text, w, s)
         \/ e \in Len(text)..Len(w) /\ Occurs(text, w, e - Len(text))
<1>1. PICK l \in Nat : l = Len(text)
  OBVIOUS
<1>2. PICK n \in Nat : n = Len(w)
  OBVIOUS
<1>3. PICK ends : ends = {x \in l..n : SubSeq(w, x - l + 1, x) = text}
  OBVIOUS
<1>4. e = IF ends = {} THEN -1 ELSE Min(ends)
  BY <1>1, <1>2, <1>3, Zenon DEF FindEnd
<1>5. \A x \in l..n : x \in ends <=> Occurs(text, w, x - l)
  <2>1. \A x \in l..n : x \in ends <=> SubSeq(w, x - l + 1, x) = text
    BY <1>3, Zenon
  <2>2. \A x \in l..n : SubSeq(w, x - l + 1, x) = text <=> Occurs(text, w, x - l)
    BY <1>1, <1>2, PieceIsText, Zenon
  <2> QED
    BY <2>1, <2>2, Zenon
<1>6. CASE ends = {}
  <2>1. ASSUME NEW s \in Nat, Occurs(text, w, s) PROVE FALSE
    <3>1. s + l \in l..n /\ (s + l) - l = s
      BY <1>1, <1>2, <2>1 DEF Occurs
    <3> QED
      BY <1>5, <1>6, <2>1, <3>1
  <2> QED
    BY <1>4, <1>6, <2>1
<1>7. CASE ends # {}
  <2>1. ends \subseteq l..n
    BY <1>3
  <2>2. ends \subseteq Nat
    BY <2>1
  <2>3. e \in ends
    BY <1>4, <1>7, <2>2, MinIsLeast
  <2> QED
    BY <1>1, <1>2, <1>5, <2>1, <2>3
<1> QED
  BY <1>6, <1>7

(* What a Read changes.  The bytes it takes are the next ones, and what is  *)
(* shown of them is what the terminal shows.                                *)
LEMMA TakesDoes ==
  ASSUME NEW how, Takes(how), scenario \in Scenarios, StreamsOK, dropped \in BOOLEAN, atLineStart \in BOOLEAN,
         scenario' = scenario
  PROVE  /\ StreamsOK' /\ dropped' \in BOOLEAN
         /\ \E out \in Seq(Byte) :
              /\ Len(out) <= ReadChunk
              /\ Write(out)
              /\ buf' = IF how = "matched" THEN buf \o out ELSE buf
<1>1. /\ wire \in Seq(Byte) /\ raw \in Seq(Byte) /\ shown \in Seq(Byte)
      /\ scenario.keepEscapes => shown = raw
  BY DEF StreamsOK
<1>2. PICK m : /\ Kept(remainder, m)
               /\ ~scenario.keepEscapes /\ ~dropped => End(Ground, raw) = [mode |-> m, out |-> shown]
  BY DEF StreamsOK
<1> DEFINE Cleaned(chunk) ==
             IF scenario.keepEscapes THEN [out |-> chunk, remainder |-> <<>>] ELSE clean(remainder, chunk)
<1>3. PICK n \in 1..Min({ReadChunk, Len(wire)}) : LET chunk == SubSeq(wire, 1, n) IN
        /\ wire' = SubSeq(wire, n + 1, Len(wire)) /\ raw' = raw \o chunk
        /\ Write(Cleaned(chunk).out) /\ remainder' = Cleaned(chunk).remainder
        /\ dropped' = (dropped \/ Len(stripEscapes(remainder \o chunk).remainder) > MaxRemainder)
        /\ buf' = IF how = "matched" THEN buf \o Cleaned(chunk).out ELSE buf
  BY Zenon DEF Takes
<1>4. n \in Nat /\ 1 <= n /\ n <= ReadChunk /\ n <= Len(wire)
  <2>1. PICK T : T = {ReadChunk, Len(wire)}
    OBVIOUS
  <2>2. T \subseteq Nat /\ T # {}
    BY <1>1, <2>1, SerialAssumption
  <2>3. Min(T) \in T /\ \A y \in T : Min(T) <= y
    BY <2>2, MinIsLeast
  <2>4. Min(T) \in Nat /\ Min(T) <= ReadChunk /\ Min(T) <= Len(wire)
    BY <2>1, <2>2, <2>3
  <2>5. n \in 1..Min(T)
    BY <1>3, <2>1
  <2> QED
    BY <2>4, <2>5, <1>1, SerialAssumption
<1>5. PICK chunk : chunk = SubSeq(wire, 1, n)
  OBVIOUS
<1>6. chunk \in Seq(Byte) /\ Len(chunk) = n
  BY <1>1, <1>4, <1>5
<1>7. PICK c : c = Cleaned(chunk)
  OBVIOUS
<1>8. /\ wire' = SubSeq(wire, n + 1, Len(wire)) /\ raw' = raw \o chunk
      /\ Write(c.out) /\ remainder' = c.remainder
      /\ dropped' = (dropped \/ Len(stripEscapes(remainder \o chunk).remainder) > MaxRemainder)
      /\ buf' = IF how = "matched" THEN buf \o c.out ELSE buf
  BY <1>3, <1>5, <1>7, Zenon
<1>9. wire' \in Seq(Byte) /\ raw' \in Seq(Byte)
  BY <1>1, <1>4, <1>6, <1>8
<1>10. dropped' \in BOOLEAN
  BY <1>8
<1>11. CASE scenario.keepEscapes
  <2>1. c.out = chunk /\ c.remainder = <<>>
    BY <1>7, <1>11
  <2>2. shown' = shown \o chunk /\ remainder' = <<>>
    BY <1>8, <2>1 DEF Write
  <2>3. shown' = raw' /\ shown' \in Seq(Byte)
    BY <1>1, <1>6, <1>8, <1>11, <2>2
  <2>4. Kept(remainder, "ground")'
    BY <2>2, NothingKept DEF Kept
  <2>5. StreamsOK'
    BY <1>9, <1>11, <2>3, <2>4, Zenon DEF StreamsOK
  <2> QED
    BY <1>4, <1>6, <1>8, <1>10, <2>1, <2>5
<1>12. CASE ~scenario.keepEscapes
  <2>1. c = clean(remainder, chunk)
    BY <1>7, <1>12
  <2>2. PICK out \in Seq(Byte) : \E r, m2, m3 :
           /\ c = [out |-> out, remainder |-> r]
           /\ Kept(r, m2) /\ Len(out) <= Len(chunk)
           /\ End(In(m), chunk) = [mode |-> m3, out |-> out]
           /\ Len(stripEscapes(remainder \o chunk).remainder) <= MaxRemainder => m3 = m2
    BY <1>2, <1>6, <2>1, CleanRead
  <2>3. PICK r, m2, m3 :
           /\ c = [out |-> out, remainder |-> r]
           /\ Kept(r, m2) /\ Len(out) <= Len(chunk)
           /\ End(In(m), chunk) = [mode |-> m3, out |-> out]
           /\ Len(stripEscapes(remainder \o chunk).remainder) <= MaxRemainder => m3 = m2
    BY <2>2
  <2>4. c.out = out /\ c.remainder = r
    BY <2>3
  <2>5. shown' = shown \o out /\ remainder' = r
    BY <1>8, <2>4 DEF Write
  <2>6. shown' \in Seq(Byte) /\ Len(out) <= ReadChunk
    BY <1>1, <1>4, <1>6, <2>3, <2>5, SerialAssumption
  <2>7. Kept(remainder, m2)'
    BY <2>3, <2>5 DEF Kept
  <2>8. ASSUME ~dropped' PROVE End(Ground, raw') = [mode |-> m2, out |-> shown']
    <3>1. ~dropped /\ ~(Len(stripEscapes(remainder \o chunk).remainder) > MaxRemainder)
      BY <1>8, <2>8
    <3>2. Len(stripEscapes(remainder \o chunk).remainder) \in Nat
      <4>1. PICK data : data = remainder \o chunk
        OBVIOUS
      <4>2. data \in Seq(Byte)
        BY <1>2, <1>6, <4>1 DEF Kept
      <4>3. PICK s : s = stripEscapes(data)
        OBVIOUS
      <4>4. PICK x \in Seq(Byte), y \in Seq(Byte) : s = [out |-> x, remainder |-> y]
        BY <4>2, <4>3, StripRead
      <4>5. Len(s.remainder) \in Nat
        BY <4>4
      <4> QED
        BY <4>1, <4>3, <4>5
    <3>3. m3 = m2
      BY <2>3, <3>1, <3>2, SerialTextAssumption
    <3>4. PICK e : e = End([mode |-> m, out |-> <<>>], chunk)
      OBVIOUS
    <3>5. e.mode = m2 /\ e.out = out
      BY <2>3, <3>3, <3>4 DEF In
    <3>6. End([mode |-> m, out |-> shown], chunk) = [mode |-> e.mode, out |-> shown \o e.out]
      BY <1>1, <1>6, <3>4, EndShift
    <3>7. End(Ground, raw \o chunk) = End(End(Ground, raw), chunk)
      BY <1>1, <1>6, EndConcat
    <3>8. End(Ground, raw) = [mode |-> m, out |-> shown]
      BY <1>2, <1>12, <3>1
    <3> QED
      BY <1>8, <2>5, <3>5, <3>6, <3>7, <3>8, Zenon
  <2>9. StreamsOK'
    BY <1>9, <1>12, <2>6, <2>7, <2>8, Zenon DEF StreamsOK
  <2> QED
    BY <1>8, <1>10, <2>4, <2>6, <2>9, Zenon
<1> QED
  BY <1>11, <1>12

(* A status line leaves the console in order.                               *)
LEMMA MarkerDoes ==
  ASSUME ConsoleOK, atLineStart \in BOOLEAN, markerf
  PROVE  ConsoleOK'
<1>1. PICK C : C = Byte \cup {"\n", "MARK"}
  OBVIOUS
<1>2. "\n" \in C /\ "MARK" \in C
  BY <1>1
<1>3. PICK n \in Nat : n = Len(console)
  BY DEF ConsoleOK
<1>4. /\ console \in Seq(C)
      /\ \A i \in 1..n : console[i] = "MARK" => i = 1 \/ console[i - 1] \in {"\n", "MARK"}
      /\ atLineStart => n = 0 \/ console[n] \in {"\n", "MARK"}
  <2>1. /\ console \in Seq(C) /\ MarkersOnOwnLine
        /\ atLineStart => console = <<>> \/ console[Len(console)] \in {"\n", "MARK"}
    BY <1>1, Zenon DEF ConsoleOK
  <2>2. DOMAIN console = 1..n /\ (console = <<>> => n = 0)
    BY <1>3, <2>1
  <2> QED
    BY <1>3, <2>1, <2>2, Zenon DEF MarkersOnOwnLine
<1>5. SUFFICES /\ console' \in Seq(C) /\ atLineStart'
               /\ \A i \in 1..Len(console') :
                    console'[i] = "MARK" => i = 1 \/ console'[i - 1] \in {"\n", "MARK"}
               /\ console'[Len(console')] \in {"\n", "MARK"}
  BY <1>1 DEF ConsoleOK, MarkersOnOwnLine
<1>6. atLineStart'
  BY DEF markerf
<1>7. CASE atLineStart
  <2>1. PICK d : d = console \o <<"MARK">>
    OBVIOUS
  <2>2. console' = d
    BY <1>7, <2>1 DEF markerf
  <2>3. /\ d \in Seq(C) /\ Len(d) = n + 1 /\ d[n + 1] = "MARK"
        /\ \A i \in 1..n : d[i] = console[i]
    BY <1>2, <1>3, <1>4, <2>1
  <2> QED
    BY <1>4, <1>6, <1>7, <2>2, <2>3
<1>8. CASE ~atLineStart
  <2>1. PICK d : d = console \o <<"\n", "MARK">>
    OBVIOUS
  <2>2. console' = d
    BY <1>8, <2>1 DEF markerf
  <2>3. /\ d \in Seq(C) /\ Len(d) = n + 2 /\ d[n + 1] = "\n" /\ d[n + 2] = "MARK"
        /\ \A i \in 1..n : d[i] = console[i]
    BY <1>2, <1>3, <1>4, <2>1
  <2> QED
    BY <1>4, <1>6, <2>2, <2>3
<1> QED
  BY <1>7, <1>8

(* So does output of the device.                                            *)
LEMMA WriteDoes ==
  ASSUME ConsoleOK, atLineStart \in BOOLEAN, NEW out \in Seq(Byte), Write(out)
  PROVE  ConsoleOK' /\ atLineStart' \in BOOLEAN
<1>1. PICK C : C = Byte \cup {"\n", "MARK"}
  OBVIOUS
<1>2. out \in Seq(C) /\ \A i \in 1..Len(out) : out[i] # "MARK"
  <2>1. \A b \in Byte : b \in C /\ b # "MARK"
    BY <1>1 DEF Byte
  <2> QED
    BY <2>1
<1>3. PICK n \in Nat : n = Len(console)
  BY DEF ConsoleOK
<1>4. /\ console \in Seq(C)
      /\ \A i \in 1..n : console[i] = "MARK" => i = 1 \/ console[i - 1] \in {"\n", "MARK"}
      /\ atLineStart => n = 0 \/ console[n] \in {"\n", "MARK"}
  <2>1. /\ console \in Seq(C) /\ MarkersOnOwnLine
        /\ atLineStart => console = <<>> \/ console[Len(console)] \in {"\n", "MARK"}
    BY <1>1, Zenon DEF ConsoleOK
  <2>2. DOMAIN console = 1..n /\ (console = <<>> => n = 0)
    BY <1>3, <2>1
  <2> QED
    BY <1>3, <2>1, <2>2, Zenon DEF MarkersOnOwnLine
<1>5. PICK k \in Nat : k = Len(out)
  OBVIOUS
<1>6. PICK d : d = console \o out
  OBVIOUS
<1>7. /\ d \in Seq(C) /\ Len(d) = n + k
      /\ \A i \in 1..n : d[i] = console[i]
      /\ \A i \in 1..k : d[n + i] = out[i]
  <2>1. d \in Seq(C) /\ Len(d) = n + k /\ \A i \in 1..n : d[i] = console[i]
    BY <1>2, <1>3, <1>4, <1>5, <1>6
  <2>2. \A i \in 1..k : d[n + i] = out[i]
    BY <1>2, <1>3, <1>4, <1>5, <1>6
  <2> QED
    BY <2>1, <2>2
<1>8. console' = d /\ atLineStart' = IF k = 0 THEN atLineStart ELSE out[k] = "\n"
  BY <1>5, <1>6 DEF Write, Last
<1>9. \A i \in 1..(n + k) : d[i] = "MARK" => i = 1 \/ d[i - 1] \in {"\n", "MARK"}
  <2>1. ASSUME NEW i \in 1..(n + k), d[i] = "MARK", i # 1 PROVE d[i - 1] \in {"\n", "MARK"}
    <3>1. i <= n
      <4>1. SUFFICES ASSUME i > n PROVE FALSE
        OBVIOUS
      <4>2. i - n \in 1..k /\ n + (i - n) = i
        BY <4>1
      <4> QED
        BY <1>2, <1>5, <1>7, <2>1, <4>2
    <3> QED
      BY <1>4, <1>7, <2>1, <3>1
  <2> QED
    BY <2>1
<1>10. atLineStart' => n + k = 0 \/ d[n + k] \in {"\n", "MARK"}
  <2>1. CASE k = 0
    <3>1. d[n + k] = console[n] \/ n = 0
      BY <1>7, <2>1
    <3> QED
      BY <1>4, <1>8, <2>1, <3>1
  <2>2. CASE k # 0
    <3>1. d[n + k] = out[k]
      BY <1>7, <2>2
    <3> QED
      BY <1>8, <2>2, <3>1
  <2> QED
    BY <2>1, <2>2
<1>11. atLineStart' \in BOOLEAN
  BY <1>8
<1>12. DOMAIN d = 1..(n + k) /\ (n + k = 0 => d = <<>>)
  BY <1>7
<1>13. MarkersOnOwnLine'
  BY <1>8, <1>9, <1>12, Zenon DEF MarkersOnOwnLine
<1> QED
  BY <1>1, <1>7, <1>8, <1>10, <1>11, <1>12, <1>13, Zenon DEF ConsoleOK

LEMMA StreamsSame ==
  ASSUME StreamsOK, UNCHANGED <<scenario, raw, shown, remainder, dropped>>, wire' \in Seq(Byte)
  PROVE  StreamsOK'
<1>1. raw \in Seq(Byte) /\ shown \in Seq(Byte) /\ (scenario.keepEscapes => shown = raw)
  BY DEF StreamsOK
<1>2. PICK m : /\ Kept(remainder, m)
               /\ ~scenario.keepEscapes /\ ~dropped => End(Ground, raw) = [mode |-> m, out |-> shown]
  BY DEF StreamsOK
<1>3. Kept(remainder, m)'
  BY <1>2 DEF Kept
<1>4. /\ raw' \in Seq(Byte) /\ shown' \in Seq(Byte) /\ (scenario'.keepEscapes => shown' = raw')
      /\ ~scenario'.keepEscapes /\ ~dropped' => End(Ground, raw') = [mode |-> m, out |-> shown']
  BY <1>1, <1>2
<1> QED
  BY <1>3, <1>4, Zenon DEF StreamsOK

LEMMA ConsoleSame ==
  ASSUME ConsoleOK, UNCHANGED <<console, atLineStart>>
  PROVE  ConsoleOK'
  BY Zenon DEF ConsoleOK, MarkersOnOwnLine

LEMMA PlaceStep ==
  ASSUME ConsoleInv, [SerialNext]_vars
  PROVE  PlaceOK'
<1>1. /\ PlaceOK /\ scenario \in Scenarios /\ SerialTypeOK /\ marks \in Seq(Int)
      /\ pc \in {"match", "read"} => idx <= Len(steps) /\ steps[idx].kind = "expect"
      /\ pc \in {"sleep", "write"} => idx <= Len(steps) /\ steps[idx].kind = "send"
  BY DEF ConsoleInv, PlaceOK
<1>2. PICK l \in Nat : l = Len(steps)
  BY <1>1, StepsType
<1>3. \A k \in 1..l : steps[k].kind \in {"expect", "send"}
  BY <1>1, <1>2, StepsType
<1>4. Len(scenario.output) \in Nat
  BY <1>1, ScenariosAssumption
<1>5. idx \in 1..(l + 1) /\ shown \in Seq(Byte) /\ buf \in Seq(Byte)
  BY <1>1, <1>2 DEF SerialTypeOK, ConsoleInv, StreamsOK, BufferOK
<1>6. CASE open
  BY <1>1, <1>2, <1>6 DEF open, PlaceOK, SerialTypeOK, Return, markerf, steps
<1>7. CASE nextStep
  <2>1. UNCHANGED <<scenario, said, idx, fired, marks, dropped>> /\ pc = "step"
    BY <1>7 DEF nextStep
  <2>2. \/ /\ idx <= l /\ pc' = (IF steps[idx].kind = "expect" THEN "match" ELSE "sleep")
           /\ UNCHANGED <<outcome, port, atLineStart>>
        \/ pc' = "drain" /\ UNCHANGED <<outcome, port, atLineStart>>
        \/ Return("ok") /\ atLineStart' = TRUE
    BY <1>2, <1>7 DEF nextStep, markerf
  <2>3. steps' = steps
    BY <2>1 DEF steps
  <2>4. idx <= l => steps[idx].kind \in {"expect", "send"}
    BY <1>3, <1>5
  <2>5. SerialTypeOK'
    BY <1>1, <2>1, <2>2, <2>3 DEF SerialTypeOK, Return
  <2>6. pc' \in {"match", "read"} => idx <= l /\ steps[idx].kind = "expect"
    BY <2>2 DEF Return
  <2>7. pc' \in {"sleep", "write"} => idx <= l /\ steps[idx].kind = "send"
    BY <2>2, <2>4 DEF Return
  <2> QED
    BY <1>1, <1>2, <2>1, <2>3, <2>5, <2>6, <2>7 DEF PlaceOK
<1>8. CASE readUntil
  <2>1. PICK e : e = FindEnd(steps[idx].text, buf)
    OBVIOUS
  <2>2. e \in Int
    <3>1. steps[idx].text \in Seq(Byte)
      BY <1>1, <1>2, <1>5, <1>8, StepsType DEF readUntil
    <3> QED
      BY <1>5, <2>1, <3>1, FindEndIs
  <2>3. CASE e >= 0
    <3>1. /\ marks' = Append(marks, Len(shown) - Len(buf) + e)
          /\ pc' = "step" /\ idx' = idx + 1 /\ atLineStart' = TRUE
          /\ UNCHANGED <<outcome, port, scenario, said, fired, dropped>>
      BY <1>8, <2>1, <2>3 DEF readUntil, markerf
    <3>2. Len(shown) - Len(buf) + e \in Int
      BY <1>5, <2>2
    <3>3. marks' \in Seq(Int) /\ Len(marks') = idx' - 1
      BY <1>1, <1>5, <3>1, <3>2 DEF SerialTypeOK
    <3>4. idx' \in 1..(l + 1) /\ pc = "match"
      BY <1>1, <1>2, <1>5, <1>8, <3>1 DEF readUntil
    <3> QED
      BY <1>1, <1>2, <3>1, <3>3, <3>4 DEF PlaceOK, SerialTypeOK, steps
  <2>4. CASE ~(e >= 0)
    <3>1. /\ \/ pc' = "returned" /\ outcome' = "context" /\ port' = "closed"
             \/ pc' = "read" /\ UNCHANGED <<outcome, port>>
          /\ UNCHANGED <<idx, marks, atLineStart, scenario, said, fired, dropped>>
          /\ pc = "match"
      BY <1>8, <2>1, <2>4 DEF readUntil, Return
    <3> QED
      BY <1>1, <3>1 DEF PlaceOK, SerialTypeOK, steps
  <2> QED
    BY <2>3, <2>4
<1>9. ASSUME NEW how, Takes(how), UNCHANGED scenario PROVE dropped' \in BOOLEAN /\ atLineStart' \in BOOLEAN
  <2>1. StreamsOK /\ ConsoleOK /\ dropped \in BOOLEAN /\ atLineStart \in BOOLEAN
    BY <1>1 DEF ConsoleInv, SerialTypeOK
  <2>2. dropped' \in BOOLEAN /\ \E out \in Seq(Byte) : Write(out)
    BY <1>1, <1>9, <2>1, TakesDoes
  <2> QED
    BY <2>1, <2>2, WriteDoes
<1>10. CASE readStep
  <2>1. UNCHANGED <<scenario, said, idx, fired, marks>> /\ pc = "read"
    BY <1>10 DEF readStep
  <2>2. dropped' \in BOOLEAN /\ atLineStart' \in BOOLEAN
    BY <1>1, <1>9, <1>10, <2>1 DEF readStep, SerialTypeOK
  <2>3. (pc' = "match" /\ UNCHANGED <<outcome, port>>) \/ Return("port")
    BY <1>10 DEF readStep
  <2> QED
    BY <1>1, <2>1, <2>2, <2>3 DEF PlaceOK, SerialTypeOK, steps, Return
<1>11. CASE sleepCtx
  BY <1>1, <1>2, <1>11 DEF sleepCtx, PlaceOK, SerialTypeOK, Return, history, steps
<1>12. CASE write
  BY <1>1, <1>2, <1>12 DEF write, PlaceOK, SerialTypeOK, steps
<1>13. CASE writeFails
  BY <1>1, <1>2, <1>13 DEF writeFails, PlaceOK, SerialTypeOK, Return, history, engineVars, steps
<1>14. CASE written
  <2>1. /\ marks' = Append(marks, Len(shown))
        /\ pc' = "step" /\ idx' = idx + 1 /\ atLineStart' = TRUE /\ pc = "write"
        /\ UNCHANGED <<outcome, port, scenario, said, fired, dropped>>
    BY <1>14 DEF written, Mark, markerf
  <2>2. marks' \in Seq(Int) /\ Len(marks') = idx' - 1
    BY <1>1, <1>5, <2>1 DEF SerialTypeOK
  <2>3. idx' \in 1..(l + 1)
    BY <1>1, <1>2, <1>5, <2>1
  <2> QED
    BY <1>1, <1>2, <2>1, <2>2, <2>3 DEF PlaceOK, SerialTypeOK, steps
<1>15. CASE pump
  <2>1. UNCHANGED <<scenario, said, idx, fired, marks>> /\ pc \in {"monitor", "drain"}
    BY <1>15 DEF pump
  <2>2. \/ Return("ok") /\ markerf /\ UNCHANGED dropped
        \/ Return("port") /\ UNCHANGED <<atLineStart, dropped>>
        \/ Takes("shown") /\ UNCHANGED <<pc, outcome, port>>
    BY <1>15 DEF pump
  <2>3. dropped' \in BOOLEAN /\ atLineStart' \in BOOLEAN
    BY <1>1, <1>9, <2>1, <2>2 DEF SerialTypeOK, markerf
  <2>4. Return("ok") \/ Return("port") \/ UNCHANGED <<pc, outcome, port>>
    BY <2>2
  <2> QED
    BY <1>1, <2>1, <2>3, <2>4 DEF PlaceOK, SerialTypeOK, steps, Return
<1>16. CASE deviceSays
  BY <1>1, <1>2, <1>4, <1>16 DEF deviceSays, PlaceOK, SerialTypeOK, history, engineVars, steps
<1>17. CASE deviceGone
  BY <1>1, <1>2, <1>17 DEF deviceGone, PlaceOK, SerialTypeOK, history, engineVars, steps
<1>18. CASE returned \/ UNCHANGED vars
  BY <1>1, <1>18 DEF returned, vars, PlaceOK, SerialTypeOK, history, engineVars, steps
<1>19. ASSUME NEW e \in {"cancel", "deadline", "drained"}, fires(e) PROVE PlaceOK'
  BY <1>1, <1>19 DEF fires, PlaceOK, SerialTypeOK, history, engineVars, steps
<1> QED
  BY <1>6, <1>7, <1>8, <1>10, <1>11, <1>12, <1>13, <1>14, <1>15, <1>16, <1>17, <1>18, <1>19 DEF SerialNext, Run

(* What capBuffer leaves.                                                   *)
LEMMA Capped ==
  ASSUME NEW b \in Seq(Byte), NEW c, c = capBuffer(b)
  PROVE  /\ c \in Seq(Byte) /\ Len(c) <= MatchWindow /\ Len(c) <= Len(b)
         /\ c = b \/ Len(c) = MatchWindow
         /\ \A i \in 1..Len(c) : c[i] = b[(Len(b) - Len(c)) + i]
<1>1. PICK n \in Nat : n = Len(b)
  OBVIOUS
<1>2. CASE n > MatchWindow
  <2>1. c = SubSeq(b, n - MatchWindow + 1, n)
    BY <1>1, <1>2 DEF capBuffer
  <2>2. n - MatchWindow + 1 \in 1..(n + 1) /\ n - (n - MatchWindow + 1) + 1 = MatchWindow
    BY <1>2, SerialTextAssumption
  <2>3. c \in Seq(Byte) /\ Len(c) = MatchWindow
    BY <1>1, <1>2, <2>1, <2>2, SerialTextAssumption
  <2>4. \A i \in 1..MatchWindow : c[i] = b[(n - MatchWindow) + i]
    <3>1. ASSUME NEW i \in 1..MatchWindow PROVE c[i] = b[(n - MatchWindow) + i]
      <4>1. c[i] = b[(n - MatchWindow + 1) + i - 1]
        BY <1>1, <2>1, <2>2, SerialTextAssumption
      <4>2. (n - MatchWindow + 1) + i - 1 = (n - MatchWindow) + i
        BY SerialTextAssumption
      <4> QED
        BY <4>1, <4>2
    <3> QED
      BY <3>1
  <2> QED
    BY <1>1, <1>2, <2>3, <2>4, SerialTextAssumption
<1>3. CASE ~(n > MatchWindow)
  <2>1. c = b
    BY <1>1, <1>3 DEF capBuffer
  <2> QED
    BY <1>1, <1>3, <2>1, SerialTextAssumption
<1> QED
  BY <1>2, <1>3

LEMMA StreamsStep ==
  ASSUME ConsoleInv, [SerialNext]_vars
  PROVE  StreamsOK'
<1>1. /\ scenario \in Scenarios /\ StreamsOK /\ wire \in Seq(Byte)
      /\ dropped \in BOOLEAN /\ atLineStart \in BOOLEAN
      /\ said \in 0..Len(scenario.output)
  BY DEF ConsoleInv, PlaceOK, SerialTypeOK, StreamsOK
<1>2. ASSUME NEW how, Takes(how), UNCHANGED scenario PROVE StreamsOK'
  BY <1>1, <1>2, TakesDoes
<1>3. ASSUME wire' \in {<<>>, wire}, UNCHANGED <<scenario, raw, shown, remainder, dropped>> PROVE StreamsOK'
  <2>1. <<>> \in Seq(Byte)
    OBVIOUS
  <2>2. wire' \in Seq(Byte)
    BY <1>1, <1>3, <2>1, Zenon
  <2> QED
    BY <1>1, <1>3, <2>2, StreamsSame
<1>4. CASE open \/ nextStep \/ readUntil \/ sleepCtx \/ write \/ writeFails \/ written
  BY <1>3, <1>4 DEF open, nextStep, readUntil, sleepCtx, write, writeFails, written, markerf, history, engineVars
<1>5. CASE readStep
  BY <1>2, <1>3, <1>5 DEF readStep
<1>6. CASE pump
  BY <1>2, <1>3, <1>6 DEF pump, markerf
<1>7. CASE deviceSays
  <2>1. scenario.output[said + 1] \in Byte
    <3>1. PICK o \in Seq(Byte) : o = scenario.output
      BY <1>1, ScenariosAssumption
    <3>2. said + 1 \in 1..Len(o)
      BY <1>1, <1>7, <3>1 DEF deviceSays
    <3> QED
      BY <3>1, <3>2
  <2>2. wire' \in Seq(Byte)
    BY <1>1, <1>7, <2>1 DEF deviceSays
  <2> QED
    BY <1>1, <1>7, <2>2, StreamsSame DEF deviceSays, history, engineVars
<1>8. CASE deviceGone \/ returned \/ UNCHANGED vars
  BY <1>3, <1>8 DEF deviceGone, returned, vars, history, engineVars
<1>9. ASSUME NEW e \in {"cancel", "deadline", "drained"}, fires(e) PROVE StreamsOK'
  BY <1>3, <1>9 DEF fires, history, engineVars
<1> QED
  BY <1>4, <1>5, <1>6, <1>7, <1>8, <1>9 DEF SerialNext, Run

LEMMA BufferStep ==
  ASSUME ConsoleInv, [SerialNext]_vars
  PROVE  BufferOK'
<1>1. /\ scenario \in Scenarios /\ StreamsOK
      /\ dropped \in BOOLEAN /\ atLineStart \in BOOLEAN
      /\ buf \in Seq(Byte) /\ Len(buf) <= MatchWindow + ReadChunk
      /\ pc = "read" => Len(buf) <= MatchWindow
  BY DEF ConsoleInv, PlaceOK, SerialTypeOK, BufferOK
<1>2. ASSUME NEW how, Takes(how), UNCHANGED scenario
      PROVE  \E out \in Seq(Byte) : Len(out) <= ReadChunk /\ buf' = IF how = "matched" THEN buf \o out ELSE buf
  BY <1>1, <1>2, TakesDoes
<1>3. ASSUME UNCHANGED buf, pc' # "read" \/ pc' = pc PROVE BufferOK'
  BY <1>1, <1>3 DEF BufferOK
<1>4. CASE open \/ nextStep \/ sleepCtx \/ write \/ writeFails
  BY <1>3, <1>4 DEF open, nextStep, sleepCtx, write, writeFails, engineVars, Return
<1>5. CASE readUntil
  <2>1. PICK e : e = FindEnd(steps[idx].text, buf)
    OBVIOUS
  <2>2. e \in -1..Len(buf)
    <3>1. steps[idx].text \in Seq(Byte)
      <4>1. idx \in 1..Len(steps) /\ steps[idx].kind = "expect"
        BY <1>5 DEF readUntil, ConsoleInv, PlaceOK, SerialTypeOK
      <4> QED
        BY <1>1, <4>1, StepsType
    <3>2. Len(steps[idx].text) \in Nat
      BY <3>1
    <3> QED
      BY <1>1, <2>1, <3>1, <3>2, FindEndIs
  <2>3. CASE e >= 0
    <3>1. buf' = SubSeq(buf, e + 1, Len(buf)) /\ pc' = "step"
      BY <1>5, <2>1, <2>3 DEF readUntil
    <3>2. buf' \in Seq(Byte) /\ Len(buf') <= Len(buf)
      BY <1>1, <2>2, <2>3, <3>1
    <3> QED
      BY <1>1, <3>1, <3>2, SerialTextAssumption, SerialAssumption DEF BufferOK
  <2>4. CASE ~(e >= 0)
    <3>1. buf' = capBuffer(buf)
      BY <1>5, <2>1, <2>4 DEF readUntil
    <3>2. buf' \in Seq(Byte) /\ Len(buf') <= MatchWindow
      BY <1>1, <3>1, Capped
    <3> QED
      BY <3>2, SerialTextAssumption, SerialAssumption DEF BufferOK
  <2> QED
    BY <2>3, <2>4
<1>6. CASE readStep
  <2>1. CASE Takes("matched") /\ pc' = "match"
    <3>1. PICK out \in Seq(Byte) : Len(out) <= ReadChunk /\ buf' = buf \o out
      BY <1>2, <1>6, <2>1 DEF readStep
    <3>2. buf' \in Seq(Byte) /\ Len(buf') <= MatchWindow + ReadChunk
      BY <1>1, <1>6, <3>1, SerialTextAssumption, SerialAssumption DEF readStep
    <3> QED
      BY <2>1, <3>2 DEF BufferOK
  <2>2. CASE UNCHANGED buf /\ pc' # "read"
    BY <1>3, <2>2
  <2> QED
    BY <1>6, <2>1, <2>2 DEF readStep, Return
<1>7. CASE written
  BY <1>7, SerialTextAssumption, SerialAssumption DEF written, BufferOK
<1>8. CASE pump
  <2>1. UNCHANGED scenario /\ pc # "read"
    BY <1>8 DEF pump
  <2>2. \/ Takes("shown") /\ UNCHANGED pc
        \/ UNCHANGED buf /\ pc' # "read"
    BY <1>8 DEF pump, Return
  <2>3. UNCHANGED buf /\ (pc' # "read" \/ pc' = pc)
    BY <1>2, <2>1, <2>2
  <2> QED
    BY <1>3, <2>3
<1>9. CASE deviceSays \/ deviceGone \/ returned \/ UNCHANGED vars
  BY <1>3, <1>9 DEF deviceSays, deviceGone, returned, vars, engineVars
<1>10. ASSUME NEW e \in {"cancel", "deadline", "drained"}, fires(e) PROVE BufferOK'
  BY <1>3, <1>10 DEF fires, engineVars
<1> QED
  BY <1>4, <1>5, <1>6, <1>7, <1>8, <1>9, <1>10 DEF SerialNext, Run

LEMMA ConsoleStep ==
  ASSUME ConsoleInv, [SerialNext]_vars
  PROVE  ConsoleOK'
<1>1. /\ scenario \in Scenarios /\ StreamsOK /\ ConsoleOK
      /\ dropped \in BOOLEAN /\ atLineStart \in BOOLEAN
  BY DEF ConsoleInv, PlaceOK, SerialTypeOK
<1>2. ASSUME NEW how, Takes(how), UNCHANGED scenario PROVE ConsoleOK'
  <2>1. PICK out \in Seq(Byte) : Write(out)
    BY <1>1, <1>2, TakesDoes
  <2> QED
    BY <1>1, <2>1, WriteDoes
<1>3. ASSUME markerf \/ UNCHANGED <<console, atLineStart>> PROVE ConsoleOK'
  BY <1>1, <1>3, MarkerDoes, ConsoleSame
<1>4. CASE open \/ nextStep \/ readUntil \/ sleepCtx \/ write \/ writeFails \/ written
  BY <1>3, <1>4 DEF open, nextStep, readUntil, sleepCtx, write, writeFails, written, history, engineVars
<1>5. CASE readStep
  BY <1>2, <1>3, <1>5 DEF readStep
<1>6. CASE pump
  BY <1>2, <1>3, <1>6 DEF pump
<1>7. CASE deviceSays \/ deviceGone \/ returned \/ UNCHANGED vars
  BY <1>3, <1>7 DEF deviceSays, deviceGone, returned, vars, history, engineVars
<1>8. ASSUME NEW e \in {"cancel", "deadline", "drained"}, fires(e) PROVE ConsoleOK'
  BY <1>3, <1>8 DEF fires, history, engineVars
<1> QED
  BY <1>4, <1>5, <1>6, <1>7, <1>8 DEF SerialNext, Run

LEMMA ConsoleInvInit ==
  ASSUME SerialInit
  PROVE  ConsoleInv
<1>1. PlaceOK
  <2>1. Len(steps) \in Nat /\ Len(scenario.output) \in Nat
    BY StepsType, ScenariosAssumption DEF SerialInit
  <2>2. marks \in Seq(Int) /\ Len(marks) = idx - 1
    BY DEF SerialInit
  <2>3. idx \in 1..(Len(steps) + 1) /\ said \in 0..Len(scenario.output) /\ scenario \in Scenarios
    BY <2>1 DEF SerialInit
  <2>4. SerialTypeOK
    BY <2>2, <2>3 DEF SerialInit, SerialTypeOK
  <2> QED
    BY <2>2, <2>3, <2>4 DEF SerialInit, PlaceOK
<1>2. StreamsOK
  <2>1. End(Ground, <<>>) = [mode |-> "ground", out |-> <<>>]
    BY EndEmpty DEF Ground
  <2>2. raw = <<>> /\ shown = <<>> /\ remainder = <<>> /\ wire = <<>>
    BY DEF SerialInit
  <2>3. Kept(remainder, "ground") /\ End(Ground, raw) = [mode |-> "ground", out |-> shown]
    BY <2>1, <2>2, NothingKept
  <2>4. wire \in Seq(Byte) /\ raw \in Seq(Byte) /\ shown \in Seq(Byte) /\ shown = raw
    BY <2>2
  <2> QED
    BY <2>3, <2>4, Zenon DEF StreamsOK
<1>3. BufferOK
  BY SerialTextAssumption, SerialAssumption DEF SerialInit, BufferOK
<1>4. ConsoleOK
  <2>1. console = <<>>
    BY DEF SerialInit
  <2> QED
    BY <2>1 DEF ConsoleOK, MarkersOnOwnLine
<1> QED
  BY <1>1, <1>2, <1>3, <1>4 DEF ConsoleInv

LEMMA ConsoleInvStep ==
  ASSUME ConsoleInv, [SerialNext]_vars
  PROVE  ConsoleInv'
  BY PlaceStep, StreamsStep, BufferStep, ConsoleStep DEF ConsoleInv

LEMMA ConsoleInvMeans ==
  ASSUME ConsoleInv
  PROVE  SerialInv
<1>1. SerialTypeOK /\ MarkersOnOwnLine
  BY DEF ConsoleInv, PlaceOK, ConsoleOK
<1>2. PICK m : /\ Kept(remainder, m)
               /\ ~scenario.keepEscapes /\ ~dropped => End(Ground, raw) = [mode |-> m, out |-> shown]
  BY DEF ConsoleInv, StreamsOK
<1>3. MemoryBounded
  BY <1>2 DEF ConsoleInv, BufferOK, MemoryBounded, Kept
<1>4. ~scenario.keepEscapes /\ ~dropped => shown = Visible(raw)
  BY <1>2, VisibleIsEnd
<1>5. OutputFaithful
  BY <1>4 DEF OutputFaithful, ConsoleInv, StreamsOK
<1> QED
  BY <1>1, <1>3, <1>5 DEF SerialInv

(* The client of a monitor or of a script is shown exactly what a terminal  *)
(* would have shown of the bytes read, for every output, every script and   *)
(* every way the reads cut the output (cleaner.clean, clientWriter.Write,   *)
(* engine.pump, engine.readUntil), unless a sequence grew longer than       *)
(* maxRemainder; status lines stand on lines of their own; and the buffers  *)
(* stay within their bounds.                                                *)
THEOREM SerialInvAlways == SerialSpec => []SerialInv
<1>1. SerialInit => ConsoleInv
  BY ConsoleInvInit
<1>2. ConsoleInv /\ [SerialNext]_vars => ConsoleInv'
  BY ConsoleInvStep
<1>3. ConsoleInv => SerialInv
  BY ConsoleInvMeans
<1> QED
  BY <1>1, <1>2, <1>3, PTL DEF SerialSpec

(* A number of bytes shown.                                                 *)
LEMMA SinceNat ==
  ASSUME marks \in Seq(Int), MarksOK, NEW k \in 1..(Len(marks) + 1)
  PROVE  Since(k) \in Nat /\ (shown \in Seq(Byte) => Since(k) <= Len(shown))
<1>1. CASE k = 1
  BY <1>1 DEF Since
<1>2. CASE k # 1
  <2>1. k - 1 \in 1..Len(marks)
    BY <1>2
  <2> QED
    BY <1>2, <2>1 DEF MarksOK, Since
<1> QED
  BY <1>1, <1>2

(* More output changes no place where a text stands.                        *)
LEMMA OccursGrows ==
  ASSUME NEW text \in Seq(Byte), NEW w \in Seq(Byte), NEW out \in Seq(Byte), NEW s \in Nat,
         NEW u, u = w \o out
  PROVE  /\ Occurs(text, w, s) => Occurs(text, u, s)
         /\ Occurs(text, u, s) /\ s + Len(text) <= Len(w) => Occurs(text, w, s)
<1>1. PICK n \in Nat : n = Len(w)
  OBVIOUS
<1>2. PICK l \in Nat : l = Len(text)
  OBVIOUS
<1>3. Len(u) >= n /\ \A i \in 1..n : u[i] = w[i]
  BY <1>1
<1>4. ASSUME s + l <= n PROVE \A i \in 1..l : u[s + i] = w[s + i]
  <2>1. \A i \in 1..l : s + i \in 1..n
    BY <1>4
  <2> QED
    BY <1>3, <2>1
<1>5. s + l <= n => s + l <= Len(u)
  <2>1. Len(u) \in Nat
    OBVIOUS
  <2> QED
    BY <1>3, <2>1
<1> QED
  BY <1>1, <1>2, <1>4, <1>5 DEF Occurs

(* What was found stays found when more is shown.                           *)
LEMMA FoundGrows ==
  ASSUME scenario \in Scenarios, marks \in Seq(Int), shown \in Seq(Byte), Len(marks) <= Len(steps),
         MarksOK, FoundOK, UNCHANGED <<scenario, marks>>,
         NEW out \in Seq(Byte), shown' = shown \o out
  PROVE  MarksOK' /\ FoundOK'
<1>1. steps' = steps /\ \A k : Since(k)' = Since(k)
  BY DEF steps, Since
<1>2. Len(shown') >= Len(shown) /\ Len(shown') \in Nat
  OBVIOUS
<1>3. MarksOK'
  <2>1. ASSUME NEW k \in 1..Len(marks) PROVE marks[k] \in Nat /\ Since(k) <= marks[k] /\ marks[k] <= Len(shown')
    BY <1>2 DEF MarksOK
  <2> QED
    BY <1>1, <2>1 DEF MarksOK
<1>4. ASSUME NEW k \in 1..Len(marks), steps[k].kind = "expect"
      PROVE  /\ marks[k] - Len(steps[k].text) >= Since(k)
             /\ Occurs(steps[k].text, shown', marks[k] - Len(steps[k].text))
  <2>1. k \in 1..Len(steps) /\ k \in 1..(Len(marks) + 1)
    BY StepsType
  <2>2. PICK text \in Seq(Byte) : text = steps[k].text
    BY <1>4, <2>1, StepsType
  <2>3. marks[k] - Len(text) >= Since(k) /\ Occurs(text, shown, marks[k] - Len(text))
    BY <1>4, <2>2 DEF FoundOK
  <2>4. PICK s \in Nat : s = marks[k] - Len(text)
    <3>1. marks[k] \in Int /\ Len(text) \in Nat /\ Since(k) \in Nat
      BY <2>1, <2>2, SinceNat
    <3> QED
      BY <2>3, <3>1
  <2>5. Occurs(text, shown', s)
    BY <2>2, <2>3, <2>4, OccursGrows
  <2> QED
    BY <2>2, <2>3, <2>4, <2>5
<1>5. FoundOK'
  BY <1>1, <1>4 DEF FoundOK
<1> QED
  BY <1>3, <1>5

(* A step is marked.                                                        *)
LEMMA MarkDoes ==
  ASSUME scenario \in Scenarios, marks \in Seq(Int), shown \in Seq(Byte), MarksOK, FoundOK, idx = Len(marks) + 1,
         UNCHANGED <<scenario, shown>>,
         NEW v \in Nat, marks' = Append(marks, v), Since(idx) <= v, v <= Len(shown),
         steps[idx].kind = "expect" =>
           /\ v - Len(steps[idx].text) >= Since(idx)
           /\ Occurs(steps[idx].text, shown, v - Len(steps[idx].text))
  PROVE  MarksOK' /\ FoundOK' /\ (idx' = idx + 1 => Since(idx)' = v)
<1>1. PICK n \in Nat : n = Len(marks)
  OBVIOUS
<1>2. /\ marks' \in Seq(Int) /\ Len(marks') = n + 1 /\ marks'[n + 1] = v
      /\ \A k \in 1..n : marks'[k] = marks[k]
  BY <1>1
<1>3. steps' = steps /\ idx = n + 1
  BY <1>1 DEF steps
<1>4. ASSUME NEW k \in 1..(n + 1) PROVE Since(k)' = Since(k)
  <2>1. k # 1 => k - 1 \in 1..n
    OBVIOUS
  <2> QED
    BY <1>2, <2>1 DEF Since
<1>5. MarksOK'
  <2>1. ASSUME NEW k \in 1..(n + 1)
        PROVE  marks'[k] \in Nat /\ Since(k)' <= marks'[k] /\ marks'[k] <= Len(shown)
    <3>1. CASE k = n + 1
      BY <1>2, <1>3, <1>4, <3>1
    <3>2. CASE k # n + 1
      <4>1. k \in 1..n
        BY <3>2
      <4>2. marks[k] \in Nat /\ Since(k) <= marks[k] /\ marks[k] <= Len(shown)
        BY <1>1, <4>1 DEF MarksOK
      <4> QED
        BY <1>2, <1>4, <4>1, <4>2
    <3> QED
      BY <3>1, <3>2
  <2> QED
    BY <1>2, <2>1 DEF MarksOK
<1>6. FoundOK'
  <2>1. ASSUME NEW k \in 1..(n + 1), steps[k].kind = "expect"
        PROVE  /\ marks'[k] - Len(steps[k].text) >= Since(k)'
               /\ Occurs(steps[k].text, shown, marks'[k] - Len(steps[k].text))
    <3>1. CASE k = n + 1
      BY <1>2, <1>3, <1>4, <2>1, <3>1
    <3>2. CASE k # n + 1
      <4>1. k \in 1..n
        BY <3>2
      <4>2. /\ marks[k] - Len(steps[k].text) >= Since(k)
            /\ Occurs(steps[k].text, shown, marks[k] - Len(steps[k].text))
        BY <1>1, <2>1, <4>1 DEF FoundOK
      <4> QED
        BY <1>2, <1>4, <4>1, <4>2
    <3> QED
      BY <3>1, <3>2
  <2> QED
    BY <1>2, <1>3, <2>1 DEF FoundOK
<1>7. ASSUME idx' = idx + 1 PROVE Since(idx)' = v
  BY <1>1, <1>2, <1>3, <1>7 DEF Since
<1> QED
  BY <1>5, <1>6, <1>7

(* A text stands in the end of a stream if and only if it stands there in    *)
(* the whole.                                                               *)
LEMMA OccursTail ==
  ASSUME NEW text \in Seq(Byte), NEW w \in Seq(Byte), NEW b \in Seq(Byte), NEW g \in Nat,
         g = Len(w) - Len(b), \A i \in 1..Len(b) : b[i] = w[g + i], NEW s \in Nat, NEW t \in Nat, t = g + s
  PROVE  Occurs(text, b, s) <=> Occurs(text, w, t)
<1>1. PICK l \in Nat : l = Len(text)
  OBVIOUS
<1>2. PICK k \in Nat : k = Len(b)
  OBVIOUS
<1>3. s + l <= k <=> t + l <= Len(w)
  BY <1>2
<1>4. ASSUME s + l <= k, NEW i \in 1..l PROVE b[s + i] = w[t + i]
  <2>1. s + i \in 1..k /\ g + (s + i) = t + i
    BY <1>4
  <2> QED
    BY <1>2, <2>1
<1> QED
  BY <1>1, <1>2, <1>3, <1>4 DEF Occurs

(* A step that neither shows nor marks nor matches anything.                *)
LEMMA MatchQuiet ==
  ASSUME ConsoleInv, MatchInv, UNCHANGED <<scenario, shown, marks, buf, idx>>,
         \/ pc' = pc
         \/ pc' \in {"monitor", "drain", "returned"}
         \/ pc = "open" /\ pc' = "step"
         \/ pc = "step" /\ pc' \in {"match", "sleep"}
         \/ pc = "sleep" /\ pc' = "write"
         \/ pc = "read" /\ pc' = "match"
  PROVE  MatchInv'
<1>1. /\ steps' = steps /\ (\A k : Since(k)' = Since(k)) /\ Gone' = Gone
  BY DEF steps, Since, Gone
<1>2. /\ scenario \in Scenarios /\ marks \in Seq(Int) /\ shown \in Seq(Byte) /\ buf \in Seq(Byte)
      /\ idx \in 1..(Len(marks) + 1) /\ Len(marks) = idx - 1
  BY DEF ConsoleInv, PlaceOK, StreamsOK, BufferOK, SerialTypeOK
<1>3. Gone \in Int /\ Since(idx) \in Nat
  BY <1>2, SinceNat DEF Gone, MatchInv
<1>4. MarksOK'
  BY <1>1 DEF MatchInv, MarksOK
<1>5. FoundOK'
  BY <1>1 DEF MatchInv, FoundOK
<1>6. TailOK'
  <2>1. CASE pc = "open" /\ pc' = "step"
    <3>1. shown = <<>> /\ buf = <<>> /\ marks = <<>>
      BY <2>1 DEF MatchInv, TailOK
    <3>2. idx = 1 /\ Gone = 0 /\ Since(idx) = 0 /\ Len(buf) = 0
      BY <1>2, <3>1 DEF Gone, Since
    <3> QED
      BY <1>1, <2>1, <3>2 DEF TailOK
  <2>2. CASE ~(pc = "open" /\ pc' = "step")
    BY <1>1, <1>3, <2>2 DEF MatchInv, TailOK
  <2> QED
    BY <2>1, <2>2
<1>7. SearchOK'
  <2>1. SUFFICES ASSUME pc' \in {"match", "read"}, Len(steps[idx].text) <= MatchWindow + 1,
                        NEW s \in Nat, s >= Since(idx), s < Gone \/ pc' = "read"
                 PROVE  ~Occurs(steps[idx].text, shown, s)
    BY <1>1 DEF SearchOK
  <2>2. CASE pc = "step"
    <3>1. Gone = Since(idx)
      BY <2>2 DEF MatchInv, TailOK
    <3>2. FALSE
      BY <1>3, <2>1, <2>2, <3>1
    <3> QED
      BY <3>2
  <2>3. CASE pc # "step"
    BY <2>1, <2>3 DEF MatchInv, SearchOK
  <2> QED
    BY <2>2, <2>3
<1> QED
  BY <1>4, <1>5, <1>6, <1>7 DEF MatchInv

(* Output that is shown and not matched.                                    *)
LEMMA MatchShown ==
  ASSUME ConsoleInv, MatchInv, UNCHANGED <<scenario, marks, idx>>, pc' \in {"monitor", "drain"},
         NEW out \in Seq(Byte), shown' = shown \o out
  PROVE  MatchInv'
<1>1. /\ scenario \in Scenarios /\ marks \in Seq(Int) /\ shown \in Seq(Byte) /\ Len(marks) <= Len(steps)
  BY StepsType DEF ConsoleInv, PlaceOK, StreamsOK, SerialTypeOK
<1>2. MarksOK' /\ FoundOK'
  BY <1>1, FoundGrows DEF MatchInv
<1>3. TailOK' /\ SearchOK'
  BY DEF TailOK, SearchOK
<1> QED
  BY <1>2, <1>3 DEF MatchInv

(* The end of a stream.                                                     *)
LEMMA Suffix ==
  ASSUME NEW b \in Seq(Byte), NEW n \in Nat, n = Len(b), NEW d \in 0..n, NEW c, c = SubSeq(b, d + 1, n)
  PROVE  c \in Seq(Byte) /\ Len(c) = n - d /\ \A i \in 1..(n - d) : c[i] = b[d + i]
<1>1. d + 1 \in 1..(n + 1) /\ n - (d + 1) + 1 = n - d
  OBVIOUS
<1>2. c \in Seq(Byte) /\ Len(c) = n - d
  BY <1>1
<1>3. ASSUME NEW i \in 1..(n - d) PROVE c[i] = b[d + i]
  <2>1. c[i] = b[(d + 1) + i - 1] /\ (d + 1) + i - 1 = d + i
    BY <1>1
  <2> QED
    BY <2>1
<1> QED
  BY <1>2, <1>3

(* What is known of an expect that waits.                                   *)
LEMMA Waiting ==
  ASSUME ConsoleInv, MatchInv, pc \in {"match", "read"}
  PROVE  /\ scenario \in Scenarios /\ marks \in Seq(Int) /\ shown \in Seq(Byte) /\ buf \in Seq(Byte)
         /\ idx = Len(marks) + 1 /\ Len(marks) <= Len(steps)
         /\ steps[idx].kind = "expect" /\ steps[idx].text \in Seq(Byte)
         /\ Since(idx) \in Nat /\ Gone \in Nat /\ Gone >= Since(idx) /\ Gone = Len(shown) - Len(buf)
         /\ \A i \in 1..Len(buf) : buf[i] = shown[Gone + i]
<1>1. /\ scenario \in Scenarios /\ marks \in Seq(Int) /\ shown \in Seq(Byte) /\ buf \in Seq(Byte)
      /\ Len(marks) = idx - 1 /\ idx \in Int /\ idx >= 1 /\ idx <= Len(steps) /\ steps[idx].kind = "expect"
  <2>1. Len(steps) \in Nat
    BY StepsType DEF ConsoleInv, PlaceOK
  <2> QED
    BY <2>1 DEF ConsoleInv, PlaceOK, StreamsOK, BufferOK, SerialTypeOK
<1>2. idx \in 1..Len(steps) /\ Len(steps) \in Nat
  BY <1>1, StepsType
<1>3. steps[idx].text \in Seq(Byte)
  BY <1>1, <1>2, StepsType
<1>4. Since(idx) \in Nat
  <2>1. idx \in 1..(Len(marks) + 1)
    BY <1>1
  <2> QED
    BY <1>1, <2>1, SinceNat DEF MatchInv
<1>5. Gone >= Since(idx) /\ \A i \in 1..Len(buf) : buf[i] = shown[Gone + i]
  BY DEF MatchInv, TailOK
<1>6. Gone = Len(shown) - Len(buf) /\ Gone \in Int
  BY <1>1 DEF Gone
<1>7. Gone \in Nat
  BY <1>4, <1>5, <1>6
<1> QED
  BY <1>1, <1>2, <1>3, <1>4, <1>5, <1>6, <1>7

(* An expect looks through its buffer and trims it.                         *)
LEMMA MatchMissing ==
  ASSUME ConsoleInv, MatchInv, pc = "match", FindEnd(steps[idx].text, buf) < 0,
         UNCHANGED <<scenario, shown, marks, idx>>, buf' = capBuffer(buf), pc' \in {"read", "returned"}
  PROVE  MatchInv'
<1>1. /\ scenario \in Scenarios /\ marks \in Seq(Int) /\ shown \in Seq(Byte) /\ buf \in Seq(Byte)
      /\ idx = Len(marks) + 1 /\ Len(marks) <= Len(steps)
      /\ steps[idx].kind = "expect" /\ steps[idx].text \in Seq(Byte)
      /\ Since(idx) \in Nat /\ Gone \in Nat /\ Gone >= Since(idx) /\ Gone = Len(shown) - Len(buf)
      /\ \A i \in 1..Len(buf) : buf[i] = shown[Gone + i]
  BY Waiting
<1>2. /\ steps' = steps /\ (\A k : Since(k)' = Since(k)) /\ Gone' = Len(shown) - Len(buf')
  BY DEF steps, Since, Gone
<1>3. MarksOK' /\ FoundOK'
  BY <1>2 DEF MatchInv, MarksOK, FoundOK
<1>4. /\ buf' \in Seq(Byte) /\ Len(buf') <= Len(buf)
      /\ buf' = buf \/ Len(buf') = MatchWindow
      /\ \A i \in 1..Len(buf') : buf'[i] = buf[(Len(buf) - Len(buf')) + i]
  BY <1>1, Capped
<1>5. TailOK'
  <2>1. Gone' >= Gone /\ Gone' \in Nat /\ Gone' = Gone + (Len(buf) - Len(buf'))
    BY <1>1, <1>2, <1>4
  <2>2. ASSUME NEW i \in 1..Len(buf') PROVE buf'[i] = shown[Gone' + i]
    <3>1. PICK j \in 1..Len(buf) : j = (Len(buf) - Len(buf')) + i
      BY <1>1, <1>4
    <3>2. buf'[i] = buf[j]
      BY <1>4, <3>1
    <3>3. Gone + j = Gone' + i
      BY <1>1, <1>4, <2>1, <3>1
    <3> QED
      BY <1>1, <3>1, <3>2, <3>3
  <2>3. Gone' = Since(idx) \/ Len(buf') >= MatchWindow
    <3>1. CASE buf' = buf
      <4>1. Gone = Since(idx) \/ Len(buf) >= MatchWindow
        BY DEF MatchInv, TailOK
      <4> QED
        BY <1>1, <1>2, <3>1, <4>1
    <3>2. CASE Len(buf') = MatchWindow
      BY <3>2, SerialTextAssumption
    <3> QED
      BY <1>4, <3>1, <3>2
  <2>4. Gone' >= Since(idx)
    BY <1>1, <2>1
  <2> QED
    BY <1>2, <2>2, <2>3, <2>4 DEF TailOK
<1>6. ASSUME NEW s \in Nat, s >= Since(idx), Len(steps[idx].text) <= MatchWindow + 1
      PROVE  ~Occurs(steps[idx].text, shown, s)
  <2>1. CASE s < Gone
    BY <1>6, <2>1 DEF MatchInv, SearchOK
  <2>2. CASE ~(s < Gone)
    <3>1. PICK r \in Nat : s = Gone + r
      <4>1. s - Gone \in Nat /\ s = Gone + (s - Gone)
        BY <1>1, <2>2
      <4> QED
        BY <4>1
    <3>2. PICK text \in Seq(Byte) : text = steps[idx].text
      BY <1>1
    <3>3. PICK e : e = FindEnd(text, buf)
      OBVIOUS
    <3>4. e < 0
      BY <3>2, <3>3
    <3>5. ~Occurs(text, buf, r)
      <4>1. \/ e = -1 /\ \A x \in Nat : ~Occurs(text, buf, x)
            \/ e \in Len(text)..Len(buf) /\ Occurs(text, buf, e - Len(text))
        BY <1>1, <3>2, <3>3, FindEndIs
      <4>2. Len(text) \in Nat
        BY <3>2
      <4>3. ~(e \in Len(text)..Len(buf))
        BY <3>4, <4>2
      <4> QED
        BY <4>1, <4>3
    <3>6. Occurs(text, buf, r) <=> Occurs(text, shown, s)
      <4>1. PICK g \in Nat : g = Gone
        BY <1>1
      <4>2. /\ g = Len(shown) - Len(buf) /\ s = g + r /\ shown \in Seq(Byte) /\ buf \in Seq(Byte)
            /\ \A i \in 1..Len(buf) : buf[i] = shown[g + i]
        BY <1>1, <3>1, <4>1, Zenon
      <4> QED
        BY <3>2, <4>2, OccursTail
    <3> QED
      BY <3>2, <3>5, <3>6
  <2> QED
    BY <2>1, <2>2
<1>7. SearchOK'
  BY <1>2, <1>6 DEF SearchOK
<1> QED
  BY <1>3, <1>5, <1>7 DEF MatchInv

(* An expect finds its text.                                                *)
LEMMA MatchFound ==
  ASSUME ConsoleInv, MatchInv, pc = "match", NEW e, e = FindEnd(steps[idx].text, buf), e >= 0,
         UNCHANGED <<scenario, shown>>, buf' = SubSeq(buf, e + 1, Len(buf)),
         marks' = Append(marks, Len(shown) - Len(buf) + e), pc' = "step", idx' = idx + 1
  PROVE  MatchInv'
<1>1. /\ scenario \in Scenarios /\ marks \in Seq(Int) /\ shown \in Seq(Byte) /\ buf \in Seq(Byte)
      /\ idx = Len(marks) + 1 /\ Len(marks) <= Len(steps)
      /\ steps[idx].kind = "expect" /\ steps[idx].text \in Seq(Byte)
      /\ Since(idx) \in Nat /\ Gone \in Nat /\ Gone >= Since(idx) /\ Gone = Len(shown) - Len(buf)
      /\ \A i \in 1..Len(buf) : buf[i] = shown[Gone + i]
  BY Waiting
<1>2. PICK text \in Seq(Byte) : text = steps[idx].text
  BY <1>1
<1>3. PICK l \in Nat : l = Len(text)
  OBVIOUS
<1>4. PICK n \in Nat : n = Len(buf)
  BY <1>1
<1>5. PICK d \in l..n : d = e /\ Occurs(text, buf, d - l)
  <2>1. e = FindEnd(text, buf)
    BY <1>2
  <2>2. \/ e = -1 /\ \A x \in Nat : ~Occurs(text, buf, x)
        \/ e \in Len(text)..Len(buf) /\ Occurs(text, buf, e - Len(text))
    BY <1>1, <1>2, <2>1, FindEndIs
  <2>3. e \in l..n /\ Occurs(text, buf, e - l)
    BY <1>3, <1>4, <2>2
  <2> QED
    BY <2>3
<1>6. PICK g \in Nat : g = Gone
  BY <1>1
<1>7. PICK z \in Nat : z = Since(idx)
  BY <1>1
<1>8. /\ shown \in Seq(Byte) /\ buf \in Seq(Byte) /\ g = Len(shown) - n /\ g >= z
      /\ \A i \in 1..n : buf[i] = shown[g + i]
  BY <1>1, <1>4, <1>6, <1>7, Zenon
<1>9. PICK v \in Nat : v = g + d
  BY <1>5
<1>10. marks' = Append(marks, v)
  <2>1. Len(shown) - Len(buf) + d = v
    BY <1>4, <1>8, <1>9
  <2> QED
    BY <1>5, <2>1, Zenon
<1>11. z <= v /\ v <= Len(shown) /\ v - l >= z
  BY <1>8, <1>9
<1>12. Occurs(text, shown, v - l)
  <2>1. PICK r \in Nat : r = d - l
    BY <1>5
  <2>2. PICK s \in Nat : s = g + r
    OBVIOUS
  <2>3. Occurs(text, buf, r) <=> Occurs(text, shown, s)
    BY <1>4, <1>8, <2>2, OccursTail
  <2>4. s = v - l
    BY <1>5, <1>9, <2>1, <2>2
  <2> QED
    BY <1>5, <2>1, <2>3, <2>4, Zenon
<1>13. MarksOK' /\ FoundOK' /\ Since(idx)' = v
  <2>1. steps[idx].kind = "expect" =>
          /\ v - Len(steps[idx].text) >= Since(idx)
          /\ Occurs(steps[idx].text, shown, v - Len(steps[idx].text))
    BY <1>2, <1>3, <1>7, <1>11, <1>12, Zenon
  <2>2. MarksOK /\ FoundOK /\ Since(idx) <= v
    BY <1>7, <1>11 DEF MatchInv
  <2>3. scenario \in Scenarios /\ marks \in Seq(Int) /\ idx = Len(marks) + 1
    BY <1>1
  <2> QED
    BY <1>8, <1>10, <1>11, <2>1, <2>2, <2>3, MarkDoes
<1>14. TailOK'
  <2>1. /\ buf' \in Seq(Byte) /\ Len(buf') = n - d
        /\ \A i \in 1..(n - d) : buf'[i] = buf[d + i]
    <3>1. PICK c : c = buf' /\ c = SubSeq(buf, d + 1, n)
      BY <1>4, <1>5, Zenon
    <3>2. d \in 0..n /\ buf \in Seq(Byte)
      BY <1>8
    <3>3. c \in Seq(Byte) /\ Len(c) = n - d /\ \A i \in 1..(n - d) : c[i] = buf[d + i]
      <4>1. c = SubSeq(buf, d + 1, n) /\ n = Len(buf)
        BY <1>4, <3>1, Zenon
      <4>2. c \in Seq(Byte)
        BY <3>2, <4>1, Suffix
      <4>3. Len(c) = n - d
        BY <3>2, <4>1, Suffix
      <4>4. \A i \in 1..(n - d) : c[i] = buf[d + i]
        BY <3>2, <4>1, Suffix
      <4> QED
        BY <4>2, <4>3, <4>4
    <3> QED
      BY <3>1, <3>3, Zenon
  <2>2. Gone' = v
    <3>1. Len(shown) - (n - d) = v
      BY <1>5, <1>8, <1>9
    <3> QED
      BY <2>1, <3>1, Zenon DEF Gone
  <2>3. ASSUME NEW i \in 1..(n - d) PROVE buf'[i] = shown[v + i]
    <3>1. d + i \in 1..n /\ g + (d + i) = v + i
      BY <1>9
    <3>2. buf[d + i] = shown[g + (d + i)]
      BY <1>8, <3>1
    <3> QED
      BY <2>1, <3>1, <3>2, Zenon
  <2>4. \A i \in 1..Len(buf') : buf'[i] = shown'[Gone' + i]
    BY <2>1, <2>2, <2>3, Zenon
  <2>5. Gone' >= Since(idx)' /\ Gone' = Since(idx)'
    BY <1>13, <2>2
  <2> QED
    BY <2>4, <2>5 DEF TailOK
<1>15. SearchOK'
  BY DEF SearchOK
<1> QED
  BY <1>13, <1>14, <1>15 DEF MatchInv

(* An expect gets more output.                                              *)
LEMMA MatchMore ==
  ASSUME ConsoleInv, MatchInv, pc = "read", pc' = "match", UNCHANGED <<scenario, marks, idx>>,
         NEW out \in Seq(Byte), shown' = shown \o out, buf' = buf \o out
  PROVE  MatchInv'
<1>1. /\ scenario \in Scenarios /\ marks \in Seq(Int) /\ shown \in Seq(Byte) /\ buf \in Seq(Byte)
      /\ idx = Len(marks) + 1 /\ Len(marks) <= Len(steps)
      /\ steps[idx].kind = "expect" /\ steps[idx].text \in Seq(Byte)
      /\ Since(idx) \in Nat /\ Gone \in Nat /\ Gone >= Since(idx) /\ Gone = Len(shown) - Len(buf)
      /\ \A i \in 1..Len(buf) : buf[i] = shown[Gone + i]
  BY Waiting
<1>2. PICK n \in Nat, k \in Nat, o \in Nat : n = Len(shown) /\ k = Len(buf) /\ o = Len(out)
  BY <1>1
<1>3. PICK g \in Nat, z \in Nat : g = Gone /\ z = Since(idx)
  BY <1>1
<1>4. /\ g >= z /\ g = n - k /\ shown \in Seq(Byte) /\ buf \in Seq(Byte)
      /\ \A i \in 1..k : buf[i] = shown[g + i]
  BY <1>1, <1>2, <1>3, Zenon
<1>5. PICK w \in Seq(Byte), b \in Seq(Byte) : w = shown \o out /\ b = buf \o out
  <2>1. shown \o out \in Seq(Byte) /\ buf \o out \in Seq(Byte)
    BY <1>4
  <2> QED
    BY <2>1, Zenon
<1>6. /\ Len(w) = n + o /\ (\A i \in 1..n : w[i] = shown[i]) /\ (\A i \in 1..o : w[n + i] = out[i])
  <2>1. \A i \in 1..o : w[n + i] = out[i]
    BY <1>2, <1>4, <1>5
  <2> QED
    BY <1>2, <1>4, <1>5, <2>1
<1>7. /\ Len(b) = k + o /\ (\A i \in 1..k : b[i] = buf[i]) /\ (\A i \in 1..o : b[k + i] = out[i])
  <2>1. \A i \in 1..o : b[k + i] = out[i]
    BY <1>2, <1>4, <1>5
  <2> QED
    BY <1>2, <1>4, <1>5, <2>1
<1>8. steps' = steps /\ Since(idx)' = z /\ shown' = w /\ buf' = b
  BY <1>3, <1>5 DEF steps, Since
<1>9. Gone' = g
  <2>1. Len(w) - Len(b) = g
    BY <1>4, <1>6, <1>7
  <2> QED
    BY <1>8, <2>1, Zenon DEF Gone
<1>10. MarksOK' /\ FoundOK'
  BY <1>1, FoundGrows DEF MatchInv
<1>11. z = g \/ k >= MatchWindow
  <2>1. Gone = Since(idx) \/ Len(buf) >= MatchWindow
    BY DEF MatchInv, TailOK
  <2> QED
    BY <1>2, <1>3, <2>1, Zenon
<1>12. TailOK'
  <2>1. ASSUME NEW i \in 1..(k + o) PROVE b[i] = w[g + i]
    <3>1. CASE i <= k
      <4>1. i \in 1..k /\ g + i \in 1..n
        BY <1>4, <3>1
      <4> QED
        BY <1>4, <1>6, <1>7, <4>1
    <3>2. CASE ~(i <= k)
      <4>1. PICK j \in 1..o : i = k + j
        <5>1. i - k \in 1..o /\ i = k + (i - k)
          BY <3>2
        <5> QED
          BY <5>1
      <4>2. g + i = n + j
        BY <1>4, <4>1
      <4> QED
        BY <1>6, <1>7, <4>1, <4>2
    <3> QED
      BY <3>1, <3>2
  <2>2. \A i \in 1..Len(buf') : buf'[i] = shown'[Gone' + i]
    BY <1>7, <1>8, <1>9, <2>1, Zenon
  <2>3. Gone' >= Since(idx)' /\ (Gone' = Since(idx)' \/ Len(buf') >= MatchWindow)
    <3>1. k >= MatchWindow => k + o >= MatchWindow
      BY SerialTextAssumption
    <3> QED
      BY <1>4, <1>7, <1>8, <1>9, <1>11, <3>1
  <2> QED
    BY <2>2, <2>3 DEF TailOK
<1>13. SearchOK'
  <2>1. PICK text \in Seq(Byte) : text = steps[idx].text
    BY <1>1
  <2>2. PICK l \in Nat : l = Len(text)
    OBVIOUS
  <2>3. ASSUME l <= MatchWindow + 1, NEW s \in Nat, s >= z, s < g PROVE ~Occurs(text, w, s)
    <3>1. k >= MatchWindow
      BY <1>11, <2>3
    <3>2. s + l <= n
      BY <1>4, <2>3, <3>1, SerialTextAssumption
    <3>3. ~Occurs(text, shown, s)
      BY <1>3, <2>1, <2>2, <2>3 DEF MatchInv, SearchOK
    <3>4. Occurs(text, w, s) /\ s + Len(text) <= Len(shown) => Occurs(text, shown, s)
      BY <1>4, <1>5, OccursGrows
    <3> QED
      BY <1>2, <2>2, <3>2, <3>3, <3>4
  <2> QED
    BY <1>8, <1>9, <2>1, <2>2, <2>3 DEF SearchOK
<1> QED
  BY <1>10, <1>12, <1>13 DEF MatchInv

(* A send is done: what was shown before does not count any more.           *)
LEMMA MatchSent ==
  ASSUME ConsoleInv, MatchInv, written
  PROVE  MatchInv'
<1>1. /\ pc = "write" /\ buf' = <<>> /\ UNCHANGED <<scenario, shown>> /\ marks' = Append(marks, Len(shown))
      /\ pc' = "step" /\ idx' = idx + 1
  BY DEF written, markerf, Mark
<1>2. /\ scenario \in Scenarios /\ marks \in Seq(Int) /\ shown \in Seq(Byte)
      /\ Len(marks) = idx - 1 /\ idx \in 1..(Len(steps) + 1) /\ steps[idx].kind = "send"
  BY <1>1 DEF ConsoleInv, PlaceOK, StreamsOK, SerialTypeOK
<1>3. idx = Len(marks) + 1 /\ idx \in 1..(Len(marks) + 1)
  BY <1>2, StepsType
<1>4. PICK v \in Nat : v = Len(shown)
  BY <1>2
<1>5. Since(idx) <= v
  BY <1>2, <1>3, <1>4, SinceNat DEF MatchInv
<1>6. MarksOK' /\ FoundOK' /\ Since(idx)' = v
  <2>1. steps[idx].kind # "expect" /\ MarksOK /\ FoundOK /\ marks' = Append(marks, v) /\ v <= Len(shown)
    BY <1>1, <1>2, <1>4 DEF MatchInv
  <2> QED
    BY <1>1, <1>2, <1>3, <1>5, <2>1, MarkDoes
<1>7. TailOK'
  <2>1. Len(buf') = 0
    BY <1>1
  <2>2. Gone' = v
    BY <1>1, <1>4, <2>1 DEF Gone
  <2> QED
    BY <1>1, <1>6, <2>1, <2>2 DEF TailOK
<1>8. SearchOK'
  BY <1>1 DEF SearchOK
<1> QED
  BY <1>6, <1>7, <1>8 DEF MatchInv

LEMMA MatchInvStep ==
  ASSUME ConsoleInv, MatchInv, [SerialNext]_vars
  PROVE  MatchInv'
<1>1. /\ scenario \in Scenarios /\ StreamsOK /\ dropped \in BOOLEAN /\ atLineStart \in BOOLEAN
  BY DEF ConsoleInv, PlaceOK, SerialTypeOK
<1>2. ASSUME NEW how, Takes(how), UNCHANGED scenario
      PROVE  \E out \in Seq(Byte) : /\ shown' = shown \o out
                                    /\ buf' = IF how = "matched" THEN buf \o out ELSE buf
  <2>1. PICK out \in Seq(Byte) : Write(out) /\ buf' = IF how = "matched" THEN buf \o out ELSE buf
    BY <1>1, <1>2, TakesDoes
  <2> QED
    BY <2>1 DEF Write
<1>3. CASE open
  BY <1>3, MatchQuiet DEF open, Return, markerf
<1>4. CASE nextStep
  BY <1>4, MatchQuiet DEF nextStep, Return, markerf
<1>5. CASE readUntil
  <2>1. PICK e : e = FindEnd(steps[idx].text, buf)
    OBVIOUS
  <2>2. CASE e >= 0
    <3>1. /\ pc = "match" /\ UNCHANGED <<scenario, shown>> /\ buf' = SubSeq(buf, e + 1, Len(buf))
          /\ marks' = Append(marks, Len(shown) - Len(buf) + e) /\ pc' = "step" /\ idx' = idx + 1
      BY <1>5, <2>1, <2>2 DEF readUntil, markerf
    <3> QED
      BY <2>1, <2>2, <3>1, MatchFound
  <2>3. CASE ~(e >= 0)
    <3>1. /\ pc = "match" /\ UNCHANGED <<scenario, shown, marks, idx>> /\ buf' = capBuffer(buf)
          /\ pc' \in {"read", "returned"}
      BY <1>5, <2>1, <2>3 DEF readUntil, Return
    <3>2. e < 0
      <4>1. steps[idx].text \in Seq(Byte) /\ buf \in Seq(Byte)
        BY <3>1, Waiting
      <4>2. Len(steps[idx].text) \in Nat /\ Len(buf) \in Nat
        BY <4>1
      <4>3. e \in Int
        BY <2>1, <4>1, <4>2, FindEndIs
      <4> QED
        BY <2>3, <4>3
    <3> QED
      BY <2>1, <3>1, <3>2, MatchMissing
  <2> QED
    BY <2>2, <2>3
<1>6. CASE readStep
  <2>1. UNCHANGED <<scenario, idx, marks>> /\ pc = "read"
    BY <1>6 DEF readStep
  <2>2. CASE Takes("matched") /\ pc' = "match"
    <3>1. PICK out \in Seq(Byte) : shown' = shown \o out /\ buf' = buf \o out
      BY <1>2, <2>1, <2>2
    <3> QED
      BY <2>1, <2>2, <3>1, MatchMore
  <2>3. CASE UNCHANGED <<shown, buf>> /\ pc' \in {"match", "returned"}
    BY <2>1, <2>3, MatchQuiet
  <2> QED
    BY <1>6, <2>2, <2>3 DEF readStep, Return
<1>7. CASE sleepCtx \/ write \/ writeFails
  BY <1>7, MatchQuiet DEF sleepCtx, write, writeFails, Return, history, engineVars
<1>8. CASE written
  BY <1>8, MatchSent
<1>9. CASE pump
  <2>1. UNCHANGED <<scenario, idx, marks>> /\ pc \in {"monitor", "drain"}
    BY <1>9 DEF pump
  <2>2. CASE Takes("shown") /\ UNCHANGED pc
    <3>1. PICK out \in Seq(Byte) : shown' = shown \o out
      BY <1>2, <2>1, <2>2
    <3> QED
      BY <2>1, <2>2, <3>1, MatchShown
  <2>3. CASE UNCHANGED <<shown, buf>> /\ pc' = "returned"
    BY <2>1, <2>3, MatchQuiet
  <2> QED
    BY <1>9, <2>2, <2>3 DEF pump, Return, markerf
<1>10. CASE deviceSays \/ deviceGone \/ returned \/ UNCHANGED vars
  BY <1>10, MatchQuiet DEF deviceSays, deviceGone, returned, vars, history, engineVars
<1>11. ASSUME NEW e \in {"cancel", "deadline", "drained"}, fires(e) PROVE MatchInv'
  BY <1>11, MatchQuiet DEF fires, history, engineVars
<1> QED
  BY <1>3, <1>4, <1>5, <1>6, <1>7, <1>8, <1>9, <1>10, <1>11 DEF SerialNext, Run

LEMMA MatchInvInit ==
  ASSUME SerialInit
  PROVE  MatchInv
<1>1. shown = <<>> /\ buf = <<>> /\ marks = <<>> /\ pc = "open" /\ Len(marks) = 0
  BY DEF SerialInit
<1> QED
  BY <1>1 DEF MatchInv, MarksOK, TailOK, FoundOK, SearchOK

LEMMA MatchInvMeans ==
  ASSUME ConsoleInv, MatchInv
  PROVE  MatchesExact
<1>1. MatchSound
  <2>1. ASSUME NEW k \in 1..Len(marks), steps[k].kind = "expect"
        PROVE  /\ marks[k] - Len(steps[k].text) >= Since(k)
               /\ SubSeq(shown, marks[k] - Len(steps[k].text) + 1, marks[k]) = steps[k].text
    <3>1. /\ scenario \in Scenarios /\ marks \in Seq(Int) /\ shown \in Seq(Byte)
          /\ Len(marks) = idx - 1 /\ idx \in 1..(Len(steps) + 1)
      BY DEF ConsoleInv, PlaceOK, StreamsOK, SerialTypeOK
    <3>2. k \in 1..Len(steps) /\ k \in 1..(Len(marks) + 1)
      BY <3>1, StepsType
    <3>3. PICK text \in Seq(Byte) : text = steps[k].text
      BY <2>1, <3>1, <3>2, StepsType
    <3>4. marks[k] - Len(text) >= Since(k) /\ Occurs(text, shown, marks[k] - Len(text))
      BY <2>1, <3>3 DEF MatchInv, FoundOK
    <3>5. marks[k] \in Len(text)..Len(shown)
      <4>1. Since(k) \in Nat /\ marks[k] \in Nat /\ marks[k] <= Len(shown) /\ Len(text) \in Nat
        BY <3>1, <3>2, SinceNat DEF MatchInv, MarksOK
      <4> QED
        BY <3>1, <3>4, <4>1
    <3>6. SubSeq(shown, marks[k] - Len(text) + 1, marks[k]) = text
      BY <3>1, <3>4, <3>5, PieceIsText
    <3> QED
      BY <3>3, <3>4, <3>6
  <2> QED
    BY <2>1 DEF MatchSound
<1>2. NoMatchMissed
  <2>1. SUFFICES ASSUME pc = "read", Len(steps[idx].text) <= MatchWindow
                 PROVE  FindEnd(steps[idx].text, SubSeq(shown, Since(idx) + 1, Len(shown))) = -1
    BY DEF NoMatchMissed
  <2>2. /\ scenario \in Scenarios /\ marks \in Seq(Int) /\ shown \in Seq(Byte) /\ buf \in Seq(Byte)
        /\ idx = Len(marks) + 1 /\ Len(marks) <= Len(steps)
        /\ steps[idx].kind = "expect" /\ steps[idx].text \in Seq(Byte)
        /\ Since(idx) \in Nat /\ Gone \in Nat /\ Gone >= Since(idx) /\ Gone = Len(shown) - Len(buf)
        /\ \A i \in 1..Len(buf) : buf[i] = shown[Gone + i]
    BY <2>1, Waiting
  <2>3. PICK text \in Seq(Byte) : text = steps[idx].text
    BY <2>2
  <2>31. Len(text) <= MatchWindow + 1
    <3>1. Len(text) \in Nat
      BY <2>3
    <3> QED
      BY <2>1, <2>3, <3>1, SerialTextAssumption
  <2>4. PICK n \in Nat, z \in Nat : n = Len(shown) /\ z = Since(idx) /\ z <= n
    <3>1. Len(buf) \in Nat /\ Len(shown) \in Nat
      BY <2>2
    <3> QED
      BY <2>2, <3>1
  <2>5. shown \in Seq(Byte) /\ z \in 0..n
    BY <2>2, <2>4
  <2>6. PICK c : c = SubSeq(shown, z + 1, n)
    OBVIOUS
  <2>7. /\ c \in Seq(Byte) /\ Len(c) = n - z
        /\ \A i \in 1..(n - z) : c[i] = shown[z + i]
    <3>1. c \in Seq(Byte)
      BY <2>4, <2>5, <2>6, Suffix
    <3>2. Len(c) = n - z
      BY <2>4, <2>5, <2>6, Suffix
    <3>3. \A i \in 1..(n - z) : c[i] = shown[z + i]
      BY <2>4, <2>5, <2>6, Suffix
    <3> QED
      BY <3>1, <3>2, <3>3
  <2>8. ASSUME NEW r \in Nat PROVE ~Occurs(text, c, r)
    <3>1. PICK s \in Nat : s = z + r
      OBVIOUS
    <3>2. s >= z
      BY <3>1
    <3>3. ~Occurs(text, shown, s)
      BY <2>1, <2>3, <2>31, <2>4, <3>2 DEF MatchInv, SearchOK
    <3>4. z = Len(shown) - Len(c) /\ \A i \in 1..Len(c) : c[i] = shown[z + i]
      <4>1. n - (n - z) = z
        OBVIOUS
      <4> QED
        BY <2>4, <2>7, <4>1, Zenon
    <3>5. Occurs(text, c, r) <=> Occurs(text, shown, s)
      <4>1. shown \in Seq(Byte) /\ c \in Seq(Byte)
        BY <2>5, <2>7
      <4> QED
        BY <3>1, <3>4, <4>1, OccursTail
    <3> QED
      BY <3>3, <3>5
  <2>9. PICK e : e = FindEnd(text, c)
    OBVIOUS
  <2>10. e = -1
    <3>1. \/ e = -1 /\ \A s \in Nat : ~Occurs(text, c, s)
          \/ e \in Len(text)..Len(c) /\ Occurs(text, c, e - Len(text))
      BY <2>3, <2>7, <2>9, FindEndIs
    <3>2. ASSUME e \in Len(text)..Len(c), Occurs(text, c, e - Len(text)) PROVE FALSE
      <4>1. PICK l \in Nat, m \in Nat : l = Len(text) /\ m = Len(c)
        BY <2>3, <2>7
      <4>2. e \in l..m
        BY <3>2, <4>1, Zenon
      <4>3. PICK r \in Nat : r = e - l
        BY <4>2
      <4> QED
        BY <2>8, <3>2, <4>1, <4>3, Zenon
    <3> QED
      BY <3>1, <3>2
  <2> QED
    BY <2>3, <2>4, <2>6, <2>9, <2>10, Zenon
<1> QED
  BY <1>1, <1>2 DEF MatchesExact

(* No match is invented and none is missed (engine.readUntil,               *)
(* engine.runScript), for every script and every output of the device: what *)
(* an expect took for a match is its text and was read after everything that *)
(* earlier steps used up; and while it waits, its text has not been read    *)
(* since, although the buffer is trimmed before every Read, if the text fits *)
(* the window.  Read after a send may still be produced before it, and a    *)
(* text that does not fit the window may match or not.                      *)
THEOREM MatchesExactAlways == SerialSpec => []MatchesExact
<1>1. SerialInit => ConsoleInv /\ MatchInv
  BY ConsoleInvInit, MatchInvInit
<1>2. ConsoleInv /\ MatchInv /\ [SerialNext]_vars => (ConsoleInv /\ MatchInv)'
  BY ConsoleInvStep, MatchInvStep
<1>3. ConsoleInv /\ MatchInv => MatchesExact
  BY MatchInvMeans
<1> QED
  BY <1>1, <1>2, <1>3, PTL DEF SerialSpec

-----------------------------------------------------------------------------
(* What is sent.                                                            *)

(* The bytes that escapes and ends of lines stand for, and the others.      *)
Sym == Byte \cup {"\r", "\n", "\t", "\\", "NUL", "VT", "8bit"}

(* One turn of decodeEscapes, from what it makes of the rest.               *)
Put(b, rest) == [rest EXCEPT !.value = <<b>> \o @]
Plain == [r |-> "\r", n |-> "\n", t |-> "\t"]
DecodeAt(s, f, i) ==
  IF i > Len(s) THEN [ok |-> TRUE, value |-> <<>>]
  ELSE IF s[i] # "\\" THEN Put(s[i], f[i + 1])
  ELSE IF i = Len(s) THEN Invalid
  ELSE CASE s[i + 1] \in DOMAIN Plain -> Put(Plain[s[i + 1]], f[i + 2])
         [] s[i + 1] = "\\" -> Put("\\", f[i + 2])
         [] s[i + 1] = "x" ->
              IF i + 3 <= Len(s) /\ SubSeq(s, i + 2, i + 3) \in DOMAIN HexByte
              THEN Put(HexByte[SubSeq(s, i + 2, i + 3)], f[i + 4]) ELSE Invalid
         [] OTHER -> Invalid

IsDecode(f, s) == f = [i \in 1..(Len(s) + 1) |-> DecodeAt(s, f, i)]

(* A turn adds a byte to a later one, or ends.                              *)
LEMMA DecodeTurn ==
  ASSUME NEW s \in Seq(Byte), NEW n \in Nat, n = Len(s), NEW i \in 1..(n + 1)
  PROVE  \/ \E v : v.value = <<>> /\ "value" \in DOMAIN v /\ \A f : DecodeAt(s, f, i) = v
         \/ \E b \in Sym, j \in (i + 1)..(n + 1) : \A f : DecodeAt(s, f, i) = Put(b, f[j])
<1> DEFINE Ends == \E v : v.value = <<>> /\ "value" \in DOMAIN v /\ \A f : DecodeAt(s, f, i) = v
           Adds == \E b \in Sym, j \in (i + 1)..(n + 1) : \A f : DecodeAt(s, f, i) = Put(b, f[j])
<1>1. Invalid.value = <<>> /\ "value" \in DOMAIN Invalid
  BY DEF Invalid
<1>2. CASE i > n
  <2>1. PICK v : v = [ok |-> TRUE, value |-> <<>>]
    OBVIOUS
  <2>2. v.value = <<>> /\ "value" \in DOMAIN v
    BY <2>1
  <2>3. \A f : DecodeAt(s, f, i) = v
    BY <1>2, <2>1, Zenon DEF DecodeAt
  <2> QED
    BY <2>2, <2>3, Zenon
<1>3. CASE i <= n
  <2>1. PICK b \in Byte : b = s[i]
    BY <1>3
  <2>2. ~(i > n) /\ i + 1 \in (i + 1)..(n + 1)
    BY <1>3
  <2>3. CASE b # "\\"
    <3>1. \A f : DecodeAt(s, f, i) = Put(b, f[i + 1])
      BY <2>1, <2>2, <2>3, Zenon DEF DecodeAt
    <3>2. b \in Sym
      BY <2>1 DEF Sym
    <3> QED
      BY <2>2, <3>1, <3>2, Zenon
  <2>4. CASE b = "\\" /\ i = n
    <3>1. \A f : DecodeAt(s, f, i) = Invalid
      BY <2>1, <2>2, <2>4, Zenon DEF DecodeAt
    <3> QED
      BY <1>1, <3>1, Zenon
  <2>5. CASE b = "\\" /\ i # n
    <3>1. PICK c : c = s[i + 1]
      OBVIOUS
    <3>2. i + 2 \in (i + 1)..(n + 1)
      BY <1>3, <2>5
    <3>3. \A f : DecodeAt(s, f, i) =
                   CASE c \in DOMAIN Plain -> Put(Plain[c], f[i + 2])
                     [] c = "\\" -> Put("\\", f[i + 2])
                     [] c = "x" ->
                          IF i + 3 <= Len(s) /\ SubSeq(s, i + 2, i + 3) \in DOMAIN HexByte
                          THEN Put(HexByte[SubSeq(s, i + 2, i + 3)], f[i + 4]) ELSE Invalid
                     [] OTHER -> Invalid
      BY <2>1, <2>2, <2>5, <3>1, Zenon DEF DecodeAt
    <3>4. DOMAIN Plain = {"r", "n", "t"}
      BY DEF Plain
    <3>5. CASE c \in DOMAIN Plain
      <4>1. PICK d : d = Plain[c]
        OBVIOUS
      <4>2. d \in {"\r", "\n", "\t"}
        BY <3>5, <4>1 DEF Plain
      <4>3. d \in Sym
        BY <4>2 DEF Sym
      <4>4. c # "\\" /\ c # "x"
        BY <3>4, <3>5
      <4>5. \A f : DecodeAt(s, f, i) = Put(d, f[i + 2])
        BY <3>3, <3>5, <4>1, <4>4
      <4> QED
        BY <3>2, <4>3, <4>5, Zenon
    <3>6. CASE c = "\\"
      <4>1. c \notin DOMAIN Plain
        BY <3>4, <3>6
      <4>2. \A f : DecodeAt(s, f, i) = Put("\\", f[i + 2])
        BY <3>3, <3>6, <4>1
      <4>3. "\\" \in Sym
        BY DEF Sym
      <4> QED
        BY <3>2, <4>2, <4>3, Zenon
    <3>7. CASE c = "x"
      <4>1. c \notin DOMAIN Plain
        BY <3>4, <3>7
      <4>2. PICK h : h = SubSeq(s, i + 2, i + 3)
        OBVIOUS
      <4>3. CASE i + 3 <= Len(s) /\ h \in DOMAIN HexByte
        <5>1. PICK d : d = HexByte[h]
          OBVIOUS
        <5>2. d \in {"NUL", "\n", "VT", "8bit"}
          BY <4>3, <5>1 DEF HexByte
        <5>3. d \in Sym
          BY <5>2 DEF Sym
        <5>4. \A f : DecodeAt(s, f, i) = Put(d, f[i + 4])
          BY <3>3, <3>7, <4>1, <4>2, <4>3, <5>1
        <5>5. i + 4 \in (i + 1)..(n + 1)
          BY <4>3
        <5> QED
          BY <5>3, <5>4, <5>5, Zenon
      <4>4. CASE ~(i + 3 <= Len(s) /\ h \in DOMAIN HexByte)
        <5>1. \A f : DecodeAt(s, f, i) = Invalid
          BY <3>3, <3>7, <4>1, <4>2, <4>4
        <5> QED
          BY <1>1, <5>1, Zenon
      <4> QED
        BY <4>3, <4>4
    <3>8. CASE c \notin DOMAIN Plain /\ c # "\\" /\ c # "x"
      <4>1. \A f : DecodeAt(s, f, i) = Invalid
        BY <3>3, <3>8
      <4> QED
        BY <1>1, <4>1, Zenon
    <3> QED
      BY <3>5, <3>6, <3>7, <3>8
  <2> QED
    BY <2>3, <2>4, <2>5
<1> QED
  BY <1>2, <1>3

(* decodeEscapes gives a sequence of bytes.                                 *)
LEMMA DecodeType ==
  ASSUME NEW s \in Seq(Byte), NEW r, r = decodeEscapes(s)
  PROVE  r.value \in Seq(Sym)
<1>1. PICK n \in Nat : n = Len(s)
  OBVIOUS
<1> DEFINE Turn(f, i) == f[i] = DecodeAt(s, f, i)
           Done(f, k) == /\ f = [i \in 1..(n + 1) |-> f[i]]
                         /\ \A i \in 1..(n + 1) : i + k > n + 1 => Turn(f, i)
           S == {k \in Nat : \E f : Done(f, k)}
<1>2. ASSUME NEW i \in 1..(n + 1), NEW f, NEW g, \A j \in (i + 1)..(n + 1) : f[j] = g[j]
      PROVE  DecodeAt(s, f, i) = DecodeAt(s, g, i)
  <2>1. \/ \E v : v.value = <<>> /\ "value" \in DOMAIN v /\ \A h : DecodeAt(s, h, i) = v
        \/ \E b \in Sym, j \in (i + 1)..(n + 1) : \A h : DecodeAt(s, h, i) = Put(b, h[j])
    BY <1>1, DecodeTurn
  <2> QED
    BY <1>2, <2>1, Zenon
<1>3. 0 \in S
  <2>1. Done([i \in 1..(n + 1) |-> 0], 0)
    OBVIOUS
  <2> QED
    BY <2>1, Zenon
<1>4. ASSUME NEW k \in Nat, k \in S PROVE k + 1 \in S
  <2>1. PICK f : Done(f, k)
    BY <1>4
  <2>2. CASE k > n
    <3>1. \A i \in 1..(n + 1) : i + k > n + 1
      BY <2>2
    <3>2. Done(f, k + 1)
      BY <2>1, <3>1
    <3>3. k + 1 \in Nat
      OBVIOUS
    <3> QED
      BY <3>2, <3>3, Zenon
  <2>3. CASE k <= n
    <3>1. PICK p \in 1..(n + 1) : p + k = n + 1
      <4>1. n + 1 - k \in 1..(n + 1) /\ (n + 1 - k) + k = n + 1
        BY <2>3
      <4> QED
        BY <4>1
    <3>2. PICK v : v = DecodeAt(s, f, p)
      OBVIOUS
    <3>3. PICK g : g = [f EXCEPT ![p] = v]
      OBVIOUS
    <3>4. g = [i \in 1..(n + 1) |-> g[i]] /\ g[p] = v /\ \A i \in 1..(n + 1) : i # p => g[i] = f[i]
      BY <2>1, <3>3
    <3>5. ASSUME NEW i \in 1..(n + 1), i + (k + 1) > n + 1 PROVE Turn(g, i)
      <4>1. \A j \in (i + 1)..(n + 1) : f[j] = g[j]
        BY <3>1, <3>4, <3>5
      <4>2. DecodeAt(s, f, i) = DecodeAt(s, g, i)
        BY <1>2, <4>1
      <4>3. CASE i = p
        BY <3>2, <3>4, <4>2, <4>3, Zenon
      <4>4. CASE i # p
        <5>1. i + k > n + 1
          BY <3>1, <3>5, <4>4
        <5>2. f[i] = DecodeAt(s, f, i) /\ g[i] = f[i]
          BY <2>1, <3>4, <4>4, <5>1
        <5> QED
          BY <4>2, <5>2, Zenon
      <4> QED
        BY <4>3, <4>4
    <3>6. Done(g, k + 1)
      BY <3>4, <3>5
    <3>7. k + 1 \in Nat
      OBVIOUS
    <3> QED
      BY <3>6, <3>7, Zenon
  <2> QED
    BY <2>2, <2>3
<1>5. n + 1 \in S
  <2> HIDE DEF S
  <2> QED
    BY <1>3, <1>4, NatLadder
<1>6. PICK g : Done(g, n + 1)
  BY <1>5
<1>7. IsDecode(g, s)
  <2>1. \A i \in 1..(n + 1) : i + (n + 1) > n + 1
    OBVIOUS
  <2>2. \A i \in 1..(n + 1) : g[i] = DecodeAt(s, g, i)
    BY <1>6, <2>1
  <2>3. g = [i \in 1..(n + 1) |-> g[i]]
    BY <1>6
  <2> QED
    BY <1>1, <2>2, <2>3, Zenon DEF IsDecode
<1>8. PICK f : f = CHOOSE h : IsDecode(h, s)
  OBVIOUS
<1>9. IsDecode(f, s)
  BY <1>7, <1>8, Zenon
<1>10. r = f[1]
  BY <1>8, Zenon DEF decodeEscapes, DecodeAt, IsDecode, Put, Plain
<1>11. \A i \in 1..(n + 1) : f[i] = DecodeAt(s, f, i)
  <2>1. f = [i \in 1..(n + 1) |-> DecodeAt(s, f, i)]
    BY <1>1, <1>9, Zenon DEF IsDecode
  <2> QED
    BY <2>1, Zenon
<1> DEFINE Good(i) == "value" \in DOMAIN f[i] /\ f[i].value \in Seq(Sym)
           T == {k \in Nat : \A i \in 1..(n + 1) : i + k > n + 1 => Good(i)}
<1>12. ASSUME NEW i \in 1..(n + 1), \A j \in (i + 1)..(n + 1) : Good(j) PROVE Good(i)
  <2>1. CASE \E v : v.value = <<>> /\ "value" \in DOMAIN v /\ \A h : DecodeAt(s, h, i) = v
    <3>1. PICK v : v.value = <<>> /\ "value" \in DOMAIN v /\ f[i] = v
      BY <1>11, <2>1
    <3>2. <<>> \in Seq(Sym)
      OBVIOUS
    <3> QED
      BY <3>1, <3>2, Zenon
  <2>2. CASE \E b \in Sym, j \in (i + 1)..(n + 1) : \A h : DecodeAt(s, h, i) = Put(b, h[j])
    <3>1. PICK b \in Sym, j \in (i + 1)..(n + 1) : f[i] = Put(b, f[j])
      BY <1>11, <2>2
    <3>2. PICK u : u = f[j]
      OBVIOUS
    <3>3. "value" \in DOMAIN u /\ u.value \in Seq(Sym)
      BY <1>12, <3>1, <3>2
    <3>4. <<b>> \o u.value \in Seq(Sym)
      BY <3>1, <3>3
    <3>5. f[i] = [u EXCEPT !.value = <<b>> \o @]
      BY <3>1, <3>2, Zenon DEF Put
    <3>6. f[i].value = <<b>> \o u.value /\ DOMAIN f[i] = DOMAIN u
      BY <3>3, <3>5
    <3> QED
      BY <3>3, <3>4, <3>6
  <2> QED
    BY <1>1, <2>1, <2>2, DecodeTurn
<1> HIDE DEF Good
<1>13. 0 \in T
  OBVIOUS
<1>14. ASSUME NEW k \in Nat, k \in T PROVE k + 1 \in T
  <2>1. ASSUME NEW i \in 1..(n + 1), i + (k + 1) > n + 1 PROVE Good(i)
    <3>1. \A j \in (i + 1)..(n + 1) : Good(j)
      BY <1>14, <2>1
    <3> QED
      BY <1>12, <3>1
  <2> QED
    BY <2>1
<1>15. n + 1 \in T
  <2> HIDE DEF T
  <2> QED
    BY <1>13, <1>14, NatLadder
<1>16. Good(1)
  <2>1. 1 \in 1..(n + 1) /\ 1 + (n + 1) > n + 1
    OBVIOUS
  <2> QED
    BY <1>15, <2>1
<1> QED
  BY <1>10, <1>16 DEF Good

LEMMA StepsSend ==
  ASSUME scenario \in Scenarios, NEW k \in 1..Len(steps), steps[k].kind = "send"
  PROVE  steps[k].text \in Seq(Sym)
<1>1. PICK arg \in Seq(Byte) : StepOf(k, arg)
  BY StepShape
<1>2. PICK d : d = decodeEscapes(arg).value
  OBVIOUS
<1>3. d \in Seq(Sym)
  BY <1>2, DecodeType
<1>4. \/ steps[k] = [kind |-> "expect", text |-> arg]
      \/ \E eol \in DOMAIN resolveEOL : steps[k] = [kind |-> "send", text |-> d \o resolveEOL[eol]]
      \/ steps[k] = [kind |-> "send", text |-> d]
  BY <1>1, <1>2, Zenon DEF StepOf
<1>5. CASE steps[k] = [kind |-> "expect", text |-> arg]
  BY <1>5
<1>6. CASE \E eol \in DOMAIN resolveEOL : steps[k] = [kind |-> "send", text |-> d \o resolveEOL[eol]]
  <2>1. PICK end \in DOMAIN resolveEOL : steps[k] = [kind |-> "send", text |-> d \o resolveEOL[end]]
    BY <1>6
  <2>2. PICK eol : eol = resolveEOL[end]
    OBVIOUS
  <2>3. end \in {"cr", "lf", "crlf", "none"}
    BY DEF resolveEOL
  <2>4. "\r" \in Sym /\ "\n" \in Sym
    BY DEF Sym
  <2>5. eol = <<"\r">> \/ eol = <<"\n">> \/ eol = <<"\r", "\n">> \/ eol = <<>>
    BY <2>2, <2>3 DEF resolveEOL
  <2>6. eol \in Seq(Sym)
    <3>1. <<"\r">> \in Seq(Sym) /\ <<"\n">> \in Seq(Sym)
      BY <2>4
    <3>2. <<"\r", "\n">> \in Seq(Sym)
      BY <2>4
    <3>3. <<>> \in Seq(Sym)
      OBVIOUS
    <3> QED
      BY <2>5, <3>1, <3>2, <3>3, Zenon
  <2>7. d \o eol \in Seq(Sym)
    BY <1>3, <2>6
  <2> QED
    BY <2>1, <2>2, <2>7
<1>7. CASE steps[k] = [kind |-> "send", text |-> d]
  BY <1>3, <1>7
<1> QED
  BY <1>4, <1>5, <1>6, <1>7

(* Two pieces make up the whole.                                            *)
LEMMA ConcatIs ==
  ASSUME NEW a \in Seq(Sym), NEW b \in Seq(Sym), NEW x \in Nat, x = Len(a), NEW y \in Nat, y = Len(b),
         NEW t \in Seq(Sym), Len(t) = x + y,
         \A i \in 1..x : a[i] = t[i], \A i \in 1..y : b[i] = t[x + i]
  PROVE  a \o b = t
<1>1. PICK c : c = a \o b
  OBVIOUS
<1>2. /\ c \in Seq(Sym) /\ Len(c) = x + y
      /\ \A i \in 1..(x + y) : c[i] = IF i <= x THEN a[i] ELSE b[i - x]
  BY <1>1
<1>3. ASSUME NEW i \in 1..(x + y) PROVE c[i] = t[i]
  <2>1. CASE i <= x
    BY <1>2, <2>1
  <2>2. CASE ~(i <= x)
    <3>1. i - x \in 1..y /\ x + (i - x) = i
      BY <2>2
    <3> QED
      BY <1>2, <2>2, <3>1
  <2> QED
    BY <2>1, <2>2
<1> QED
  BY <1>1, <1>2, <1>3, SameSeq, Zenon

LEMMA ConcatAt ==
  ASSUME NEW a \in Seq(Sym), NEW b \in Seq(Sym), NEW x \in Nat, x = Len(a), NEW y \in Nat, y = Len(b),
         NEW c, c = a \o b
  PROVE  /\ c \in Seq(Sym) /\ Len(c) = x + y
         /\ \A i \in 1..(x + y) : c[i] = IF i <= x THEN a[i] ELSE b[i - x]
  OBVIOUS

LEMMA ConcatAssoc ==
  ASSUME NEW a \in Seq(Sym), NEW b \in Seq(Sym), NEW c \in Seq(Sym)
  PROVE  (a \o b) \o c = a \o (b \o c)
<1>1. PICK x \in Nat, y \in Nat, z \in Nat : x = Len(a) /\ y = Len(b) /\ z = Len(c)
  OBVIOUS
<1>2. PICK ab \in Seq(Sym) : ab = a \o b
  <2>1. a \o b \in Seq(Sym)
    OBVIOUS
  <2> QED
    BY <2>1, Zenon
<1>3. PICK bc \in Seq(Sym) : bc = b \o c
  <2>1. b \o c \in Seq(Sym)
    OBVIOUS
  <2> QED
    BY <2>1, Zenon
<1>4. ab \in Seq(Sym) /\ Len(ab) = x + y /\ \A i \in 1..(x + y) : ab[i] = IF i <= x THEN a[i] ELSE b[i - x]
  BY <1>1, <1>2, ConcatAt
<1>5. bc \in Seq(Sym) /\ Len(bc) = y + z /\ \A i \in 1..(y + z) : bc[i] = IF i <= y THEN b[i] ELSE c[i - y]
  BY <1>1, <1>3, ConcatAt
<1>6. PICK l : l = ab \o c
  OBVIOUS
<1>7. PICK r : r = a \o bc
  OBVIOUS
<1>8. /\ l \in Seq(Sym) /\ Len(l) = x + y + z
      /\ \A i \in 1..(x + y + z) : l[i] = IF i <= x + y THEN ab[i] ELSE c[i - (x + y)]
  <2>1. PICK w \in Nat : w = x + y
    OBVIOUS
  <2>2. w = Len(ab)
    BY <1>4, <2>1
  <2>3. /\ l \in Seq(Sym) /\ Len(l) = w + z
        /\ \A i \in 1..(w + z) : l[i] = IF i <= w THEN ab[i] ELSE c[i - w]
    BY <1>1, <1>6, <2>2, ConcatAt
  <2> QED
    BY <2>1, <2>3
<1>9. /\ r \in Seq(Sym) /\ Len(r) = x + y + z
      /\ \A i \in 1..(x + y + z) : r[i] = IF i <= x THEN a[i] ELSE bc[i - x]
  <2>1. PICK w \in Nat : w = y + z
    OBVIOUS
  <2>2. w = Len(bc)
    BY <1>5, <2>1
  <2>3. /\ r \in Seq(Sym) /\ Len(r) = x + w
        /\ \A i \in 1..(x + w) : r[i] = IF i <= x THEN a[i] ELSE bc[i - x]
    BY <1>1, <1>7, <2>2, ConcatAt
  <2>4. x + w = x + y + z
    BY <2>1
  <2> QED
    BY <2>3, <2>4
<1>10. ASSUME NEW i \in 1..(x + y + z) PROVE l[i] = r[i]
  <2>1. CASE i <= x
    <3>1. i <= x + y /\ i \in 1..(x + y)
      BY <2>1
    <3> QED
      BY <1>4, <1>8, <1>9, <2>1, <3>1
  <2>2. CASE ~(i <= x) /\ i <= x + y
    <3>1. i \in 1..(x + y) /\ i - x \in 1..(y + z) /\ i - x <= y
      BY <2>2
    <3> QED
      BY <1>4, <1>5, <1>8, <1>9, <2>2, <3>1
  <2>3. CASE ~(i <= x + y)
    <3>1. ~(i <= x) /\ i - x \in 1..(y + z) /\ ~(i - x <= y) /\ (i - x) - y = i - (x + y)
      BY <2>3
    <3> QED
      BY <1>5, <1>8, <1>9, <2>3, <3>1
  <2> QED
    BY <2>1, <2>2, <2>3
<1> QED
  BY <1>2, <1>3, <1>6, <1>7, <1>8, <1>9, <1>10, SameSeq, Zenon

(* One stream is the beginning of another.                                  *)
Begins(s, t) == \E u \in Seq(Sym) : t = s \o u

LEMMA BeginsSelf ==
  ASSUME NEW s \in Seq(Sym)
  PROVE  Begins(s, s)
<1>1. PICK u : u = <<>>
  OBVIOUS
<1>2. u \in Seq(Sym) /\ s \o u = s
  BY <1>1
<1> QED
  BY <1>2, Zenon DEF Begins

LEMMA BeginsTrans ==
  ASSUME NEW r \in Seq(Sym), NEW s \in Seq(Sym), NEW t \in Seq(Sym), Begins(r, s), Begins(s, t)
  PROVE  Begins(r, t)
<1>1. PICK u \in Seq(Sym) : s = r \o u
  BY DEF Begins
<1>2. PICK v \in Seq(Sym) : t = s \o v
  BY DEF Begins
<1>3. u \o v \in Seq(Sym)
  BY <1>1, <1>2
<1>4. (r \o u) \o v = r \o (u \o v)
  BY ConcatAssoc, Zenon
<1>5. t = r \o (u \o v)
  BY <1>1, <1>2, <1>4, Zenon
<1> QED
  BY <1>3, <1>5, Zenon DEF Begins

LEMMA BeginsIsPrefix ==
  ASSUME NEW s \in Seq(Sym), NEW t \in Seq(Sym), Begins(s, t)
  PROVE  IsPrefix(s, t)
<1>1. PICK u \in Seq(Sym) : t = s \o u
  BY DEF Begins
<1>2. PICK n \in Nat : n = Len(s)
  OBVIOUS
<1>3. n <= Len(t) /\ \A i \in 1..n : t[i] = s[i]
  BY <1>1, <1>2
<1>4. PICK p : p = SubSeq(t, 1, n)
  OBVIOUS
<1>5. PICK q : q = SubSeq(s, 1, n)
  OBVIOUS
<1>6. p \in Seq(Sym) /\ Len(p) = n /\ \A i \in 1..n : p[i] = t[i]
  BY <1>2, <1>3, <1>4
<1>7. q \in Seq(Sym) /\ Len(q) = n /\ \A i \in 1..n : q[i] = s[i]
  BY <1>2, <1>5
<1>8. p = q
  <2>1. \A i \in 1..n : p[i] = q[i]
    BY <1>3, <1>6, <1>7
  <2> QED
    BY <1>6, <1>7, <2>1, SameSeq, Zenon
<1> QED
  BY <1>2, <1>3, <1>4, <1>5, <1>8 DEF IsPrefix

(* The payloads of the first k steps of st.                                 *)
Add(st, before, k) == IF st[k].kind = "send" THEN before \o st[k].text ELSE before
IsAll(f, st) == f = [k \in 0..Len(st) |-> IF k = 0 THEN <<>> ELSE Add(st, f[k - 1], k)]
AllOf(st) == CHOOSE f : IsAll(f, st)

LEMMA AllAt ==
  ASSUME NEW st, NEW n \in Nat, n = Len(st)
  PROVE  AllOf(st)[0] = <<>> /\ \A k \in 1..n : AllOf(st)[k] = Add(st, AllOf(st)[k - 1], k)
<1> DEFINE Follows(f, k) == /\ DOMAIN f = Nat /\ f[0] = <<>>
                            /\ \A i \in 1..k : f[i] = Add(st, f[i - 1], i)
           S == {k \in Nat : \E f : Follows(f, k)}
<1>1. 0 \in S
  <2>1. Follows([i \in Nat |-> <<>>], 0)
    OBVIOUS
  <2> QED
    BY <2>1, Zenon
<1>2. ASSUME NEW k \in Nat, k \in S PROVE k + 1 \in S
  <2>1. PICK f : Follows(f, k)
    BY <1>2
  <2>2. PICK v : v = Add(st, f[k], k + 1)
    OBVIOUS
  <2>3. PICK g : g = [f EXCEPT ![k + 1] = v]
    OBVIOUS
  <2>4. DOMAIN g = Nat /\ g[0] = <<>> /\ g[k + 1] = v /\ \A i \in 0..k : g[i] = f[i]
    BY <2>1, <2>3
  <2>5. ASSUME NEW i \in 1..(k + 1) PROVE g[i] = Add(st, g[i - 1], i)
    <3>1. CASE i = k + 1
      <4>1. g[i] = v /\ i - 1 = k /\ g[k] = f[k]
        BY <2>4, <3>1
      <4> QED
        BY <2>2, <3>1, <4>1, Zenon
    <3>2. CASE i # k + 1
      <4>1. i \in 1..k /\ i - 1 \in 0..k /\ i \in 0..k
        BY <3>2
      <4>2. g[i] = f[i] /\ g[i - 1] = f[i - 1] /\ f[i] = Add(st, f[i - 1], i)
        BY <2>1, <2>4, <4>1
      <4> QED
        BY <4>2, Zenon
    <3> QED
      BY <3>1, <3>2
  <2>6. Follows(g, k + 1) /\ k + 1 \in Nat
    BY <2>4, <2>5
  <2> QED
    BY <2>6, Zenon
<1>3. n \in S
  <2> HIDE DEF S
  <2> QED
    BY <1>1, <1>2, NatLadder
<1>4. PICK f : Follows(f, n)
  BY <1>3
<1>5. PICK g : g = [i \in 0..n |-> f[i]]
  OBVIOUS
<1>6. ASSUME NEW i \in 0..n PROVE g[i] = IF i = 0 THEN <<>> ELSE Add(st, g[i - 1], i)
  <2>1. CASE i = 0
    BY <1>4, <1>5, <2>1
  <2>2. CASE i # 0
    <3>1. i \in 1..n /\ i - 1 \in 0..n
      BY <2>2
    <3>2. g[i] = f[i] /\ g[i - 1] = f[i - 1] /\ f[i] = Add(st, f[i - 1], i)
      BY <1>4, <1>5, <3>1
    <3> QED
      BY <2>2, <3>2, Zenon
  <2> QED
    BY <2>1, <2>2
<1>7. IsAll(g, st)
  <2>1. g = [i \in 0..n |-> g[i]]
    BY <1>5
  <2>2. g = [i \in 0..n |-> IF i = 0 THEN <<>> ELSE Add(st, g[i - 1], i)]
    BY <1>6, <2>1, Zenon
  <2> QED
    BY <2>2 DEF IsAll
<1>8. PICK h : h = AllOf(st)
  OBVIOUS
<1>9. IsAll(h, st)
  BY <1>7, <1>8, Zenon DEF AllOf
<1>10. \A i \in 0..n : h[i] = IF i = 0 THEN <<>> ELSE Add(st, h[i - 1], i)
  <2>1. h = [i \in 0..n |-> IF i = 0 THEN <<>> ELSE Add(st, h[i - 1], i)]
    BY <1>9, Zenon DEF IsAll
  <2> QED
    BY <2>1, Zenon
<1>11. h[0] = <<>>
  <2>1. 0 \in 0..n
    OBVIOUS
  <2> QED
    BY <1>10, <2>1, Zenon
<1>12. ASSUME NEW i \in 1..n PROVE h[i] = Add(st, h[i - 1], i)
  <2>1. i \in 0..n /\ i # 0
    OBVIOUS
  <2> QED
    BY <1>10, <2>1, Zenon
<1> QED
  BY <1>8, <1>11, <1>12

(* The payloads are bytes, and those of fewer steps come first.             *)
LEMMA AllOfSteps ==
  ASSUME scenario \in Scenarios, NEW n \in Nat, n = Len(steps), NEW f, f = AllOf(steps)
  PROVE  /\ f[0] = <<>>
         /\ \A k \in 1..n : /\ steps[k].kind = "send" => f[k] = f[k - 1] \o steps[k].text
                            /\ steps[k].kind # "send" => f[k] = f[k - 1]
         /\ \A k \in 0..n : f[k] \in Seq(Sym)
         /\ \A k \in 0..n : Begins(f[k], f[n])
<1>1. PICK st : st = steps
  OBVIOUS
<1>2. f[0] = <<>> /\ \A k \in 1..n : f[k] = Add(st, f[k - 1], k)
  BY <1>1, AllAt
<1>3. ASSUME NEW k \in 1..n
      PROVE  /\ st[k].kind = "send" => f[k] = f[k - 1] \o st[k].text
             /\ st[k].kind # "send" => f[k] = f[k - 1]
  <2>1. f[k] = Add(st, f[k - 1], k)
    BY <1>2
  <2> QED
    BY <2>1, Zenon DEF Add
<1>4. ASSUME NEW k \in 1..n, f[k - 1] \in Seq(Sym) PROVE f[k] \in Seq(Sym) /\ Begins(f[k - 1], f[k])
  <2>1. CASE st[k].kind = "send"
    <3>1. PICK x : x = f[k - 1]
      OBVIOUS
    <3>2. PICK u : u = st[k].text
      OBVIOUS
    <3>3. u \in Seq(Sym)
      BY <1>1, <2>1, <3>2, StepsSend
    <3>4. f[k] = x \o u
      BY <1>3, <2>1, <3>1, <3>2, Zenon
    <3>5. x \in Seq(Sym)
      BY <1>4, <3>1
    <3>6. x \o u \in Seq(Sym)
      BY <3>3, <3>5
    <3> QED
      BY <3>1, <3>3, <3>4, <3>6, Zenon DEF Begins
  <2>2. CASE st[k].kind # "send"
    BY <1>3, <1>4, <2>2, BeginsSelf
  <2> QED
    BY <2>1, <2>2
<1> DEFINE S == {k \in Nat : k <= n => f[k] \in Seq(Sym)}
<1>5. n \in Nat /\ \A k \in 0..n : k \in S
  <2>1. 0 \in S
    <3>1. <<>> \in Seq(Sym)
      OBVIOUS
    <3> QED
      BY <1>2, <3>1
  <2>2. ASSUME NEW k \in Nat, k \in S PROVE k + 1 \in S
    <3>1. SUFFICES ASSUME k + 1 <= n PROVE f[k + 1] \in Seq(Sym)
      OBVIOUS
    <3>2. PICK j \in 1..n : j = k + 1 /\ j - 1 = k
      BY <3>1
    <3>3. f[k] \in Seq(Sym)
      BY <2>2, <3>1
    <3> QED
      BY <1>4, <3>2, <3>3
  <2>3. Nat \subseteq S
    <3> HIDE DEF S
    <3> QED
      BY <2>1, <2>2, NatLadder
  <2> QED
    BY <2>3
<1>6. \A k \in 0..n : f[k] \in Seq(Sym)
  BY <1>5
<1> DEFINE T == {d \in Nat : \A k \in 0..n : k + d = n => Begins(f[k], f[n])}
<1>7. Nat \subseteq T
  <2>1. 0 \in T
    <3>1. ASSUME NEW k \in 0..n, k + 0 = n PROVE Begins(f[k], f[n])
      <4>1. k = n /\ f[n] \in Seq(Sym)
        BY <1>6, <3>1
      <4> QED
        BY <4>1, BeginsSelf
    <3> QED
      BY <3>1
  <2>2. ASSUME NEW d \in Nat, d \in T PROVE d + 1 \in T
    <3>1. ASSUME NEW k \in 0..n, k + (d + 1) = n PROVE Begins(f[k], f[n])
      <4>1. PICK j \in 1..n : j = k + 1 /\ j - 1 = k /\ j + d = n /\ j \in 0..n
        BY <3>1
      <4>2. Begins(f[j], f[n])
        BY <2>2, <4>1
      <4>3. f[k] \in Seq(Sym) /\ f[j] \in Seq(Sym) /\ f[n] \in Seq(Sym)
        BY <1>6, <4>1
      <4>4. Begins(f[k], f[j])
        BY <1>4, <4>1, <4>3
      <4> QED
        BY <4>2, <4>3, <4>4, BeginsTrans
    <3> QED
      BY <3>1
  <2> HIDE DEF T
  <2> QED
    BY <2>1, <2>2, NatLadder
<1>8. ASSUME NEW k \in 0..n PROVE Begins(f[k], f[n])
  <2>1. PICK d \in Nat : k + d = n
    <3>1. n - k \in Nat /\ k + (n - k) = n
      OBVIOUS
    <3> QED
      BY <3>1
  <2>2. d \in T
    <3> HIDE DEF T
    <3> QED
      BY <1>7
  <2> QED
    BY <2>1, <2>2
<1> QED
  BY <1>1, <1>2, <1>3, <1>6, <1>8

(* While a payload is written, what was sent and what is left are the        *)
(* payloads up to it; otherwise exactly the payloads of the steps that are   *)
(* done were sent, unless a write failed.                                   *)
SentOK ==
  /\ sent \in Seq(Sym) /\ todo \in Seq(Sym)
  /\ \/ pc # "write" /\ sent = AllOf(steps)[idx - 1]
     \/ /\ pc = "write" \/ outcome = "port"
        /\ idx <= Len(steps)
        /\ sent \o todo = AllOf(steps)[idx] /\ Begins(AllOf(steps)[idx - 1], sent)

(* A step that sends nothing and stays at its script step.                  *)
LEMMA SentQuiet ==
  ASSUME SentOK, UNCHANGED <<scenario, sent, idx>>, pc # "write" \/ todo' = todo, todo' \in Seq(Sym),
         \/ pc # "write" /\ outcome # "port" /\ pc' # "write"
         \/ UNCHANGED <<pc, outcome, todo>>
         \/ pc = "write" /\ pc' # "write" /\ outcome' = "port"
  PROVE  SentOK'
<1>1. steps' = steps
  BY DEF steps
<1>2. PICK f : f = AllOf(steps)
  OBVIOUS
<1>3. AllOf(steps)' = f
  BY <1>1, <1>2, Zenon
<1>4. /\ sent \in Seq(Sym) /\ todo \in Seq(Sym)
      /\ \/ pc # "write" /\ sent = f[idx - 1]
         \/ /\ pc = "write" \/ outcome = "port"
            /\ idx <= Len(steps)
            /\ sent \o todo = f[idx] /\ Begins(f[idx - 1], sent)
  BY <1>2 DEF SentOK
<1>5. SUFFICES /\ sent \in Seq(Sym) /\ todo' \in Seq(Sym)
               /\ \/ pc' # "write" /\ sent = f[idx - 1]
                  \/ /\ pc' = "write" \/ outcome' = "port"
                     /\ idx <= Len(steps)
                     /\ sent \o todo' = f[idx] /\ Begins(f[idx - 1], sent)
  BY <1>1, <1>3 DEF SentOK
<1> QED
  BY <1>4

(* One port write takes a piece of what is left.                            *)
LEMMA SentPiece ==
  ASSUME NEW s \in Seq(Sym), NEW t \in Seq(Sym)
  PROVE  \A n \in 1..Len(t) :
           /\ SubSeq(t, 1, n) \in Seq(Sym) /\ SubSeq(t, n + 1, Len(t)) \in Seq(Sym)
           /\ (s \o SubSeq(t, 1, n)) \o SubSeq(t, n + 1, Len(t)) = s \o t
<1>1. PICK m \in Nat : m = Len(t)
  OBVIOUS
<1>2. ASSUME NEW n \in 1..m, NEW p, p = SubSeq(t, 1, n), NEW q, q = SubSeq(t, n + 1, m)
      PROVE  p \in Seq(Sym) /\ q \in Seq(Sym) /\ (s \o p) \o q = s \o t
  <2>1. p \in Seq(Sym) /\ Len(p) = n /\ \A i \in 1..n : p[i] = t[i]
    BY <1>1, <1>2
  <2>2. q \in Seq(Sym) /\ Len(q) = m - n /\ \A i \in 1..(m - n) : q[i] = t[n + i]
    <3>1. n + 1 \in 1..(m + 1) /\ m - (n + 1) + 1 = m - n
      OBVIOUS
    <3>2. q \in Seq(Sym) /\ Len(q) = m - n
      BY <1>1, <1>2, <3>1
    <3>3. ASSUME NEW i \in 1..(m - n) PROVE q[i] = t[n + i]
      <4>1. q[i] = t[(n + 1) + i - 1] /\ (n + 1) + i - 1 = n + i
        BY <1>1, <1>2, <3>1
      <4> QED
        BY <4>1
    <3> QED
      BY <3>2, <3>3
  <2>3. PICK k \in Nat : k = m - n
    OBVIOUS
  <2>4. /\ p \in Seq(Sym) /\ q \in Seq(Sym) /\ n \in Nat /\ n = Len(p) /\ k = Len(q) /\ Len(t) = n + k
        /\ (\A i \in 1..n : p[i] = t[i]) /\ (\A i \in 1..k : q[i] = t[n + i])
    BY <1>1, <2>1, <2>2, <2>3
  <2>5. p \o q = t
    BY <2>4, ConcatIs
  <2>6. (s \o p) \o q = s \o (p \o q)
    BY <2>1, <2>2, ConcatAssoc, Zenon
  <2>7. s \o p \in Seq(Sym)
    BY <2>1
  <2> QED
    BY <2>1, <2>2, <2>5, <2>6, <2>7, Zenon
<1> QED
  BY <1>1, <1>2, Zenon

LEMMA SentStep ==
  ASSUME ConsoleInv, SentOK, [SerialNext]_vars
  PROVE  SentOK'
<1>1. /\ scenario \in Scenarios /\ sent \in Seq(Sym) /\ todo \in Seq(Sym)
      /\ pc # "returned" => outcome = "none"
  BY DEF ConsoleInv, PlaceOK, SerialTypeOK, SentOK
<1>2. PICK n \in Nat : n = Len(steps)
  BY <1>1, StepsType
<1>3. PICK f : f = AllOf(steps)
  OBVIOUS
<1>4. idx \in 1..(n + 1)
  BY <1>2 DEF ConsoleInv, PlaceOK, SerialTypeOK
<1>5. \A k \in 1..n : /\ steps[k].kind = "send" => f[k] = f[k - 1] \o steps[k].text
                      /\ steps[k].kind # "send" => f[k] = f[k - 1]
  BY <1>1, <1>2, <1>3, AllOfSteps
<1>6. \A k \in 0..n : f[k] \in Seq(Sym)
  BY <1>1, <1>2, <1>3, AllOfSteps
<1>7. \/ pc # "write" /\ sent = f[idx - 1]
      \/ /\ pc = "write" \/ outcome = "port"
         /\ idx <= n
         /\ sent \o todo = f[idx] /\ Begins(f[idx - 1], sent)
  BY <1>2, <1>3 DEF SentOK
<1>8. ASSUME UNCHANGED scenario PROVE AllOf(steps)' = f /\ Len(steps)' = n
  BY <1>2, <1>3, <1>8 DEF steps
<1>9. CASE open \/ nextStep \/ readStep \/ pump
  <2>1. UNCHANGED <<scenario, sent, idx, todo>> /\ pc \notin {"write", "returned"} /\ pc' # "write"
    BY <1>9 DEF open, nextStep, readStep, pump, Return
  <2> QED
    BY <1>1, <2>1, SentQuiet
<1>10. CASE readUntil
  <2>1. UNCHANGED <<scenario, sent, todo>> /\ pc = "match" /\ pc' \in {"step", "read", "returned"}
    BY <1>10 DEF readUntil, Return
  <2>2. CASE UNCHANGED idx
    BY <1>1, <2>1, <2>2, SentQuiet
  <2>3. CASE idx' = idx + 1
    <3>1. idx \in 1..n /\ steps[idx].kind # "send"
      BY <1>2, <1>4, <2>1 DEF ConsoleInv, PlaceOK
    <3>2. f[idx] = f[idx - 1] /\ sent = f[idx - 1]
      BY <1>1, <1>5, <1>7, <2>1, <3>1
    <3>3. idx' - 1 = idx
      BY <1>4, <2>3
    <3>4. sent' = AllOf(steps)'[idx' - 1]
      BY <1>8, <2>1, <3>2, <3>3
    <3> QED
      BY <1>1, <2>1, <3>4 DEF SentOK
  <2> QED
    BY <1>10, <2>2, <2>3 DEF readUntil
<1>11. CASE sleepCtx
  <2>1. UNCHANGED <<scenario, sent, idx>> /\ pc = "sleep"
    BY <1>11 DEF sleepCtx, history
  <2>2. CASE pc' = "write" /\ todo' = steps[idx].text
    <3>1. idx \in 1..n /\ steps[idx].kind = "send"
      BY <1>2, <1>4, <2>1 DEF ConsoleInv, PlaceOK
    <3>2. f[idx] = f[idx - 1] \o todo' /\ sent = f[idx - 1]
      BY <1>1, <1>5, <1>7, <2>1, <2>2, <3>1
    <3>3. todo' \in Seq(Sym)
      BY <1>1, <1>2, <2>2, <3>1, StepsSend
    <3>4. Begins(sent, sent)
      BY <1>1, BeginsSelf
    <3>5. /\ sent' \o todo' = AllOf(steps)'[idx'] /\ Begins(AllOf(steps)'[idx' - 1], sent')
          /\ idx' <= Len(steps)'
      BY <1>8, <2>1, <3>1, <3>2, <3>4
    <3> QED
      BY <1>1, <2>1, <2>2, <3>3, <3>5 DEF SentOK
  <2>3. CASE pc' = "returned" /\ UNCHANGED todo
    BY <1>1, <2>1, <2>3, SentQuiet
  <2> QED
    BY <1>11, <2>2, <2>3 DEF sleepCtx, Return
<1>12. CASE write
  <2>1. UNCHANGED <<scenario, pc, idx, outcome>> /\ pc = "write"
    BY <1>12 DEF write
  <2>2. PICK m \in Nat : m = Len(todo)
    BY <1>1
  <2>3. PICK k \in 1..m : sent' = sent \o SubSeq(todo, 1, k) /\ todo' = SubSeq(todo, k + 1, m)
    BY <1>12, <2>2 DEF write
  <2>4. PICK p, q : p = SubSeq(todo, 1, k) /\ q = SubSeq(todo, k + 1, m)
    OBVIOUS
  <2>5. /\ p \in Seq(Sym) /\ q \in Seq(Sym) /\ sent \o p \in Seq(Sym)
        /\ (sent \o p) \o q = sent \o todo
    <3>1. p \in Seq(Sym) /\ q \in Seq(Sym) /\ (sent \o p) \o q = sent \o todo
      BY <1>1, <2>2, <2>4, SentPiece, Zenon
    <3>2. sent \o p \in Seq(Sym)
      BY <1>1, <3>1
    <3> QED
      BY <3>1, <3>2, Zenon
  <2>6. sent' = sent \o p /\ todo' = q
    BY <2>3, <2>4
  <2>7. idx <= n /\ sent \o todo = f[idx] /\ Begins(f[idx - 1], sent)
    BY <1>7, <2>1
  <2>8. Begins(f[idx - 1], sent \o p)
    <3>1. Begins(sent, sent \o p)
      BY <2>5, Zenon DEF Begins
    <3>2. f[idx - 1] \in Seq(Sym)
      BY <1>4, <1>6
    <3> QED
      BY <1>1, <2>5, <2>7, <3>1, <3>2, BeginsTrans
  <2>9. /\ sent' \o todo' = AllOf(steps)'[idx'] /\ Begins(AllOf(steps)'[idx' - 1], sent')
        /\ idx' <= Len(steps)'
    BY <1>8, <2>1, <2>5, <2>6, <2>7, <2>8
  <2> QED
    BY <2>1, <2>5, <2>6, <2>9 DEF SentOK
<1>13. CASE writeFails
  <2>1. UNCHANGED <<scenario, sent, idx, todo>> /\ pc = "write" /\ pc' = "returned" /\ outcome' = "port"
    BY <1>13 DEF writeFails, Return, history, engineVars
  <2> QED
    BY <1>1, <2>1, SentQuiet
<1>14. CASE written
  <2>1. UNCHANGED <<scenario, sent, todo>> /\ pc = "write" /\ pc' = "step" /\ idx' = idx + 1 /\ todo = <<>>
    BY <1>14 DEF written
  <2>2. sent \o todo = f[idx]
    BY <1>7, <2>1
  <2>3. sent = f[idx]
    BY <1>1, <2>1, <2>2
  <2>4. idx' - 1 = idx
    BY <1>4, <2>1
  <2>5. sent' = AllOf(steps)'[idx' - 1]
    BY <1>8, <2>1, <2>3, <2>4
  <2> QED
    BY <1>1, <2>1, <2>5 DEF SentOK
<1>15. CASE deviceSays \/ deviceGone \/ returned \/ UNCHANGED vars
  <2>1. UNCHANGED <<scenario, sent, idx, todo, pc, outcome>>
    BY <1>15 DEF deviceSays, deviceGone, returned, vars, history, engineVars
  <2> QED
    BY <1>1, <2>1, SentQuiet
<1>16. ASSUME NEW e \in {"cancel", "deadline", "drained"}, fires(e) PROVE SentOK'
  <2>1. UNCHANGED <<scenario, sent, idx, todo, pc, outcome>>
    BY <1>16 DEF fires, history, engineVars
  <2> QED
    BY <1>1, <2>1, SentQuiet
<1> QED
  BY <1>9, <1>10, <1>11, <1>12, <1>13, <1>14, <1>15, <1>16 DEF SerialNext, Run

LEMMA SentInit ==
  ASSUME SerialInit
  PROVE  SentOK
<1>1. Len(steps) \in Nat /\ scenario \in Scenarios
  BY StepsType DEF SerialInit
<1>2. PICK f : f = AllOf(steps)
  OBVIOUS
<1>3. f[0] = <<>>
  BY <1>1, <1>2, AllOfSteps
<1>4. pc = "open" /\ sent = <<>> /\ todo = <<>> /\ idx - 1 = 0
  BY DEF SerialInit
<1>5. sent \in Seq(Sym) /\ todo \in Seq(Sym)
  BY <1>4
<1> QED
  BY <1>2, <1>3, <1>4, <1>5 DEF SentOK

LEMMA SentMeans ==
  ASSUME ConsoleInv, SentOK
  PROVE  SentInOrder
<1>1. scenario \in Scenarios /\ sent \in Seq(Sym) /\ todo \in Seq(Sym)
  BY DEF ConsoleInv, PlaceOK, SentOK
<1>2. PICK n \in Nat : n = Len(steps)
  BY <1>1, StepsType
<1>3. PICK f : f = AllOf(steps)
  OBVIOUS
<1>4. idx \in 1..(n + 1) /\ Len(marks) = idx - 1
  BY <1>2 DEF ConsoleInv, PlaceOK, SerialTypeOK
<1>5. \A k \in 0..n : f[k] \in Seq(Sym)
  BY <1>1, <1>2, <1>3, AllOfSteps
<1>6. \A k \in 0..n : Begins(f[k], f[n])
  BY <1>1, <1>2, <1>3, AllOfSteps
<1>7. \/ pc # "write" /\ sent = f[idx - 1]
      \/ /\ pc = "write" \/ outcome = "port"
         /\ idx <= n
         /\ sent \o todo = f[idx] /\ Begins(f[idx - 1], sent)
  BY <1>2, <1>3 DEF SentOK
<1>8. Begins(sent, f[n]) /\ Begins(f[idx - 1], sent)
  <2>1. CASE sent = f[idx - 1]
    <3>1. idx - 1 \in 0..n
      BY <1>4
    <3> QED
      BY <1>1, <1>6, <2>1, <3>1, BeginsSelf
  <2>2. CASE idx <= n /\ sent \o todo = f[idx] /\ Begins(f[idx - 1], sent)
    <3>1. idx \in 0..n
      BY <1>4, <2>2
    <3>2. Begins(sent, f[idx])
      BY <1>1, <2>2, Zenon DEF Begins
    <3>3. f[idx] \in Seq(Sym) /\ f[n] \in Seq(Sym) /\ Begins(f[idx], f[n])
      BY <1>5, <1>6, <3>1
    <3> QED
      BY <1>1, <2>2, <3>2, <3>3, BeginsTrans
  <2> QED
    BY <1>7, <2>1, <2>2
<1>9. IsPrefix(sent, f[n]) /\ IsPrefix(f[idx - 1], sent)
  <2>1. f[n] \in Seq(Sym) /\ f[idx - 1] \in Seq(Sym)
    BY <1>4, <1>5
  <2> QED
    BY <1>1, <1>8, <2>1, BeginsIsPrefix
<1>10. pc # "write" /\ outcome # "port" => sent = f[idx - 1]
  BY <1>7
<1>11. f = CHOOSE g : g = [k \in 0..Len(steps) |->
             IF k = 0 THEN <<>> ELSE IF steps[k].kind = "send" THEN g[k - 1] \o steps[k].text ELSE g[k - 1]]
  BY <1>3, Zenon DEF AllOf, IsAll, Add
<1> QED
  BY <1>2, <1>4, <1>9, <1>10, <1>11, Zenon DEF SentInOrder

(* The device receives the payloads of the sends of a script, whole, once    *)
(* and in order, for every script and however short the writes of the port  *)
(* are (engine.write, engine.runScript, decodeEscapes, parseSteps); a run    *)
(* whose port fails has sent a prefix.                                      *)
THEOREM SentInOrderAlways == SerialSpec => []SentInOrder
<1>1. SerialInit => ConsoleInv /\ SentOK
  BY ConsoleInvInit, SentInit
<1>2. ConsoleInv /\ SentOK /\ [SerialNext]_vars => (ConsoleInv /\ SentOK)'
  BY ConsoleInvStep, SentStep
<1>3. ConsoleInv /\ SentOK => SentInOrder
  BY SentMeans
<1> QED
  BY <1>1, <1>2, <1>3, PTL DEF SerialSpec
=============================================================================
