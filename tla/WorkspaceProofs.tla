--------------------------- MODULE WorkspaceProofs ---------------------------
(***************************************************************************)
(* Proofs about the editing of a shared file, for any number of agents,    *)
(* any texts and any patches of one or two hunks.                          *)
(***************************************************************************)
EXTENDS Workspace, SequenceLemmas

Line == [id : Nat, word : Words]

Distinct(lines) == \A j, k \in DOMAIN lines : lines[j].id = lines[k].id => j = k

Apart(some, others) == \A j \in DOMAIN some, k \in DOMAIN others : some[j].id # others[k].id

TextOK(t) ==
    /\ t \in [lines : Seq(Line), ends : BOOLEAN]
    /\ Distinct(t.lines)
    /\ t.ends => t.lines # <<>>

\* Lines an edit adds to some lines.
ContentOK(content, lines) == content \in Seq(Line) /\ Distinct(content) /\ Apart(content, lines)

SpliceOK(s, lines) ==
    /\ s.start \in Nat /\ s.end \in Nat
    /\ s.start <= s.end /\ s.end <= Len(lines)
    /\ ContentOK(s.content, lines)

HunkOK(h, lines) ==
    /\ h.op \in {"insert_after", "replace", "delete"}
    /\ h.content # Nothing => ContentOK(h.content, lines)

HunksOK(hunks, lines) ==
    \/ \E h : hunks = <<h>> /\ HunkOK(h, lines)
    \/ \E g, h : /\ hunks = <<g, h>>
                 /\ HunkOK(g, lines) /\ HunkOK(h, lines)
                 /\ g.content # Nothing /\ h.content # Nothing => Apart(g.content, h.content)

-----------------------------------------------------------------------------
(* One splice.                                                             *)

LEMMA ConcatIs ==
    ASSUME NEW S, NEW s \in Seq(S), NEW t \in Seq(S)
    PROVE  /\ s \o t \in Seq(S) /\ Len(s \o t) = Len(s) + Len(t)
           /\ \A k \in 1 .. Len(s) : (s \o t)[k] = s[k]
           /\ \A k \in 1 .. Len(t) : (s \o t)[Len(s) + k] = t[k]
OBVIOUS

LEMMA PieceIs ==
    ASSUME NEW S, NEW s \in Seq(S), NEW a \in Nat, NEW b \in Nat, a <= b, b <= Len(s),
           NEW out, out = SubSeq(s, a + 1, b)
    PROVE  /\ out \in Seq(S) /\ Len(out) = b - a
           /\ \A k \in 1 .. b - a : out[k] = s[a + k]
OBVIOUS

LEMMA JoinedIs ==
    ASSUME NEW head \in Seq(Line), NEW content \in Seq(Line), NEW tail \in Seq(Line)
    PROVE  \A out : out = head \o content \o tail =>
               /\ out \in Seq(Line)
               /\ Len(out) = Len(head) + Len(content) + Len(tail)
               /\ \A k \in 1 .. Len(head) : out[k] = head[k]
               /\ \A k \in 1 .. Len(content) : out[Len(head) + k] = content[k]
               /\ \A k \in 1 .. Len(tail) : out[Len(head) + Len(content) + k] = tail[k]
<1>1. PICK both : both = head \o content
  OBVIOUS
<1>2. /\ both \in Seq(Line) /\ Len(both) = Len(head) + Len(content)
      /\ \A k \in 1 .. Len(head) : both[k] = head[k]
      /\ \A k \in 1 .. Len(content) : both[Len(head) + k] = content[k]
  BY <1>1, ConcatIs
<1>3. PICK out : out = both \o tail
  OBVIOUS
<1>4. /\ out \in Seq(Line) /\ Len(out) = Len(both) + Len(tail)
      /\ \A k \in 1 .. Len(both) : out[k] = both[k]
      /\ \A k \in 1 .. Len(tail) : out[Len(both) + k] = tail[k]
  <2>1. both \in Seq(Line)
    BY <1>2
  <2>2. /\ both \o tail \in Seq(Line) /\ Len(both \o tail) = Len(both) + Len(tail)
        /\ \A k \in 1 .. Len(both) : (both \o tail)[k] = both[k]
        /\ \A k \in 1 .. Len(tail) : (both \o tail)[Len(both) + k] = tail[k]
    BY <2>1, ConcatIs, SMT
  <2> QED
    BY <1>3, <2>2, Zenon
<1>5. Len(head) \in Nat /\ Len(content) \in Nat /\ Len(tail) \in Nat
  OBVIOUS
<1>6. \A k \in 1 .. Len(head) : k \in 1 .. Len(both)
  BY <1>2, <1>5
<1>7. \A k \in 1 .. Len(content) : Len(head) + k \in 1 .. Len(both)
  BY <1>2, <1>5
<1>8. head \o content \o tail = out
  BY <1>1, <1>3
<1>9. /\ out \in Seq(Line)
      /\ Len(out) = Len(head) + Len(content) + Len(tail)
      /\ \A k \in 1 .. Len(head) : out[k] = head[k]
      /\ \A k \in 1 .. Len(content) : out[Len(head) + k] = content[k]
      /\ \A k \in 1 .. Len(tail) : out[Len(head) + Len(content) + k] = tail[k]
  BY <1>2, <1>4, <1>6, <1>7
<1> QED
  BY <1>8, <1>9, Zenon

LEMMA SplicedIs ==
    ASSUME NEW lines \in Seq(Line), NEW s, SpliceOK(s, lines), NEW out, out = Spliced(s, lines)
    PROVE  /\ out \in Seq(Line)
           /\ Len(out) = s.start + Len(s.content) + (Len(lines) - s.end)
           /\ \A k \in 1 .. s.start : out[k] = lines[k]
           /\ \A k \in 1 .. Len(s.content) : out[s.start + k] = s.content[k]
           /\ \A k \in 1 .. Len(lines) - s.end : out[s.start + Len(s.content) + k] = lines[s.end + k]
<1>1. PICK a, b, content : a = s.start /\ b = s.end /\ content = s.content
  OBVIOUS
<1>2. content \in Seq(Line) /\ a \in Nat /\ b \in Nat /\ a <= b /\ b <= Len(lines)
  BY <1>1 DEF SpliceOK, ContentOK
<1>3. PICK head, tail : head = SubSeq(lines, 0 + 1, a) /\ tail = SubSeq(lines, b + 1, Len(lines))
  OBVIOUS
<1>4. PICK m \in Nat, r \in Nat : m = Len(content) /\ r = Len(lines) - b
  BY <1>2
<1>5. head \in Seq(Line) /\ Len(head) = a /\ \A k \in 1 .. a : head[k] = lines[k]
  <2>1. /\ head \in Seq(Line) /\ Len(head) = a - 0
        /\ \A k \in 1 .. a - 0 : head[k] = lines[0 + k]
    BY <1>2, <1>3, PieceIs
  <2> QED
    BY <1>2, <2>1
<1>6. tail \in Seq(Line) /\ Len(tail) = r /\ \A k \in 1 .. r : tail[k] = lines[b + k]
  BY <1>2, <1>3, <1>4, PieceIs
<1>7. out = head \o content \o tail
  BY <1>1, <1>3 DEF Spliced
<1>8. /\ out \in Seq(Line)
      /\ Len(out) = Len(head) + Len(content) + Len(tail)
      /\ \A k \in 1 .. Len(head) : out[k] = head[k]
      /\ \A k \in 1 .. Len(content) : out[Len(head) + k] = content[k]
      /\ \A k \in 1 .. Len(tail) : out[Len(head) + Len(content) + k] = tail[k]
  <2>1. head \in Seq(Line) /\ content \in Seq(Line) /\ tail \in Seq(Line)
    BY <1>2, <1>5, <1>6
  <2> QED
    BY <1>7, <2>1, JoinedIs, SMT
<1>9. /\ out \in Seq(Line)
      /\ Len(out) = a + m + r
      /\ \A k \in 1 .. a : out[k] = head[k]
      /\ \A k \in 1 .. m : out[a + k] = content[k]
      /\ \A k \in 1 .. r : out[a + m + k] = tail[k]
  BY <1>4, <1>5, <1>6, <1>8, Zenon
<1>10. /\ \A k \in 1 .. a : out[k] = lines[k]
       /\ \A k \in 1 .. r : out[a + m + k] = lines[b + k]
  BY <1>5, <1>6, <1>9, Zenon
<1> QED
  BY <1>1, <1>4, <1>9, <1>10, Zenon

\* A line of the result was before the splice, or is of its content, or after.
LEMMA SplicedParts ==
    ASSUME NEW lines \in Seq(Line), NEW s, SpliceOK(s, lines), NEW out, out = Spliced(s, lines),
           NEW k \in DOMAIN out
    PROVE  \/ k \in 1 .. s.start
           \/ \E j \in 1 .. Len(s.content) : k = s.start + j
           \/ \E j \in 1 .. Len(lines) - s.end : k = s.start + Len(s.content) + j
<1>1. PICK a, b, m, n : a = s.start /\ b = s.end /\ m = Len(s.content) /\ n = Len(lines)
  OBVIOUS
<1>2. a \in Nat /\ b \in Nat /\ m \in Nat /\ n \in Nat /\ a <= b /\ b <= n
  BY <1>1 DEF SpliceOK, ContentOK
<1>3. k \in 1 .. a + m + (n - b)
  BY <1>1, SplicedIs
<1>4. CASE k <= a
  BY <1>1, <1>2, <1>3, <1>4
<1>5. CASE k > a /\ k <= a + m
  <2>1. k - a \in 1 .. m /\ k = a + (k - a)
    BY <1>2, <1>3, <1>5
  <2> QED
    BY <1>1, <2>1
<1>6. CASE k > a + m
  <2>1. k - a - m \in 1 .. n - b /\ k = a + m + (k - a - m)
    BY <1>2, <1>3, <1>6
  <2> QED
    BY <1>1, <2>1
<1> QED
  BY <1>2, <1>3, <1>4, <1>5, <1>6

\* What a splice leaves is where it was, or moved, and its content is there.
LEMMA SplicedHas ==
    ASSUME NEW lines \in Seq(Line), NEW s, SpliceOK(s, lines), NEW out, out = Spliced(s, lines)
    PROVE  /\ \A k \in 1 .. s.start : k \in DOMAIN out /\ out[k] = lines[k]
           /\ \A k \in DOMAIN s.content : \E j \in DOMAIN out : out[j] = s.content[k]
           /\ \A k \in s.end + 1 .. Len(lines) : \E j \in DOMAIN out : out[j] = lines[k]
<1>1. PICK a, b, m, n : a = s.start /\ b = s.end /\ m = Len(s.content) /\ n = Len(lines)
  OBVIOUS
<1>2. /\ a \in Nat /\ b \in Nat /\ m \in Nat /\ n \in Nat /\ a <= b /\ b <= n
      /\ DOMAIN s.content = 1 .. m
  BY <1>1 DEF SpliceOK, ContentOK
<1>3. /\ DOMAIN out = 1 .. a + m + (n - b)
      /\ \A k \in 1 .. a : out[k] = lines[k]
      /\ \A k \in 1 .. m : out[a + k] = s.content[k]
      /\ \A k \in 1 .. n - b : out[a + m + k] = lines[b + k]
  <2>1. /\ out \in Seq(Line) /\ Len(out) = a + m + (n - b)
        /\ \A k \in 1 .. a : out[k] = lines[k]
        /\ \A k \in 1 .. m : out[a + k] = s.content[k]
        /\ \A k \in 1 .. n - b : out[a + m + k] = lines[b + k]
    BY <1>1, SplicedIs, SMTT(30)
  <2>2. DOMAIN out = 1 .. Len(out)
    BY <2>1
  <2> QED
    BY <2>1, <2>2
<1>4. \A k \in 1 .. a : k \in DOMAIN out /\ out[k] = lines[k]
  BY <1>2, <1>3
<1>5. \A k \in 1 .. m : a + k \in DOMAIN out /\ out[a + k] = s.content[k]
  BY <1>2, <1>3
<1>6. ASSUME NEW k \in b + 1 .. n
      PROVE  \E j \in DOMAIN out : out[j] = lines[k]
  <2>1. k - b \in 1 .. n - b /\ b + (k - b) = k /\ a + m + (k - b) \in DOMAIN out
    BY <1>2, <1>3
  <2> QED
    BY <1>3, <2>1
<1> QED
  BY <1>1, <1>2, <1>4, <1>5, <1>6

\* Every line of the result is one that was left, or of the content.
LEMMA SplicedFrom ==
    ASSUME NEW lines \in Seq(Line), NEW s, SpliceOK(s, lines), NEW out, out = Spliced(s, lines),
           NEW k \in DOMAIN out
    PROVE  \/ \E j \in DOMAIN lines : (j <= s.start \/ j > s.end) /\ out[k] = lines[j]
           \/ \E j \in DOMAIN s.content : out[k] = s.content[j]
<1>1. PICK a, b, m, n : a = s.start /\ b = s.end /\ m = Len(s.content) /\ n = Len(lines)
  OBVIOUS
<1>2. /\ a \in Nat /\ b \in Nat /\ m \in Nat /\ n \in Nat /\ a <= b /\ b <= n
      /\ DOMAIN s.content = 1 .. m /\ DOMAIN lines = 1 .. n
  BY <1>1 DEF SpliceOK, ContentOK
<1>3. /\ DOMAIN out = 1 .. a + m + (n - b)
      /\ \A i \in 1 .. a : out[i] = lines[i]
      /\ \A i \in 1 .. m : out[a + i] = s.content[i]
      /\ \A i \in 1 .. n - b : out[a + m + i] = lines[b + i]
  BY <1>1, SplicedIs
<1>4. PICK r \in Nat : r = n - b
  BY <1>2
<1>5. \/ k \in 1 .. a
      \/ \E j \in 1 .. m : k = a + j
      \/ \E j \in 1 .. r : k = a + m + j
  BY <1>1, <1>4, SplicedParts
<1>6. CASE k \in 1 .. a
  BY <1>1, <1>2, <1>3, <1>6
<1>7. CASE \E j \in 1 .. m : k = a + j
  <2>1. PICK j \in 1 .. m : k = a + j
    BY <1>7
  <2>2. out[k] = s.content[j] /\ j \in DOMAIN s.content
    BY <1>2, <1>3, <2>1
  <2> QED
    BY <2>2
<1>8. CASE \E j \in 1 .. r : k = a + m + j
  <2>1. PICK j \in 1 .. r : k = a + m + j
    BY <1>8
  <2>2. out[k] = lines[b + j]
    BY <1>3, <1>4, <2>1
  <2>3. b + j \in 1 .. n /\ b + j > b
    BY <1>2, <1>4
  <2> QED
    BY <1>1, <1>2, <2>2, <2>3
<1> QED
  BY <1>5, <1>6, <1>7, <1>8

LEMMA SplicedDistinct ==
    ASSUME NEW lines \in Seq(Line), Distinct(lines), NEW s, SpliceOK(s, lines),
           NEW out, out = Spliced(s, lines)
    PROVE  Distinct(out)
<1>1. PICK a, b, c, m, n : a = s.start /\ b = s.end /\ c = s.content /\ m = Len(c) /\ n = Len(lines)
  OBVIOUS
<1>2. /\ a \in Nat /\ b \in Nat /\ m \in Nat /\ n \in Nat /\ a <= b /\ b <= n
      /\ DOMAIN c = 1 .. m /\ DOMAIN lines = 1 .. n
      /\ Distinct(c) /\ Apart(c, lines)
  BY <1>1 DEF SpliceOK, ContentOK
<1>3. PICK r \in Nat : r = n - b
  BY <1>2
<1>4. /\ DOMAIN out = 1 .. a + m + r
      /\ \A i \in 1 .. a : out[i] = lines[i]
      /\ \A i \in 1 .. m : out[a + i] = c[i]
      /\ \A i \in 1 .. r : out[a + m + i] = lines[b + i]
  BY <1>1, <1>3, SplicedIs
<1>5. SUFFICES ASSUME NEW j \in DOMAIN out, NEW k \in DOMAIN out, out[j].id = out[k].id
               PROVE  j = k
  BY DEF Distinct
<1>6. \A i \in DOMAIN out :
          \/ i \in 1 .. a
          \/ \E x \in 1 .. m : i = a + x
          \/ \E x \in 1 .. r : i = a + m + x
  <2>1. \A i \in DOMAIN out :
            \/ i \in 1 .. s.start
            \/ \E x \in 1 .. Len(s.content) : i = s.start + x
            \/ \E x \in 1 .. Len(lines) - s.end : i = s.start + Len(s.content) + x
    BY SplicedParts, SMT
  <2> QED
    BY <1>1, <1>3, <2>1
<1>7. \A i \in 1 .. a : i \in DOMAIN lines
  BY <1>2
<1>8. \A i \in 1 .. r : b + i \in DOMAIN lines
  BY <1>2, <1>3
<1>9. \A i \in DOMAIN lines, x \in 1 .. m : lines[i].id # c[x].id
  BY <1>2 DEF Apart
<1>10. ASSUME NEW x \in 1 .. a, NEW i \in DOMAIN out, out[i].id = out[x].id
       PROVE  i = x
  <2>1. CASE i \in 1 .. a
    BY <1>4, <1>7, <1>10, <2>1 DEF Distinct
  <2>2. CASE \E y \in 1 .. m : i = a + y
    BY <1>4, <1>7, <1>9, <1>10, <2>2
  <2>3. CASE \E y \in 1 .. r : i = a + m + y
    <3>1. PICK y \in 1 .. r : i = a + m + y
      BY <2>3
    <3>2. lines[b + y].id = lines[x].id
      BY <1>4, <1>10, <3>1
    <3>3. b + y = x
      BY <1>7, <1>8, <3>2 DEF Distinct
    <3> QED
      BY <1>2, <3>3
  <2> QED
    BY <1>6, <2>1, <2>2, <2>3
<1>11. ASSUME NEW x \in 1 .. m, NEW i \in DOMAIN out, out[i].id = out[a + x].id
       PROVE  i = a + x
  <2>1. CASE i \in 1 .. a
    BY <1>4, <1>7, <1>9, <1>11, <2>1
  <2>2. CASE \E y \in 1 .. m : i = a + y
    <3>1. PICK y \in 1 .. m : i = a + y
      BY <2>2
    <3>2. c[y].id = c[x].id
      BY <1>4, <1>11, <3>1
    <3>3. y = x
      BY <1>2, <3>2 DEF Distinct
    <3> QED
      BY <3>1, <3>3
  <2>3. CASE \E y \in 1 .. r : i = a + m + y
    BY <1>4, <1>8, <1>9, <1>11, <2>3
  <2> QED
    BY <1>6, <2>1, <2>2, <2>3
<1>12. ASSUME NEW x \in 1 .. r, NEW y \in 1 .. r, out[a + m + x].id = out[a + m + y].id
       PROVE  x = y
  <2>1. b + x = b + y
    BY <1>4, <1>8, <1>12 DEF Distinct
  <2> QED
    BY <1>2, <2>1
<1>13. CASE j \in 1 .. a
  BY <1>5, <1>10, <1>13
<1>14. CASE \E x \in 1 .. m : j = a + x
  BY <1>5, <1>11, <1>14
<1>15. CASE \E x \in 1 .. r : j = a + m + x
  <2>1. CASE k \in 1 .. a
    BY <1>5, <1>10, <2>1
  <2>2. CASE \E x \in 1 .. m : k = a + x
    BY <1>5, <1>11, <2>2
  <2>3. CASE \E x \in 1 .. r : k = a + m + x
    BY <1>5, <1>12, <1>15, <2>3
  <2> QED
    BY <1>6, <2>1, <2>2, <2>3
<1> QED
  BY <1>6, <1>13, <1>14, <1>15

-----------------------------------------------------------------------------
(* What is written is read back, but for a blank line at its end.          *)

LEMMA RereadOK ==
    ASSUME NEW lines \in Seq(Line), Distinct(lines), NEW ends \in BOOLEAN, ends => lines # <<>>
    PROVE  LET t == Reread(lines, ends)
           IN  /\ TextOK(t)
               /\ \A k \in DOMAIN t.lines : k \in DOMAIN lines /\ t.lines[k] = lines[k]
               /\ \A k \in DOMAIN lines :
                     lines[k].word # Blank => k \in DOMAIN t.lines /\ t.lines[k] = lines[k]
<1>1. CASE ends \/ lines = <<>> \/ Last(lines).word # Blank
  BY <1>1 DEF Reread, TextOK
<1>2. CASE ~(ends \/ lines = <<>> \/ Last(lines).word # Blank)
  <2>1. PICK n \in Nat : n = Len(lines) - 1
    BY <1>2
  <2>2. PICK front : front = Front(lines)
    OBVIOUS
  <2>3. DOMAIN lines = 1 .. n + 1 /\ lines[n + 1].word = Blank
    BY <1>2, <2>1 DEF Last
  <2>4. front \in Seq(Line) /\ Len(front) = n /\ \A k \in 1 .. n : front[k] = lines[k]
    BY <1>2, <2>1, <2>2 DEF Front
  <2>5. DOMAIN front = 1 .. n
    BY <2>4
  <2>6. Distinct(front)
    BY <2>3, <2>4, <2>5 DEF Distinct
  <2>7. Reread(lines, ends) = [lines |-> front, ends |-> n > 0]
    BY <1>2, <2>1, <2>2 DEF Reread
  <2>8. n > 0 => front # <<>>
    BY <2>4
  <2>9. TextOK(Reread(lines, ends))
    <3>1. CASE n > 0
      <4>1. Reread(lines, ends) = [lines |-> front, ends |-> TRUE]
        BY <2>7, <3>1
      <4> QED
        BY <2>4, <2>6, <2>8, <3>1, <4>1 DEF TextOK
    <3>2. CASE ~(n > 0)
      <4>1. Reread(lines, ends) = [lines |-> front, ends |-> FALSE]
        <5>1. (Len(lines) > 1) = FALSE
          BY <2>1, <3>2
        <5>2. Reread(lines, ends) = [lines |-> front, ends |-> Len(lines) > 1]
          BY <1>2, <2>2 DEF Reread
        <5> QED
          BY <5>1, <5>2
      <4> QED
        BY <2>4, <2>6, <4>1 DEF TextOK
    <3> QED
      BY <3>1, <3>2
  <2>10. \A k \in DOMAIN lines : lines[k].word # Blank => k \in 1 .. n
    BY <2>3
  <2> QED
    BY <2>3, <2>4, <2>5, <2>7, <2>9, <2>10
<1> QED
  BY <1>1, <1>2

-----------------------------------------------------------------------------
(* Hunks.                                                                  *)

LEMMA ResolveIsALine ==
    ASSUME NEW lines \in Seq(Line), NEW anchor
    PROVE  resolve_anchor(lines, anchor) \in DOMAIN lines \union {Stale}
<1>1. PICK holders : holders = Holders(lines, anchor.hash)
  OBVIOUS
<1>2. holders \subseteq DOMAIN lines
  BY <1>1 DEF Holders
<1>3. CASE anchor.line \in holders
  BY <1>1, <1>2, <1>3 DEF resolve_anchor
<1>4. CASE anchor.line \notin holders /\ Cardinality(holders) = 1
  <2>1. holders # {}
    <3>1. Cardinality({}) = 0
      BY FS_EmptySet
    <3>2. 0 # 1
      OBVIOUS
    <3> QED
      BY <1>4, <3>1, <3>2, Zenon
  <2>2. (CHOOSE k \in holders : TRUE) \in holders
    BY <2>1
  <2> QED
    BY <1>1, <1>2, <1>4, <2>2 DEF resolve_anchor
<1>5. CASE anchor.line \notin holders /\ Cardinality(holders) # 1
  BY <1>1, <1>5 DEF resolve_anchor
<1> QED
  BY <1>3, <1>4, <1>5

\* An accepted hunk replaces lines that are there, by its content.
LEMMA SpliceIsOK ==
    ASSUME NEW lines \in Seq(Line), NEW h, HunkOK(h, lines), Accepted(lines, h)
    PROVE  /\ SpliceOK(Splice(lines, h), lines)
           /\ Splice(lines, h).content = IF h.content = Nothing THEN <<>> ELSE h.content
<1>1. PICK n \in Nat : n = Len(lines) /\ DOMAIN lines = 1 .. n
  OBVIOUS
<1>2. \A anchor : resolve_anchor(lines, anchor) \in 0 .. n
  BY <1>1, ResolveIsALine DEF Stale
<1>3. ContentOK(<<>>, lines)
  BY DEF ContentOK, Distinct, Apart
<1>4. CASE IsInsert(h)
  <2>1. /\ h.content # Nothing /\ ContentOK(h.content, lines)
        /\ h.op = "insert_after"
    BY <1>4 DEF Accepted, IsInsert, HunkOK
  <2>2. PICK at \in 0 .. n : at = IF h.anchor.line = Top THEN 0 ELSE resolve_anchor(lines, h.anchor)
    BY <1>1, <1>2
  <2>3. Splice(lines, h) = [start |-> at, end |-> at, content |-> h.content]
    BY <1>4, <2>2 DEF Splice
  <2> QED
    BY <1>1, <2>1, <2>2, <2>3 DEF SpliceOK
<1>5. CASE ~IsInsert(h)
  <2>1. /\ h.op = "replace" <=> h.content # Nothing
        /\ h.op \in {"replace", "delete"}
        /\ Resolved(lines, h.anchor)
        /\ h.to # Nothing => resolve_anchor(lines, h.to) >= resolve_anchor(lines, h.anchor)
    BY <1>5 DEF Accepted
  <2>2. PICK at \in 0 .. n : at = resolve_anchor(lines, h.anchor)
    BY <1>2
  <2>3. at # 0 /\ h.anchor.line # Top
    BY <2>1, <2>2 DEF Resolved, Stale
  <2>4. PICK last \in 0 .. n : last = IF h.to = Nothing THEN at ELSE resolve_anchor(lines, h.to)
    BY <1>2, <2>2
  <2>5. last >= at
    BY <2>1, <2>2, <2>4
  <2>6. PICK content : content = IF h.op = "delete" THEN <<>> ELSE h.content
    OBVIOUS
  <2>7. ContentOK(content, lines) /\ content = IF h.content = Nothing THEN <<>> ELSE h.content
    BY <1>3, <2>1, <2>6 DEF HunkOK
  <2>8. Splice(lines, h) = [start |-> at - 1, end |-> last, content |-> content]
    BY <1>5, <2>2, <2>3, <2>4, <2>6 DEF Splice
  <2>9. at - 1 \in Nat /\ last \in Nat /\ at - 1 <= last /\ last <= Len(lines)
    BY <1>1, <2>2, <2>3, <2>4, <2>5
  <2> QED
    BY <2>7, <2>8, <2>9 DEF SpliceOK
<1> QED
  BY <1>4, <1>5

-----------------------------------------------------------------------------
(* Patches of one or two hunks.                                            *)

LEMMA MinOfOne == ASSUME NEW n \in Nat PROVE Min({n}) = n
BY DEF Min

LEMMA MinOfTwo == Min({1, 2}) = 1
BY DEF Min

\* The fold of one splice applies it; the fold of two, the second one first.
LEMMA AppliedOne ==
    ASSUME NEW s, NEW lines
    PROVE  Applied(<<s>>, lines) = Spliced(s, lines)
<1> DEFINE Body(f) == [x \in SUBSET {1} |-> IF x = {} THEN lines
                                            ELSE Spliced(<<s>>[Min(x)], f[x \ {Min(x)}])]
           Iter == CHOOSE f : f = Body(f)
           fold == [x \in SUBSET {1} |-> IF x = {} THEN lines ELSE Spliced(s, lines)]
<1>1. fold = Body(fold)
  <2>1. \A x \in SUBSET {1} : x = {} \/ x = {1}
    OBVIOUS
  <2>2. Min({1}) = 1
    BY MinOfOne
  <2>3. fold[{}] = lines
    OBVIOUS
  <2>4. ASSUME NEW x \in SUBSET {1}
        PROVE  fold[x] = Body(fold)[x]
    <3>1. CASE x = {}
      BY <3>1
    <3>2. CASE x = {1}
      <4>1. x \ {Min(x)} = {} /\ Min(x) = 1
        BY <2>2, <3>2
      <4>2. Body(fold)[x] = Spliced(<<s>>[1], fold[{}])
        BY <3>2, <4>1
      <4> QED
        BY <2>3, <3>2, <4>2
    <3> QED
      BY <2>1, <3>1, <3>2
  <2> QED
    BY <2>4
<1>2. Iter = Body(Iter)
  <2> HIDE DEF Body, fold
  <2> QED
    BY <1>1
<1>3. Applied(<<s>>, lines) = Iter[{1}]
  BY DEF Applied, FoldRight, MapThenFoldSet
<1> HIDE DEF Iter
<1>4. Iter[{}] = lines
  BY <1>2
<1>5. Iter[{1}] = Spliced(<<s>>[1], Iter[{}])
  <2>1. {1} # {} /\ Min({1}) = 1 /\ {1} \ {Min({1})} = {}
    BY MinOfOne
  <2>2. Body(Iter)[{1}] = Spliced(<<s>>[Min({1})], Iter[{1} \ {Min({1})}])
    BY <2>1
  <2> QED
    BY <1>2, <2>1, <2>2
<1> QED
  BY <1>3, <1>4, <1>5

LEMMA AppliedTwo ==
    ASSUME NEW s, NEW t, NEW lines
    PROVE  Applied(<<s, t>>, lines) = Spliced(s, Spliced(t, lines))
<1> DEFINE both == <<s, t>>
           Body(f) == [x \in SUBSET {1, 2} |-> IF x = {} THEN lines
                                               ELSE Spliced(both[Min(x)], f[x \ {Min(x)}])]
           Iter == CHOOSE f : f = Body(f)
           fold == [x \in SUBSET {1, 2} |->
                        IF x = {} THEN lines
                        ELSE IF x = {1} THEN Spliced(s, lines)
                        ELSE IF x = {2} THEN Spliced(t, lines)
                        ELSE Spliced(s, Spliced(t, lines))]
<1>1. /\ Min({1}) = 1 /\ Min({2}) = 2 /\ Min({1, 2}) = 1
      /\ {1} \ {1} = {} /\ {2} \ {2} = {} /\ {1, 2} \ {1} = {2}
      /\ {1} # {} /\ {2} # {} /\ {1, 2} # {} /\ {1} # {2} /\ {1} # {1, 2} /\ {2} # {1, 2}
  BY MinOfOne, MinOfTwo
<1>2. both[1] = s /\ both[2] = t
  OBVIOUS
<1>3. \A x \in SUBSET {1, 2} : x = {} \/ x = {1} \/ x = {2} \/ x = {1, 2}
  OBVIOUS
<1>4. {} \in SUBSET {1, 2} /\ {1} \in SUBSET {1, 2} /\ {2} \in SUBSET {1, 2} /\ {1, 2} \in SUBSET {1, 2}
  OBVIOUS
<1> HIDE DEF both
<1>5. fold = Body(fold)
  <2>1. /\ fold[{}] = lines /\ fold[{1}] = Spliced(s, lines) /\ fold[{2}] = Spliced(t, lines)
        /\ fold[{1, 2}] = Spliced(s, Spliced(t, lines))
    BY <1>1, <1>4
  <2>2. ASSUME NEW f
        PROVE  /\ Body(f)[{}] = lines
               /\ Body(f)[{1}] = Spliced(s, f[{}])
               /\ Body(f)[{2}] = Spliced(t, f[{}])
               /\ Body(f)[{1, 2}] = Spliced(s, f[{2}])
    BY <1>1, <1>2, <1>4
  <2>3. ASSUME NEW x \in SUBSET {1, 2}
        PROVE  fold[x] = Body(fold)[x]
    <3> HIDE DEF fold, Body
    <3>1. /\ Body(fold)[{}] = lines
          /\ Body(fold)[{1}] = Spliced(s, fold[{}])
          /\ Body(fold)[{2}] = Spliced(t, fold[{}])
          /\ Body(fold)[{1, 2}] = Spliced(s, fold[{2}])
      BY <2>2
    <3> QED
      <4>1. /\ Body(fold)[{}] = fold[{}] /\ Body(fold)[{1}] = fold[{1}]
            /\ Body(fold)[{2}] = fold[{2}] /\ Body(fold)[{1, 2}] = fold[{1, 2}]
        BY <2>1, <3>1, Zenon
      <4> QED
        BY <1>3, <4>1, Zenon
  <2> QED
    BY <2>3
<1>6. Iter = Body(Iter)
  <2> HIDE DEF Body, fold
  <2> QED
    BY <1>5
<1>7. Applied(both, lines) = Iter[{1, 2}]
  <2>1. DOMAIN both = {1, 2}
    BY DEF both
  <2> QED
    BY <2>1 DEF Applied, FoldRight, MapThenFoldSet
<1> HIDE DEF Iter, fold
<1>8. Iter[{}] = lines
  BY <1>4, <1>6
<1>9. Iter[{2}] = Spliced(t, Iter[{}])
  BY <1>1, <1>2, <1>4, <1>6
<1>10. Iter[{1, 2}] = Spliced(s, Iter[{2}])
  BY <1>1, <1>2, <1>4, <1>6
<1> QED
  BY <1>7, <1>8, <1>9, <1>10 DEF both

LEMMA SortedOne ==
    ASSUME NEW s
    PROVE  Sorted(<<s>>) = <<s>>
<1>1. PICK one : one = <<s>>
  OBVIOUS
<1>2. DOMAIN one = {1} /\ one[1] = s
  BY <1>1
<1> DEFINE Orders(p) == \A j, k \in {1} : j < k => p[j] # p[k] /\ NotAfter(one[p[j]], one[p[k]])
<1>3. PICK order : order = CHOOSE p \in [{1} -> {1}] : Orders(p)
  OBVIOUS
<1>4. order[1] = 1
  <2>1. [x \in {1} |-> 1] \in [{1} -> {1}]
    OBVIOUS
  <2>2. \A p : Orders(p)
    OBVIOUS
  <2> HIDE DEF Orders
  <2>3. order \in [{1} -> {1}]
    BY <1>3, <2>1, <2>2
  <2> QED
    BY <2>3
<1>5. Sorted(one) = [k \in {1} |-> one[order[k]]]
  BY <1>2, <1>3 DEF Sorted
<1>6. Sorted(one) = [k \in {1} |-> s]
  BY <1>2, <1>4, <1>5
<1> QED
  BY <1>1, <1>6

\* Two splices that do not overlap, in the order of their lines.
LEMMA SortedTwo ==
    ASSUME NEW s, NEW t, s.start \in Nat, s.end \in Nat, t.start \in Nat, t.end \in Nat
    PROVE  \E a, b : /\ Sorted(<<s, t>>) = <<a, b>>
                     /\ (a = s /\ b = t) \/ (a = t /\ b = s)
                     /\ NotAfter(a, b)
<1>1. PICK both : both = <<s, t>>
  OBVIOUS
<1>2. DOMAIN both = {1, 2} /\ both[1] = s /\ both[2] = t
  BY <1>1
<1> DEFINE Orders(p) == \A j, k \in {1, 2} : j < k => p[j] # p[k] /\ NotAfter(both[p[j]], both[p[k]])
<1>3. \E p \in [{1, 2} -> {1, 2}] : Orders(p)
  <2>1. CASE NotAfter(s, t)
    <3>1. PICK p : p = [k \in {1, 2} |-> k]
      OBVIOUS
    <3>2. p \in [{1, 2} -> {1, 2}] /\ p[1] = 1 /\ p[2] = 2
      BY <3>1
    <3> QED
      BY <1>2, <2>1, <3>2
  <2>2. CASE NotAfter(t, s)
    <3>1. PICK p : p = [k \in {1, 2} |-> 3 - k]
      OBVIOUS
    <3>2. p \in [{1, 2} -> {1, 2}] /\ p[1] = 2 /\ p[2] = 1
      BY <3>1
    <3> QED
      BY <1>2, <2>2, <3>2
  <2>3. NotAfter(s, t) \/ NotAfter(t, s)
    BY DEF NotAfter
  <2> QED
    BY <2>1, <2>2, <2>3
<1>4. PICK order : order = CHOOSE p \in [{1, 2} -> {1, 2}] : Orders(p)
  OBVIOUS
<1>5. order \in [{1, 2} -> {1, 2}] /\ Orders(order)
  <2> HIDE DEF Orders
  <2> QED
    BY <1>3, <1>4
<1>6. Sorted(both) = [k \in {1, 2} |-> both[order[k]]]
  BY <1>2, <1>4 DEF Sorted
<1>7. order[1] # order[2] /\ NotAfter(both[order[1]], both[order[2]])
  BY <1>5
<1>8. Sorted(both) = <<both[order[1]], both[order[2]]>>
  BY <1>6
<1>9. (order[1] = 1 /\ order[2] = 2) \/ (order[1] = 2 /\ order[2] = 1)
  BY <1>5, <1>7
<1> QED
  BY <1>1, <1>2, <1>7, <1>8, <1>9

\* A patch of one or two hunks that is accepted, as one or two splices of the
\* text that was read.
LEMMA PatchedOne ==
    ASSUME NEW t, TextOK(t), NEW h, HunkOK(h, t.lines), Patched(t, <<h>>).ok
    PROVE  /\ Accepted(t.lines, h)
           /\ SpliceOK(Splice(t.lines, h), t.lines)
           /\ LET out == Spliced(Splice(t.lines, h), t.lines)
              IN  Patched(t, <<h>>).text = Reread(out, t.ends /\ ~IsBlank(out))
<1>1. PICK hunks : hunks = <<h>>
  OBVIOUS
<1>2. DOMAIN hunks = {1} /\ hunks[1] = h
  BY <1>1
<1>3. PICK s : s = Splice(t.lines, h)
  OBVIOUS
<1>4. [k \in DOMAIN hunks |-> Splice(t.lines, hunks[k])] = <<s>>
  BY <1>2, <1>3
<1>5. PICK parsed : parsed = parse_hunks(t.lines, hunks)
  OBVIOUS
<1>6. parsed = IF Accepted(t.lines, h) /\ ~Overlap(<<s>>) THEN [ok |-> TRUE, splices |-> <<s>>] ELSE Refused
  BY <1>2, <1>4, <1>5, SortedOne DEF parse_hunks
<1>7. parsed.ok
  BY <1>1, <1>5 DEF Patched, Refused
<1>8. Accepted(t.lines, h) /\ parsed.splices = <<s>>
  BY <1>6, <1>7 DEF Refused
<1>9. SpliceOK(s, t.lines)
  BY <1>3, <1>8, SpliceIsOK DEF TextOK
<1>10. Applied(parsed.splices, t.lines) = Spliced(s, t.lines)
  BY <1>8, AppliedOne
<1> QED
  BY <1>1, <1>3, <1>5, <1>7, <1>8, <1>9, <1>10 DEF Patched

LEMMA PatchedTwo ==
    ASSUME NEW t, TextOK(t), NEW g, NEW h, HunkOK(g, t.lines), HunkOK(h, t.lines),
           Patched(t, <<g, h>>).ok
    PROVE  /\ Accepted(t.lines, g) /\ Accepted(t.lines, h)
           /\ \E a, b :
                 /\ \/ a = Splice(t.lines, g) /\ b = Splice(t.lines, h)
                    \/ a = Splice(t.lines, h) /\ b = Splice(t.lines, g)
                 /\ SpliceOK(a, t.lines) /\ SpliceOK(b, t.lines)
                 /\ a.end <= b.start
                 /\ LET out == Spliced(a, Spliced(b, t.lines))
                    IN  Patched(t, <<g, h>>).text = Reread(out, t.ends /\ ~IsBlank(out))
<1>1. PICK hunks : hunks = <<g, h>>
  OBVIOUS
<1>2. DOMAIN hunks = {1, 2} /\ hunks[1] = g /\ hunks[2] = h
  BY <1>1
<1>3. PICK p, q : p = Splice(t.lines, g) /\ q = Splice(t.lines, h)
  OBVIOUS
<1>4. [k \in DOMAIN hunks |-> Splice(t.lines, hunks[k])] = <<p, q>>
  BY <1>2, <1>3
<1>5. PICK parsed : parsed = parse_hunks(t.lines, hunks)
  OBVIOUS
<1>6. parsed = IF (\A k \in DOMAIN hunks : Accepted(t.lines, hunks[k])) /\ ~Overlap(Sorted(<<p, q>>))
               THEN [ok |-> TRUE, splices |-> Sorted(<<p, q>>)] ELSE Refused
  BY <1>4, <1>5 DEF parse_hunks
<1>7. parsed.ok
  BY <1>1, <1>5 DEF Patched, Refused
<1>8. /\ \A k \in DOMAIN hunks : Accepted(t.lines, hunks[k])
      /\ ~Overlap(Sorted(<<p, q>>)) /\ parsed.splices = Sorted(<<p, q>>)
  BY <1>6, <1>7 DEF Refused
<1>9. Accepted(t.lines, g) /\ Accepted(t.lines, h)
  BY <1>2, <1>8
<1>10. t.lines \in Seq(Line)
  BY DEF TextOK
<1>11. SpliceOK(p, t.lines) /\ SpliceOK(q, t.lines)
  BY <1>3, <1>9, <1>10, SpliceIsOK
<1>12. p.start \in Nat /\ p.end \in Nat /\ q.start \in Nat /\ q.end \in Nat
  BY <1>11 DEF SpliceOK
<1>13. PICK a, b : /\ Sorted(<<p, q>>) = <<a, b>>
                   /\ (a = p /\ b = q) \/ (a = q /\ b = p)
                   /\ NotAfter(a, b)
  BY <1>12, SortedTwo
<1>14. a.end <= b.start
  <2>1. ~Overlap(<<a, b>>)
    BY <1>8, <1>13
  <2>2. ~(b.start < a.end)
    BY <2>1 DEF Overlap
  <2> QED
    BY <1>12, <1>13, <2>2
<1>15. Applied(parsed.splices, t.lines) = Spliced(a, Spliced(b, t.lines))
  BY <1>8, <1>13, AppliedTwo
<1>16. PICK out : out = Spliced(a, Spliced(b, t.lines))
  OBVIOUS
<1>17. Patched(t, <<g, h>>).text = Reread(out, t.ends /\ ~IsBlank(out))
  BY <1>1, <1>5, <1>7, <1>15, <1>16 DEF Patched
<1> QED
  BY <1>3, <1>9, <1>11, <1>13, <1>14, <1>16, <1>17

-----------------------------------------------------------------------------
(* What comes of an edit.                                                  *)

Has(out, line) == \E j \in DOMAIN out : out[j] = line

LEMMA SplicedOnce ==
    ASSUME NEW lines \in Seq(Line), Distinct(lines), NEW s, SpliceOK(s, lines)
    PROVE  LET out == Spliced(s, lines)
           IN  /\ out \in Seq(Line) /\ Distinct(out)
               /\ \A k \in DOMAIN lines : k \notin s.start + 1 .. s.end => Has(out, lines[k])
               /\ \A k \in DOMAIN s.content : Has(out, s.content[k])
               /\ \A j \in DOMAIN out : Has(lines, out[j]) \/ Has(s.content, out[j])
<1>1. PICK out : out = Spliced(s, lines)
  OBVIOUS
<1>2. out \in Seq(Line)
  BY <1>1, SplicedIs
<1>3. Distinct(out)
  BY <1>1, SplicedDistinct
<1>4. /\ \A k \in 1 .. s.start : k \in DOMAIN out /\ out[k] = lines[k]
      /\ \A k \in DOMAIN s.content : \E j \in DOMAIN out : out[j] = s.content[k]
      /\ \A k \in s.end + 1 .. Len(lines) : \E j \in DOMAIN out : out[j] = lines[k]
  BY <1>1, SplicedHas, SMT
<1>5. ASSUME NEW k \in DOMAIN lines, k \notin s.start + 1 .. s.end
      PROVE  Has(out, lines[k])
  <2>1. k \in 1 .. s.start \/ k \in s.end + 1 .. Len(lines)
    BY <1>5 DEF SpliceOK
  <2> QED
    BY <1>4, <2>1 DEF Has
<1>6. \A k \in DOMAIN s.content : Has(out, s.content[k])
  BY <1>4 DEF Has
<1>7. \A j \in DOMAIN out : Has(lines, out[j]) \/ Has(s.content, out[j])
  <2>1. ASSUME NEW k \in DOMAIN out
        PROVE  \/ \E j \in DOMAIN lines : (j <= s.start \/ j > s.end) /\ out[k] = lines[j]
               \/ \E j \in DOMAIN s.content : out[k] = s.content[j]
    BY <1>1, SplicedFrom, SMT
  <2> QED
    BY <2>1 DEF Has
<1> QED
  BY <1>1, <1>2, <1>3, <1>5, <1>6, <1>7

\* Of two splices, the one further down is applied first.
LEMMA SplicedTwice ==
    ASSUME NEW lines \in Seq(Line), Distinct(lines), NEW a, NEW b,
           SpliceOK(a, lines), SpliceOK(b, lines), a.end <= b.start, Apart(a.content, b.content)
    PROVE  LET out == Spliced(a, Spliced(b, lines))
           IN  /\ out \in Seq(Line) /\ Distinct(out)
               /\ \A k \in DOMAIN lines :
                      k \notin (a.start + 1 .. a.end) \union (b.start + 1 .. b.end) => Has(out, lines[k])
               /\ \A k \in DOMAIN a.content : Has(out, a.content[k])
               /\ \A k \in DOMAIN b.content : Has(out, b.content[k])
               /\ \A j \in DOMAIN out :
                      Has(lines, out[j]) \/ Has(a.content, out[j]) \/ Has(b.content, out[j])
<1>1. PICK mid : mid = Spliced(b, lines)
  OBVIOUS
<1>2. /\ mid \in Seq(Line) /\ Distinct(mid)
      /\ \A k \in DOMAIN b.content : Has(mid, b.content[k])
      /\ \A j \in DOMAIN mid : Has(lines, mid[j]) \/ Has(b.content, mid[j])
  BY <1>1, SplicedOnce
<1>3. /\ Len(mid) = b.start + Len(b.content) + (Len(lines) - b.end)
      /\ \A k \in 1 .. b.start : mid[k] = lines[k]
      /\ \A k \in 1 .. Len(b.content) : mid[b.start + k] = b.content[k]
      /\ \A k \in 1 .. Len(lines) - b.end : mid[b.start + Len(b.content) + k] = lines[b.end + k]
  BY <1>1, SplicedIs, SMT
<1>4. /\ a.start \in Nat /\ a.end \in Nat /\ b.start \in Nat /\ b.end \in Nat
      /\ a.start <= a.end /\ b.start <= b.end /\ b.end <= Len(lines)
      /\ a.content \in Seq(Line) /\ b.content \in Seq(Line)
      /\ Distinct(a.content) /\ Apart(a.content, lines)
  BY DEF SpliceOK, ContentOK
<1>5. a.end <= Len(mid)
  <2>1. Len(b.content) \in Nat /\ Len(lines) \in Nat
    BY <1>4
  <2> QED
    BY <1>3, <1>4, <2>1
<1>6. Apart(a.content, mid)
  BY <1>2, <1>4 DEF Apart, Has
<1>7. SpliceOK(a, mid)
  BY <1>4, <1>5, <1>6 DEF SpliceOK, ContentOK
<1>8. PICK out : out = Spliced(a, mid)
  OBVIOUS
<1>9. /\ out \in Seq(Line) /\ Distinct(out)
      /\ \A k \in DOMAIN mid : k \notin a.start + 1 .. a.end => Has(out, mid[k])
      /\ \A k \in DOMAIN a.content : Has(out, a.content[k])
      /\ \A j \in DOMAIN out : Has(mid, out[j]) \/ Has(a.content, out[j])
  BY <1>2, <1>7, <1>8, SplicedOnce
<1>10. PICK m, n, r, p, q, e, f :
          /\ m = Len(b.content) /\ n = Len(lines) /\ r = n - b.end
          /\ p = b.start /\ q = b.end /\ f = a.start /\ e = a.end
  OBVIOUS
<1>11. /\ m \in Nat /\ n \in Nat /\ r \in Nat /\ DOMAIN lines = 1 .. n /\ DOMAIN b.content = 1 .. m
       /\ p \in Nat /\ q \in Nat /\ e \in Nat /\ f \in Nat
       /\ f <= e /\ e <= p /\ p <= q /\ q + r = n
  BY <1>4, <1>10
<1>12. DOMAIN mid = 1 .. p + m + r
  BY <1>2, <1>3, <1>10
<1>a. /\ \A k \in 1 .. p : mid[k] = lines[k]
      /\ \A k \in 1 .. m : mid[p + k] = b.content[k]
      /\ \A k \in 1 .. r : mid[p + m + k] = lines[q + k]
      /\ \A k \in DOMAIN mid : k \notin f + 1 .. e => Has(out, mid[k])
  BY <1>3, <1>9, <1>10
<1>13. ASSUME NEW k \in DOMAIN lines, k \notin a.start + 1 .. a.end, k \notin b.start + 1 .. b.end
       PROVE  Has(out, lines[k])
  <2>1. k \in 1 .. n /\ k \notin f + 1 .. e /\ k \notin p + 1 .. q
    BY <1>10, <1>11, <1>13
  <2>2. CASE k <= p
    <3>1. k \in 1 .. p /\ k \in DOMAIN mid
      BY <1>11, <1>12, <2>1, <2>2
    <3>2. mid[k] = lines[k] /\ Has(out, mid[k])
      BY <1>a, <2>1, <3>1
    <3> QED
      BY <3>2
  <2>3. CASE k > q
    <3>1. PICK j \in 1 .. r : q + j = k
      <4>1. k - q \in 1 .. r /\ q + (k - q) = k
        BY <1>11, <2>1, <2>3
      <4> QED
        BY <4>1
    <3>2. mid[p + m + j] = lines[k]
      BY <1>a, <3>1
    <3>3. p + m + j \in DOMAIN mid /\ p + m + j \notin f + 1 .. e
      BY <1>11, <1>12
    <3> QED
      BY <1>a, <3>2, <3>3
  <2> QED
    BY <1>11, <2>1, <2>2, <2>3
<1>14. ASSUME NEW k \in DOMAIN b.content
       PROVE  Has(out, b.content[k])
  <2>1. mid[p + k] = b.content[k]
    BY <1>a, <1>11
  <2>2. p + k \in DOMAIN mid /\ p + k \notin f + 1 .. e
    BY <1>11, <1>12
  <2> QED
    BY <1>a, <2>1, <2>2
<1>15. ASSUME NEW j \in DOMAIN out
       PROVE  Has(lines, out[j]) \/ Has(a.content, out[j]) \/ Has(b.content, out[j])
  <2>1. CASE Has(mid, out[j])
    <3>1. PICK i \in DOMAIN mid : mid[i] = out[j]
      BY <2>1 DEF Has
    <3> QED
      BY <1>2, <3>1
  <2> QED
    BY <1>9, <2>1
<1> QED
  BY <1>1, <1>8, <1>9, <1>13, <1>14, <1>15

-----------------------------------------------------------------------------
(* Exact strings.                                                          *)

\* A text without an occurrence has no match.
LEMMA NoMatch ==
    ASSUME NEW lines \in Seq(Line), NEW old \in Seq(Words), old # <<>>,
           \A k \in DOMAIN lines : ~OccursAt(lines, old, k)
    PROVE  Matches(lines, old) = 0
<1>1. PICK n \in Nat, m \in Nat, N \in Nat : n = Len(lines) /\ m = Len(old) /\ N = n + m
  OBVIOUS
<1>2. m > 0 /\ n < N /\ 1 \in 1 .. N
  BY <1>1
<1> DEFINE Body(f) == [k \in 1 .. Len(lines) + Len(old) |->
                          IF k > Len(lines) THEN 0
                          ELSE IF OccursAt(lines, old, k) THEN 1 + f[k + Len(old)]
                          ELSE f[k + 1]]
           from == CHOOSE f : f = Body(f)
           zero == [k \in 1 .. Len(lines) + Len(old) |-> 0]
<1>3. \A k \in 1 .. n : ~OccursAt(lines, old, k) /\ k + 1 \in 1 .. N
  BY <1>1, <1>2
<1>4. zero = Body(zero)
  BY <1>1, <1>3
<1>5. from = Body(from)
  <2> HIDE DEF Body, zero
  <2> QED
    BY <1>4
<1>6. Matches(lines, old) = from[1]
  BY DEF Matches
<1> HIDE DEF from
<1>7. \A k \in 1 .. N : from[k] = IF k > n THEN 0 ELSE from[k + 1]
  BY <1>1, <1>3, <1>5
<1>8. ASSUME from[1] # 0
      PROVE  FALSE
  <2> DEFINE T == {d \in Nat : \E k \in 1 .. N : d + k = N /\ from[k] # 0}
  <2>1. T \subseteq Nat /\ N - 1 \in T
    BY <1>2, <1>8
  <2>2. PICK d \in T : \A e \in T : d <= e
    <3> HIDE DEF T
    <3> QED
      BY <2>1, NatLeast
  <2>3. PICK k \in 1 .. N : d + k = N /\ from[k] # 0
    OBVIOUS
  <2>4. k <= n /\ k + 1 \in 1 .. N /\ from[k + 1] # 0
    BY <1>1, <1>2, <1>7, <2>3
  <2>5. d - 1 \in Nat /\ (d - 1) + (k + 1) = N
    BY <2>3, <2>4
  <2>6. d - 1 \in T
    BY <2>4, <2>5
  <2>7. d <= d - 1
    <3> HIDE DEF T
    <3> QED
      BY <2>2, <2>6
  <2>8. d \in Nat
    OBVIOUS
  <2> HIDE DEF T
  <2> QED
    BY <2>7, <2>8
<1> QED
  BY <1>6, <1>8

LEMMA ReplacedIs ==
    ASSUME NEW t, TextOK(t), NEW old \in Seq(Words), old # <<>>,
           NEW new, new # <<>>, ContentOK(new, t.lines), Replaced(t, old, new).ok
    PROVE  \E at, s :
              /\ at \in DOMAIN t.lines
              /\ s = [start |-> at - 1, end |-> at + Len(old) - 1, content |-> new]
              /\ OccursAt(t.lines, old, at)
              /\ SpliceOK(s, t.lines)
              /\ Replaced(t, old, new).text = Reread(Spliced(s, t.lines), t.ends)
<1>1. PICK lines \in Seq(Line) : lines = t.lines
  BY DEF TextOK
<1>2. Matches(lines, old) = 1
  BY <1>1 DEF Replaced, Refused
<1>3. \E k \in DOMAIN lines : OccursAt(lines, old, k)
  <2>1. 0 # 1
    OBVIOUS
  <2> QED
    BY <1>2, <2>1, NoMatch
<1> DEFINE First(k) == OccursAt(lines, old, k) /\ \A j \in 1 .. k - 1 : ~OccursAt(lines, old, j)
           T == {k \in DOMAIN lines : OccursAt(lines, old, k)}
<1>4. \E k \in DOMAIN lines : First(k)
  <2>1. T \subseteq Nat /\ T # {}
    BY <1>3
  <2>2. PICK k \in T : \A e \in T : k <= e
    <3> HIDE DEF T
    <3> QED
      BY <2>1, NatLeast
  <2>3. k \in DOMAIN lines /\ OccursAt(lines, old, k)
    OBVIOUS
  <2>4. \A j \in 1 .. k - 1 : j \in DOMAIN lines /\ ~(k <= j)
    BY <2>3
  <2>5. \A j \in 1 .. k - 1 : ~OccursAt(lines, old, j)
    BY <2>2, <2>4
  <2> QED
    BY <2>3, <2>5
<1>5. PICK at : at = CHOOSE k \in DOMAIN lines : First(k)
  OBVIOUS
<1>6. at \in DOMAIN lines /\ OccursAt(lines, old, at)
  <2>1. at \in DOMAIN lines /\ First(at)
    <3> HIDE DEF First
    <3> QED
      BY <1>4, <1>5
  <2> QED
    BY <2>1
<1>7. PICK s : s = [start |-> at - 1, end |-> at + Len(old) - 1, content |-> new]
  OBVIOUS
<1>8. SpliceOK(s, lines)
  <2>1. Len(old) \in Nat /\ Len(old) > 0 /\ at \in 1 .. Len(lines) /\ Len(lines) \in Nat
    BY <1>6
  <2>2. at + Len(old) - 1 <= Len(lines)
    BY <1>6, <2>1 DEF OccursAt
  <2>3. s.start = at - 1 /\ s.end = at + Len(old) - 1 /\ s.content = new
    BY <1>7
  <2> QED
    BY <1>1, <2>1, <2>2, <2>3 DEF SpliceOK
<1>9. Replaced(t, old, new).text = Reread(Spliced(s, lines), t.ends)
  BY <1>1, <1>2, <1>5, <1>7 DEF Replaced
<1> QED
  BY <1>1, <1>6, <1>7, <1>8, <1>9

-----------------------------------------------------------------------------
(* Calls.                                                                  *)

CallOK(c) ==
    /\ c.pc \in {"idle", "loaded", "cut", "command"}
    /\ c.pc = "cut" => TextOK(c.out)
    /\ c.pc = "loaded" =>
          /\ TextOK(c.text)
          /\ \/ c.mode = "patch" /\ HunksOK(c.hunks, c.text.lines)
             \/ /\ c.mode = "string"
                /\ c.old \in Seq(Words) /\ c.old # <<>>
                /\ c.new # <<>> /\ ContentOK(c.new, c.text.lines)

\* The lines a loaded call would add.
Added(c) ==
    IF c.mode = "patch"
    THEN UNION {Range(c.hunks[k].content) : k \in {j \in DOMAIN c.hunks : c.hunks[j].content # Nothing}}
    ELSE Range(c.new)

LinesOf(c) ==
    IF c.pc = "loaded" THEN Range(c.text.lines) \union Added(c)
    ELSE IF c.pc = "cut" THEN Range(c.out.lines)
    ELSE {}

\* What an accepted edit makes of the text it has read.
EditIs(c, out) ==
    /\ out \in Seq(Line) /\ Distinct(out)
    /\ \A k \in DOMAIN c.text.lines : k \notin Spans(c) => Has(out, c.text.lines[k])
    /\ \A line \in Added(c) : Has(out, line)
    /\ \A j \in DOMAIN out : Has(c.text.lines, out[j]) \/ out[j] \in Added(c)

LEMMA StringEditIs ==
    ASSUME NEW c, CallOK(c), c.pc = "loaded", c.mode = "string", Edited(c).ok
    PROVE  \E out : EditIs(c, out) /\ out # <<>> /\ Edited(c).text = Reread(out, c.text.ends)
<1>1. /\ TextOK(c.text) /\ c.old \in Seq(Words) /\ c.old # <<>> /\ c.new # <<>>
      /\ ContentOK(c.new, c.text.lines)
      /\ c.text.lines \in Seq(Line) /\ Distinct(c.text.lines) /\ c.new \in Seq(Line)
  BY DEF CallOK, TextOK, ContentOK
<1>2. Edited(c) = Replaced(c.text, c.old, c.new)
  BY DEF Edited
<1>3. PICK lines, old : lines = c.text.lines /\ old = c.old
  OBVIOUS
<1>4. \E at, s :
          /\ at \in DOMAIN c.text.lines
          /\ s = [start |-> at - 1, end |-> at + Len(c.old) - 1, content |-> c.new]
          /\ OccursAt(c.text.lines, c.old, at)
          /\ SpliceOK(s, c.text.lines)
          /\ Replaced(c.text, c.old, c.new).text = Reread(Spliced(s, c.text.lines), c.text.ends)
  BY <1>1, <1>2, ReplacedIs
<1>5. PICK at, s :
          /\ at \in DOMAIN lines
          /\ s = [start |-> at - 1, end |-> at + Len(old) - 1, content |-> c.new]
          /\ OccursAt(lines, old, at)
          /\ SpliceOK(s, lines)
          /\ Replaced(c.text, c.old, c.new).text = Reread(Spliced(s, lines), c.text.ends)
  BY <1>3, <1>4
<1>5a. at \in DOMAIN lines
  BY <1>5
<1>6. s.start = at - 1 /\ s.end = at + Len(old) - 1 /\ s.content = c.new
  BY <1>5
<1>7. SpliceOK(s, lines) /\ Edited(c).text = Reread(Spliced(s, lines), c.text.ends)
  BY <1>2, <1>5
<1>8. PICK out : out = Spliced(s, lines)
  OBVIOUS
<1>9. /\ out \in Seq(Line) /\ Distinct(out)
      /\ \A k \in DOMAIN lines : k \notin s.start + 1 .. s.end => Has(out, lines[k])
      /\ \A k \in DOMAIN s.content : Has(out, s.content[k])
      /\ \A j \in DOMAIN out : Has(lines, out[j]) \/ Has(s.content, out[j])
  BY <1>1, <1>3, <1>7, <1>8, SplicedOnce
<1>10. ASSUME NEW k \in DOMAIN lines, k \in s.start + 1 .. s.end
       PROVE  k \in Spans(c)
  <2>1. PICK j \in DOMAIN old : k - j + 1 = at
    <3>1. k - at + 1 \in DOMAIN old /\ k - (k - at + 1) + 1 = at
      BY <1>1, <1>3, <1>5a, <1>6, <1>10
    <3> QED
      BY <3>1
  <2>2. k - j + 1 > 0 /\ OccursAt(lines, old, k - j + 1)
    BY <1>1, <1>3, <1>5, <2>1
  <2> QED
    BY <1>3, <2>1, <2>2 DEF Spans
<1>11. Added(c) = Range(c.new)
  BY DEF Added
<1>12. EditIs(c, out)
  BY <1>3, <1>6, <1>9, <1>10, <1>11 DEF EditIs, Range, Has
<1>13. out # <<>>
  <2>1. 1 \in DOMAIN c.new
    BY <1>1
  <2> QED
    BY <1>6, <1>9, <2>1 DEF Has
<1> QED
  BY <1>7, <1>8, <1>12, <1>13

\* The content of an accepted hunk's splice are the lines the hunk adds.
LEMMA AddsItsContent ==
    ASSUME NEW lines \in Seq(Line), NEW h, HunkOK(h, lines), Accepted(lines, h)
    PROVE  \A line : Has(Splice(lines, h).content, line)
                         <=> h.content # Nothing /\ line \in Range(h.content)
<1>1. PICK content : content = Splice(lines, h).content
  OBVIOUS
<1>2. content = IF h.content = Nothing THEN <<>> ELSE h.content
  BY <1>1, SpliceIsOK
<1>3. CASE h.content = Nothing
  <2>1. \A line : ~Has(content, line)
    BY <1>2, <1>3 DEF Has
  <2> QED
    BY <1>1, <1>3, <2>1
<1>4. CASE h.content # Nothing
  <2>1. \A line : Has(h.content, line) <=> line \in Range(h.content)
    BY DEF Has, Range
  <2> QED
    BY <1>1, <1>2, <1>4, <2>1
<1> QED
  BY <1>3, <1>4

LEMMA PatchEditIs ==
    ASSUME NEW c, CallOK(c), c.pc = "loaded", c.mode = "patch", Edited(c).ok
    PROVE  \E out : EditIs(c, out) /\ Edited(c).text = Reread(out, c.text.ends /\ ~IsBlank(out))
<1>1. TextOK(c.text) /\ HunksOK(c.hunks, c.text.lines)
  BY DEF CallOK
<1>2. PICK t, lines : t = c.text /\ lines = c.text.lines
  OBVIOUS
<1>3. TextOK(t) /\ lines = t.lines /\ lines \in Seq(Line) /\ Distinct(lines)
  BY <1>1, <1>2 DEF TextOK
<1>4. Edited(c) = Patched(t, c.hunks)
  BY <1>2 DEF Edited
<1>5. CASE \E h : c.hunks = <<h>> /\ HunkOK(h, c.text.lines)
  <2>1. PICK h : c.hunks = <<h>> /\ HunkOK(h, lines)
    BY <1>2, <1>5
  <2>2. DOMAIN c.hunks = {1} /\ c.hunks[1] = h
    BY <2>1
  <2>3. PICK s, out : s = Splice(lines, h) /\ out = Spliced(s, lines)
    OBVIOUS
  <2>4. Patched(t, <<h>>).ok
    BY <1>4, <2>1
  <2>5. /\ Accepted(lines, h) /\ SpliceOK(s, lines)
        /\ Patched(t, <<h>>).text = Reread(out, t.ends /\ ~IsBlank(out))
    BY <1>3, <2>1, <2>3, <2>4, PatchedOne
  <2>6. /\ out \in Seq(Line) /\ Distinct(out)
        /\ \A k \in DOMAIN lines : k \notin s.start + 1 .. s.end => Has(out, lines[k])
        /\ \A k \in DOMAIN s.content : Has(out, s.content[k])
        /\ \A j \in DOMAIN out : Has(lines, out[j]) \/ Has(s.content, out[j])
    BY <1>3, <2>3, <2>5, SplicedOnce
  <2>7. Spans(c) = s.start + 1 .. s.end
    BY <1>2, <2>2, <2>3 DEF Spans
  <2>8. \A line : line \in Added(c) <=> Has(s.content, line)
    <3>1. \A line : line \in Added(c) <=> h.content # Nothing /\ line \in Range(h.content)
      BY <2>2 DEF Added
    <3> QED
      BY <1>3, <2>1, <2>3, <2>5, <3>1, AddsItsContent
  <2>9. \A line : Has(s.content, line) => Has(out, line)
    BY <2>6 DEF Has
  <2>10. EditIs(c, out)
    BY <1>2, <2>6, <2>7, <2>8, <2>9 DEF EditIs
  <2> QED
    BY <1>2, <1>4, <2>1, <2>5, <2>10
<1>6. CASE \E g, h : /\ c.hunks = <<g, h>>
                     /\ HunkOK(g, c.text.lines) /\ HunkOK(h, c.text.lines)
                     /\ g.content # Nothing /\ h.content # Nothing => Apart(g.content, h.content)
  <2>1. PICK g, h : /\ c.hunks = <<g, h>>
                    /\ HunkOK(g, lines) /\ HunkOK(h, lines)
                    /\ g.content # Nothing /\ h.content # Nothing => Apart(g.content, h.content)
    BY <1>2, <1>6
  <2>2. DOMAIN c.hunks = {1, 2} /\ c.hunks[1] = g /\ c.hunks[2] = h
    BY <2>1
  <2>3. PICK p, q : p = Splice(lines, g) /\ q = Splice(lines, h)
    OBVIOUS
  <2>4. Patched(t, <<g, h>>).ok
    BY <1>4, <2>1
  <2>5. /\ Accepted(t.lines, g) /\ Accepted(t.lines, h)
        /\ \E a, b :
              /\ \/ a = Splice(t.lines, g) /\ b = Splice(t.lines, h)
                 \/ a = Splice(t.lines, h) /\ b = Splice(t.lines, g)
              /\ SpliceOK(a, t.lines) /\ SpliceOK(b, t.lines)
              /\ a.end <= b.start
              /\ LET out == Spliced(a, Spliced(b, t.lines))
                 IN  Patched(t, <<g, h>>).text = Reread(out, t.ends /\ ~IsBlank(out))
    BY <1>3, <2>1, <2>4, PatchedTwo
  <2>6. Accepted(lines, g) /\ Accepted(lines, h)
    BY <1>3, <2>5
  <2>7. PICK a, b :
           /\ (a = p /\ b = q) \/ (a = q /\ b = p)
           /\ SpliceOK(a, lines) /\ SpliceOK(b, lines)
           /\ a.end <= b.start
           /\ LET out == Spliced(a, Spliced(b, lines))
              IN  Patched(t, <<g, h>>).text = Reread(out, t.ends /\ ~IsBlank(out))
    BY <1>3, <2>3, <2>5
  <2>8. PICK out : out = Spliced(a, Spliced(b, lines))
    OBVIOUS
  <2>9. Patched(t, <<g, h>>).text = Reread(out, t.ends /\ ~IsBlank(out))
    BY <2>7, <2>8
  <2>10. Apart(p.content, q.content) /\ Apart(q.content, p.content)
    <3>1. /\ p.content = IF g.content = Nothing THEN <<>> ELSE g.content
          /\ q.content = IF h.content = Nothing THEN <<>> ELSE h.content
      BY <1>3, <2>1, <2>3, <2>6, SpliceIsOK
    <3>2. CASE g.content # Nothing /\ h.content # Nothing
      BY <2>1, <3>1, <3>2 DEF Apart
    <3>3. CASE ~(g.content # Nothing /\ h.content # Nothing)
      BY <3>1, <3>3 DEF Apart
    <3> QED
      BY <3>2, <3>3
  <2>11. Apart(a.content, b.content)
    BY <2>7, <2>10
  <2>12. /\ out \in Seq(Line) /\ Distinct(out)
         /\ \A k \in DOMAIN lines :
                k \notin (a.start + 1 .. a.end) \union (b.start + 1 .. b.end) => Has(out, lines[k])
         /\ \A k \in DOMAIN a.content : Has(out, a.content[k])
         /\ \A k \in DOMAIN b.content : Has(out, b.content[k])
         /\ \A j \in DOMAIN out :
                Has(lines, out[j]) \/ Has(a.content, out[j]) \/ Has(b.content, out[j])
    BY <1>3, <2>7, <2>8, <2>11, SplicedTwice
  <2>13. Spans(c) = (p.start + 1 .. p.end) \union (q.start + 1 .. q.end)
    <3>1. Splice(c.text.lines, c.hunks[1]) = p /\ Splice(c.text.lines, c.hunks[2]) = q
      BY <1>2, <2>2, <2>3
    <3>2. c.mode = "patch"
      BY <1>2
    <3> QED
      BY <2>2, <3>1, <3>2 DEF Spans
  <2>14. \A line : line \in Added(c) <=> Has(p.content, line) \/ Has(q.content, line)
    <3>1. \A line : line \in Added(c) <=> \/ g.content # Nothing /\ line \in Range(g.content)
                                          \/ h.content # Nothing /\ line \in Range(h.content)
      BY <2>2 DEF Added
    <3> QED
      BY <1>3, <2>1, <2>3, <2>6, <3>1, AddsItsContent
  <2>15. \A line : Has(a.content, line) \/ Has(b.content, line) => Has(out, line)
    BY <2>12 DEF Has
  <2>16. /\ \A line : line \in Added(c) <=> Has(a.content, line) \/ Has(b.content, line)
         /\ Spans(c) = (a.start + 1 .. a.end) \union (b.start + 1 .. b.end)
    BY <2>7, <2>13, <2>14
  <2>17. EditIs(c, out)
    BY <1>2, <2>12, <2>15, <2>16 DEF EditIs
  <2> QED
    BY <1>2, <1>4, <2>1, <2>9, <2>17
<1> QED
  BY <1>1, <1>5, <1>6 DEF HunksOK

\* What an accepted edit writes: lines it read and lines it adds, without those
\* it takes out, and with all the others.
LEMMA EditedOK ==
    ASSUME NEW c, CallOK(c), c.pc = "loaded", Edited(c).ok
    PROVE  LET t == Edited(c).text
           IN  /\ TextOK(t)
               /\ Range(t.lines) \subseteq LinesOf(c)
               /\ \A k \in DOMAIN c.text.lines :
                      k \notin Spans(c) /\ c.text.lines[k].word # Blank => c.text.lines[k].id \in Ids(t.lines)
               /\ Written(c) \subseteq Ids(t.lines)
<1>1. PICK out, ends :
         /\ ends \in BOOLEAN /\ (ends => out # <<>>)
         /\ EditIs(c, out) /\ Edited(c).text = Reread(out, ends)
  <2>1. CASE c.mode = "string"
    <3>1. PICK out : EditIs(c, out) /\ out # <<>> /\ Edited(c).text = Reread(out, c.text.ends)
      BY <2>1, StringEditIs
    <3>2. c.text.ends \in BOOLEAN
      BY DEF CallOK, TextOK
    <3> QED
      BY <3>1, <3>2, Zenon
  <2>2. CASE c.mode = "patch"
    <3>1. PICK out : EditIs(c, out) /\ Edited(c).text = Reread(out, c.text.ends /\ ~IsBlank(out))
      BY <2>2, PatchEditIs
    <3>2. PICK ends : ends = (c.text.ends /\ ~IsBlank(out))
      OBVIOUS
    <3>3. ends \in BOOLEAN /\ (ends => out # <<>>)
      BY <3>2 DEF IsBlank
    <3> QED
      BY <3>1, <3>2, <3>3, Zenon
  <2> QED
    BY <2>1, <2>2 DEF CallOK
<1>2. PICK t : t = Edited(c).text
  OBVIOUS
<1>3. out \in Seq(Line) /\ Distinct(out)
  BY <1>1 DEF EditIs
<1>4. /\ TextOK(t)
      /\ \A k \in DOMAIN t.lines : k \in DOMAIN out /\ t.lines[k] = out[k]
      /\ \A k \in DOMAIN out : out[k].word # Blank => k \in DOMAIN t.lines /\ t.lines[k] = out[k]
  BY <1>1, <1>2, <1>3, RereadOK
<1>5. \A line : line.word # Blank /\ Has(out, line) => line.id \in Ids(t.lines)
  BY <1>4 DEF Has, Ids
<1>6. Range(t.lines) \subseteq LinesOf(c)
  BY <1>1, <1>4 DEF EditIs, LinesOf, Has, Range
<1>7. \A k \in DOMAIN c.text.lines :
          k \notin Spans(c) /\ c.text.lines[k].word # Blank => c.text.lines[k].id \in Ids(t.lines)
  BY <1>1, <1>5 DEF EditIs
<1>8. ASSUME NEW id \in Written(c)
      PROVE  id \in Ids(t.lines)
  <2>1. PICK line \in Added(c) : line.word # Blank /\ id = line.id
    <3>1. CASE c.mode = "patch"
      BY <1>8, <3>1 DEF Written, Added, Solid
    <3>2. CASE c.mode # "patch"
      BY <1>8, <3>2 DEF Written, Added, Solid
    <3> QED
      BY <3>1, <3>2
  <2> QED
    BY <1>1, <1>5, <2>1 DEF EditIs
<1> QED
  BY <1>2, <1>4, <1>6, <1>7, <1>8

-----------------------------------------------------------------------------
(* The inductive invariant.                                                *)

ShownLines == UNION {Range(view[a]) : a \in Agents}

CalledLines == UNION {LinesOf(call[a]) : a \in Agents}

\* The lines that are somewhere: in the file, shown, read, to be written.
AllLines == Range(text.lines) \union ShownLines \union CalledLines

Shapes ==
    /\ TextOK(text)
    /\ view \in [Agents -> Seq(Line)]
    /\ call = [a \in Agents |-> call[a]]
    /\ \A a \in Agents : CallOK(call[a])
    /\ calls \in 0 .. MaxCalls /\ outside \in 0 .. MaxOutside
    /\ next \in Nat

\* An id stands for one line, wherever the line is.
OneLinePerId ==
    /\ AllLines \subseteq Line
    /\ \A line \in AllLines : line.id < next
    /\ \A l, m \in AllLines : l.id = m.id => l = m

\* The hash of an anchor is that of the line it was taken from.
AnchorsAreTrue ==
    \A a \in Agents : Patching(a) =>
        \A anchor \in LineAnchors(call[a].hunks) : anchor.line # Top =>
            /\ anchor.id \in Nat /\ anchor.id < next
            /\ \A l \in AllLines : l.id = anchor.id => LineHash[l.word] = anchor.hash

OwedAreSolid ==
    /\ \A id \in owed : id \in Nat /\ id < next
    /\ \A l \in AllLines : l.id \in owed => l.word # Blank

WorkspaceInv == Shapes /\ OneLinePerId /\ AnchorsAreTrue /\ OwedAreSolid /\ LinesLeaveOnPurpose

\* Lines that appear: their ids are new, and of one line each.
NewLines(new) ==
    /\ new \subseteq Line
    /\ \A l \in new : next <= l.id /\ l.id < next'
    /\ \A l, m \in new : l.id = m.id => l = m

Appear(new) ==
    /\ next \in Nat /\ next' \in Nat /\ next <= next'
    /\ NewLines(new)
    /\ Range(text'.lines) \subseteq AllLines \union new
    /\ \A a \in Agents : Range(view'[a]) \subseteq AllLines \union new
    /\ \A a \in Agents : LinesOf(call'[a]) \subseteq AllLines \union new

LEMMA AppearAll == ASSUME NEW new, Appear(new) PROVE AllLines' \subseteq AllLines \union new
<1>1. PICK all : all = AllLines \union new
  OBVIOUS
<1>2. Range(text'.lines) \subseteq all
  BY <1>1 DEF Appear
<1>3. ShownLines' \subseteq all
  BY <1>1 DEF Appear, ShownLines
<1>4. CalledLines' \subseteq all
  BY <1>1 DEF Appear, CalledLines
<1> QED
  BY <1>1, <1>2, <1>3, <1>4 DEF AllLines

LEMMA LinesAreKnown ==
    /\ Range(text.lines) \subseteq AllLines
    /\ \A a \in Agents : Range(view[a]) \subseteq AllLines
    /\ \A a \in Agents : LinesOf(call[a]) \subseteq AllLines
<1>1. \A a \in Agents : Range(view[a]) \subseteq ShownLines
  BY DEF ShownLines
<1>2. \A a \in Agents : LinesOf(call[a]) \subseteq CalledLines
  BY DEF CalledLines
<1> QED
  BY <1>1, <1>2 DEF AllLines

LEMMA IdsStayUnique ==
    ASSUME OneLinePerId, NEW new, Appear(new)
    PROVE  OneLinePerId'
<1>1. AllLines' \subseteq AllLines \union new
  BY AppearAll
<1>2. PICK old : old = AllLines
  OBVIOUS
<1>3. /\ old \subseteq Line
      /\ \A line \in old : line.id < next
      /\ \A l, m \in old : l.id = m.id => l = m
  BY <1>2 DEF OneLinePerId
<1>4. /\ new \subseteq Line /\ next \in Nat /\ next' \in Nat /\ next <= next'
      /\ \A l \in new : next <= l.id /\ l.id < next'
      /\ \A l, m \in new : l.id = m.id => l = m
  BY DEF Appear, NewLines
<1>5. \A line \in Line : line.id \in Nat
  BY DEF Line
<1>6. \A l \in old, m \in new : l.id # m.id
  BY <1>3, <1>4, <1>5
<1>7. \A line \in old : line.id < next'
  BY <1>3, <1>4, <1>5
<1> QED
  BY <1>1, <1>2, <1>3, <1>4, <1>6, <1>7 DEF OneLinePerId

LEMMA OwedStaySolid ==
    ASSUME OneLinePerId, OwedAreSolid, NEW new, Appear(new),
           \A id \in owed' : id \in owed \/ \E l \in AllLines \union new : l.id = id /\ l.word # Blank
    PROVE  OwedAreSolid'
<1>1. AllLines' \subseteq AllLines \union new
  BY AppearAll
<1>2. PICK old : old = AllLines
  OBVIOUS
<1>3. \A line \in old : line \in Line /\ line.id < next
  BY <1>2 DEF OneLinePerId
<1>4. /\ new \subseteq Line /\ next \in Nat /\ next' \in Nat /\ next <= next'
      /\ \A l \in new : next <= l.id /\ l.id < next'
      /\ \A l, m \in new : l.id = m.id => l = m
  BY DEF Appear, NewLines
<1>5. \A line \in Line : line.id \in Nat
  BY DEF Line
<1>6. /\ \A id \in owed : id \in Nat /\ id < next
      /\ \A l \in old : l.id \in owed => l.word # Blank
  BY <1>2 DEF OwedAreSolid
<1>7. \A id \in owed' : id \in Nat /\ id < next'
  <2>1. \A l \in old \union new : l.id \in Nat /\ l.id < next'
    BY <1>3, <1>4, <1>5
  <2> QED
    BY <1>2, <1>4, <1>6, <2>1
<1>8. \A l, m \in old \union new : l.id = m.id => l = m
  <2>1. \A l \in old, m \in new : l.id # m.id
    BY <1>3, <1>4, <1>5
  <2>2. \A l, m \in old : l.id = m.id => l = m
    BY <1>2 DEF OneLinePerId
  <2> QED
    BY <1>4, <2>1, <2>2
<1>9. ASSUME NEW l \in AllLines', l.id \in owed'
      PROVE  l.word # Blank
  <2>1. l \in old \union new
    BY <1>1, <1>2
  <2>2. CASE l.id \in owed
    <3>1. \A m \in new : m.id \notin owed
      BY <1>4, <1>5, <1>6
    <3> QED
      BY <1>6, <2>1, <2>2, <3>1
  <2>3. CASE \E m \in old \union new : m.id = l.id /\ m.word # Blank
    BY <1>8, <2>1, <2>3
  <2> QED
    BY <1>2, <1>9, <2>2, <2>3
<1> QED
  BY <1>7, <1>9 DEF OwedAreSolid

\* The anchors of a patch are those it was loaded with, or name lines as they
\* are now.
LEMMA AnchorsStayTrue ==
    ASSUME OneLinePerId, AnchorsAreTrue, NEW new, Appear(new),
           \A a \in Agents :
              \/ ~(Patching(a)')
              \/ Patching(a) /\ call'[a] = call[a]
              \/ \A anchor \in LineAnchors(call'[a].hunks) : anchor.line # Top =>
                    \E l \in AllLines : anchor.id = l.id /\ anchor.hash = LineHash[l.word]
    PROVE  AnchorsAreTrue'
<1>1. AllLines' \subseteq AllLines \union new
  BY AppearAll
<1>2. PICK old : old = AllLines
  OBVIOUS
<1>3. /\ \A line \in old : line \in Line /\ line.id < next
      /\ \A l, m \in old : l.id = m.id => l = m
  BY <1>2 DEF OneLinePerId
<1>4. /\ new \subseteq Line /\ next \in Nat /\ next' \in Nat /\ next <= next'
      /\ \A l \in new : next <= l.id /\ l.id < next'
  BY DEF Appear, NewLines
<1>5. \A line \in Line : line.id \in Nat
  BY DEF Line
<1>6. SUFFICES ASSUME NEW a \in Agents, Patching(a)',
                      NEW anchor \in LineAnchors(call'[a].hunks), anchor.line # Top
               PROVE  /\ anchor.id \in Nat /\ anchor.id < next'
                      /\ \A l \in AllLines' : l.id = anchor.id => LineHash[l.word] = anchor.hash
  BY DEF AnchorsAreTrue
<1>7. /\ anchor.id \in Nat /\ anchor.id < next
      /\ \A l \in old : l.id = anchor.id => LineHash[l.word] = anchor.hash
  <2>1. CASE Patching(a) /\ call'[a] = call[a]
    BY <1>2, <1>6, <2>1 DEF AnchorsAreTrue
  <2>2. CASE \E l \in old : anchor.id = l.id /\ anchor.hash = LineHash[l.word]
    <3>1. PICK l \in old : anchor.id = l.id /\ anchor.hash = LineHash[l.word]
      BY <2>2
    <3> QED
      BY <1>3, <1>5, <3>1
  <2> QED
    BY <1>2, <1>6, <2>1, <2>2
<1>8. \A l \in new : l.id # anchor.id
  BY <1>4, <1>5, <1>7
<1>9. anchor.id < next'
  BY <1>4, <1>7
<1> QED
  BY <1>1, <1>2, <1>7, <1>8, <1>9

-----------------------------------------------------------------------------
(* The lines a call brings.                                                *)

LEMMA MaxWordsIs == MaxWords \in Nat BY WorkspaceAssumption

LEMMA FreshIs ==
    ASSUME NEW words \in Contents, next \in Nat, NEW from \in Nat,
           NEW lines, lines = [k \in DOMAIN words |-> [id |-> from + k - 1, word |-> words[k]]]
    PROVE  /\ lines \in Seq(Line) /\ lines # <<>> /\ Distinct(lines)
           /\ \A l \in Range(lines) : l \in Line /\ from <= l.id /\ l.id < from + MaxWords
           /\ \A l, m \in Range(lines) : l.id = m.id => l = m
<1>1. words \in Seq(Words) /\ Len(words) \in 1 .. MaxWords
  BY WorkspaceAssumption
<1>2. PICK n \in 1 .. MaxWords : n = Len(words) /\ DOMAIN words = 1 .. n
  BY <1>1
<1>3. lines \in [1 .. n -> Line]
  BY <1>1, <1>2 DEF Line
<1>4. lines \in Seq(Line) /\ DOMAIN lines = 1 .. n /\ lines # <<>>
  BY <1>2, <1>3
<1>5. \A k \in 1 .. n : lines[k].id = from + k - 1
  BY <1>2
<1>6. \A k \in 1 .. n : from <= lines[k].id /\ lines[k].id < from + MaxWords
  BY <1>2, <1>5, MaxWordsIs
<1>7. Distinct(lines)
  <2> SUFFICES ASSUME NEW j \in 1 .. n, NEW k \in 1 .. n, lines[j].id = lines[k].id
               PROVE  j = k
    BY <1>4 DEF Distinct
  <2>1. j \in Nat /\ k \in Nat /\ from + j - 1 = from + k - 1
    BY <1>5
  <2> QED
    BY <2>1
<1>8. \A l \in Range(lines) : l \in Line /\ from <= l.id /\ l.id < from + MaxWords
  <2> SUFFICES ASSUME NEW k \in 1 .. n
               PROVE  lines[k] \in Line /\ from <= lines[k].id /\ lines[k].id < from + MaxWords
    BY <1>4 DEF Range
  <2> QED
    BY <1>3, <1>6
<1>9. \A l, m \in Range(lines) : l.id = m.id => l = m
  BY <1>4, <1>7 DEF Distinct, Range
<1> QED
  BY <1>4, <1>7, <1>8, <1>9

\* A content a hunk may have: the lines of a call, numbered from a new id.
ContentFrom(content, from) ==
    \E words \in Contents :
        content = [k \in DOMAIN words |-> [id |-> from + k - 1, word |-> words[k]]]

HunkFrom(h, shown, from) ==
    /\ h.op \in {"insert_after", "replace", "delete"}
    /\ h.content # Nothing => ContentFrom(h.content, from)
    /\ h.anchor = TopOfFile \/ \E k \in DOMAIN shown : h.anchor = Anchor(shown, k)
    /\ h.to # Nothing => \E k \in DOMAIN shown : h.to = Anchor(shown, k)

LEMMA HunksAre ==
    ASSUME NEW shown, NEW h \in Hunks(shown)
    PROVE  HunkFrom(h, shown, next)
<1> DEFINE anchors  == {Anchor(shown, k) : k \in DOMAIN shown}
           contents == {Fresh(words) : words \in Contents}
<1>1. /\ h.op \in {"insert_after", "replace", "delete"}
      /\ h.anchor \in anchors \union {TopOfFile}
      /\ h.to \in anchors \union {Nothing}
      /\ h.content \in contents \union {Nothing}
  <2> HIDE DEF anchors, contents
  <2>1. CASE h \in [op : {"insert_after"}, anchor : anchors \union {TopOfFile}, to : {Nothing}, content : contents]
    BY <2>1
  <2>2. CASE h \in [op : {"replace"}, anchor : anchors, to : anchors \union {Nothing}, content : contents]
    BY <2>2
  <2>3. CASE h \in [op : {"delete"}, anchor : anchors, to : anchors \union {Nothing}, content : {Nothing}]
    BY <2>3
  <2> QED
    BY <2>1, <2>2, <2>3 DEF Hunks, anchors, contents
<1>2. h.content # Nothing => ContentFrom(h.content, next)
  BY <1>1 DEF ContentFrom, Fresh
<1> QED
  BY <1>1, <1>2 DEF HunkFrom

LEMMA RenumberedIs ==
    ASSUME NEW shown, NEW h, HunkFrom(h, shown, next), next \in Nat,
           NEW S, NEW T, NEW U, NEW V, h \in [op : S, anchor : T, to : U, content : V]
    PROVE  HunkFrom(Renumbered(h), shown, next + MaxWords)
<1>1. CASE h.content = Nothing
  BY <1>1 DEF Renumbered, HunkFrom
<1>2. CASE h.content # Nothing
  <2>1. PICK words \in Contents :
            h.content = [k \in DOMAIN words |-> [id |-> next + k - 1, word |-> words[k]]]
    BY <1>2 DEF HunkFrom, ContentFrom
  <2>2. PICK later : later = [k \in DOMAIN h.content |-> [h.content[k] EXCEPT !.id = @ + MaxWords]]
    OBVIOUS
  <2>3. Renumbered(h) = [h EXCEPT !.content = later]
    BY <1>2, <2>2 DEF Renumbered
  <2>4. /\ Renumbered(h).content = later /\ Renumbered(h).op = h.op
        /\ Renumbered(h).anchor = h.anchor /\ Renumbered(h).to = h.to
    BY <2>3
  <2>5. DOMAIN words \subseteq Nat
    BY WorkspaceAssumption
  <2>6. \A k \in DOMAIN words : [h.content[k] EXCEPT !.id = @ + MaxWords] = [id |-> (next + MaxWords) + k - 1, word |-> words[k]]
    BY <2>1, <2>5, MaxWordsIs
  <2>7. later = [k \in DOMAIN words |-> [id |-> (next + MaxWords) + k - 1, word |-> words[k]]]
    BY <2>1, <2>2, <2>6
  <2>8. ContentFrom(later, next + MaxWords)
    BY <2>7 DEF ContentFrom
  <2> QED
    BY <2>4, <2>8 DEF HunkFrom
<1> QED
  BY <1>1, <1>2

\* What edit_file may be asked to do with the lines that were shown: hunks that
\* fit the text it reads, new lines, and anchors that name lines as they are.
LEMMA PatchesAre ==
    ASSUME Shapes, OneLinePerId, NEW a \in Agents, NEW hunks \in Patches(view[a])
    PROVE  LET new == UNION {Range(hunks[k].content) : k \in {j \in DOMAIN hunks : hunks[j].content # Nothing}}
           IN  /\ HunksOK(hunks, text.lines)
               /\ new \subseteq Line
               /\ \A l \in new : next <= l.id /\ l.id < next + 2 * MaxWords
               /\ \A l, m \in new : l.id = m.id => l = m
               /\ \A anchor \in LineAnchors(hunks) : anchor.line # Top =>
                     \E l \in AllLines : anchor.id = l.id /\ anchor.hash = LineHash[l.word]
<1>1. PICK shown, lines : shown = view[a] /\ lines = text.lines
  OBVIOUS
<1>2. /\ next \in Nat /\ shown \in Seq(Line) /\ lines \in Seq(Line)
      /\ \A k \in DOMAIN shown : shown[k] \in AllLines
      /\ \A k \in DOMAIN lines : lines[k] \in AllLines
  <2>1. next \in Nat /\ shown \in Seq(Line) /\ lines \in Seq(Line)
    BY <1>1 DEF Shapes, TextOK
  <2>2. Range(shown) \subseteq AllLines /\ Range(lines) \subseteq AllLines
    BY <1>1, LinesAreKnown
  <2>3. /\ \A k \in DOMAIN shown : shown[k] \in Range(shown)
        /\ \A k \in DOMAIN lines : lines[k] \in Range(lines)
    BY DEF Range
  <2> QED
    BY <2>1, <2>2, <2>3
<1>3. \A k \in DOMAIN lines : lines[k].id \in Nat /\ lines[k].id < next
  BY <1>2 DEF OneLinePerId, Line
<1>4. ASSUME NEW content, NEW from \in {next, next + MaxWords}, ContentFrom(content, from)
      PROVE  /\ ContentOK(content, lines)
             /\ \A l \in Range(content) : l \in Line /\ from <= l.id /\ l.id < from + MaxWords
             /\ \A l, m \in Range(content) : l.id = m.id => l = m
  <2>1. PICK words \in Contents : content = [k \in DOMAIN words |-> [id |-> from + k - 1, word |-> words[k]]]
    BY <1>4 DEF ContentFrom
  <2>2. from \in Nat /\ next <= from
    BY <1>2, <1>4, MaxWordsIs
  <2>3. /\ content \in Seq(Line) /\ Distinct(content)
        /\ \A l \in Range(content) : l \in Line /\ from <= l.id /\ l.id < from + MaxWords
        /\ \A l, m \in Range(content) : l.id = m.id => l = m
    BY <1>2, <2>1, <2>2, FreshIs
  <2>4. Apart(content, lines)
    <3>1. SUFFICES ASSUME NEW j \in DOMAIN content, NEW k \in DOMAIN lines
                   PROVE  content[j].id # lines[k].id
      BY DEF Apart
    <3>2. content[j] \in Range(content)
      BY DEF Range
    <3>3. content[j].id \in Nat /\ from <= content[j].id
      BY <2>3, <3>2 DEF Line
    <3> QED
      BY <1>2, <1>3, <2>2, <3>3
  <2> QED
    BY <2>3, <2>4 DEF ContentOK
<1>5. ASSUME NEW h, NEW from \in {next, next + MaxWords}, HunkFrom(h, shown, from)
      PROVE  /\ HunkOK(h, lines)
             /\ h.content # Nothing =>
                   /\ \A l \in Range(h.content) : l \in Line /\ from <= l.id /\ l.id < from + MaxWords
                   /\ \A l, m \in Range(h.content) : l.id = m.id => l = m
             /\ \A anchor : (anchor = h.anchor \/ (anchor = h.to /\ h.to # Nothing)) /\ anchor.line # Top =>
                     \E l \in AllLines : anchor.id = l.id /\ anchor.hash = LineHash[l.word]
  <2>1. HunkOK(h, lines)
    BY <1>4, <1>5 DEF HunkOK, HunkFrom
  <2>2. h.content # Nothing =>
           /\ \A l \in Range(h.content) : l \in Line /\ from <= l.id /\ l.id < from + MaxWords
           /\ \A l, m \in Range(h.content) : l.id = m.id => l = m
    BY <1>4, <1>5 DEF HunkFrom
  <2>3. ASSUME NEW anchor, anchor = h.anchor \/ (anchor = h.to /\ h.to # Nothing), anchor.line # Top
        PROVE  \E l \in AllLines : anchor.id = l.id /\ anchor.hash = LineHash[l.word]
    <3>1. anchor # TopOfFile
      BY <2>3 DEF TopOfFile
    <3>2. PICK k \in DOMAIN shown : anchor = Anchor(shown, k)
      BY <1>5, <2>3, <3>1 DEF HunkFrom
    <3> QED
      BY <1>2, <3>2 DEF Anchor
  <2> QED
    BY <2>1, <2>2, <2>3
<1>6. \/ \E h : hunks = <<h>> /\ HunkFrom(h, shown, next)
      \/ \E g, h : hunks = <<g, h>> /\ HunkFrom(g, shown, next) /\ HunkFrom(h, shown, next + MaxWords)
  <2>1. \A h \in Hunks(shown) : HunkFrom(h, shown, next)
    BY HunksAre
  <2>2. \A h \in Hunks(shown) : HunkFrom(Renumbered(h), shown, next + MaxWords)
    <3> SUFFICES ASSUME NEW h \in Hunks(shown)
                 PROVE  HunkFrom(Renumbered(h), shown, next + MaxWords)
      OBVIOUS
    <3>1. \E S, T, U, V : h \in [op : S, anchor : T, to : U, content : V]
      BY DEF Hunks
    <3> QED
      BY <1>2, <2>1, <3>1, RenumberedIs
  <2>3. \/ \E h \in Hunks(shown) : hunks = <<h>>
        \/ \E g \in Hunks(shown), h \in Hunks(shown) : hunks = <<g, Renumbered(h)>>
    BY <1>1 DEF Patches
  <2> QED
    BY <2>1, <2>2, <2>3
<1>7. PICK new : new = UNION {Range(hunks[k].content) : k \in {j \in DOMAIN hunks : hunks[j].content # Nothing}}
  OBVIOUS
<1>8. CASE \E h : hunks = <<h>> /\ HunkFrom(h, shown, next)
  <2>1. PICK h : hunks = <<h>> /\ HunkFrom(h, shown, next)
    BY <1>8
  <2>2. DOMAIN hunks = {1} /\ hunks[1] = h
    BY <2>1
  <2>3. \A l \in new : h.content # Nothing /\ l \in Range(h.content)
    BY <1>7, <2>2
  <2>4. \A anchor \in LineAnchors(hunks) : anchor = h.anchor \/ (anchor = h.to /\ h.to # Nothing)
    BY <2>2 DEF LineAnchors
  <2>5. HunksOK(hunks, lines)
    BY <1>5, <2>1 DEF HunksOK
  <2>6. \A l \in new : l \in Line /\ next <= l.id /\ l.id < next + 2 * MaxWords
    BY <1>2, <1>5, <2>1, <2>3, MaxWordsIs DEF Line
  <2>7. \A l, m \in new : l.id = m.id => l = m
    BY <1>5, <2>1, <2>3
  <2> QED
    BY <1>1, <1>5, <1>7, <2>1, <2>4, <2>5, <2>6, <2>7
<1>9. CASE \E g, h : hunks = <<g, h>> /\ HunkFrom(g, shown, next) /\ HunkFrom(h, shown, next + MaxWords)
  <2>1. PICK g, h : hunks = <<g, h>> /\ HunkFrom(g, shown, next) /\ HunkFrom(h, shown, next + MaxWords)
    BY <1>9
  <2>2. DOMAIN hunks = {1, 2} /\ hunks[1] = g /\ hunks[2] = h
    BY <2>1
  <2>3. \A l \in new : \/ g.content # Nothing /\ l \in Range(g.content)
                       \/ h.content # Nothing /\ l \in Range(h.content)
    BY <1>7, <2>2
  <2>4. \A anchor \in LineAnchors(hunks) :
            \/ anchor = g.anchor \/ (anchor = g.to /\ g.to # Nothing)
            \/ anchor = h.anchor \/ (anchor = h.to /\ h.to # Nothing)
    BY <2>2 DEF LineAnchors
  <2>5. /\ g.content # Nothing => \A l \in Range(g.content) : l \in Line /\ l.id \in Nat /\ next <= l.id /\ l.id < next + MaxWords
        /\ h.content # Nothing => \A l \in Range(h.content) : l \in Line /\ l.id \in Nat /\ next + MaxWords <= l.id /\ l.id < next + 2 * MaxWords
    BY <1>2, <1>5, <2>1, MaxWordsIs DEF Line
  <2>6. g.content # Nothing /\ h.content # Nothing =>
            \A l \in Range(g.content), m \in Range(h.content) : l.id # m.id
    BY <1>2, <2>5, MaxWordsIs
  <2>7. HunksOK(hunks, lines)
    <3>1. g.content # Nothing /\ h.content # Nothing => Apart(g.content, h.content)
      BY <2>6 DEF Apart, Range
    <3> QED
      BY <1>5, <2>1, <3>1 DEF HunksOK
  <2>8. \A l \in new : l \in Line /\ next <= l.id /\ l.id < next + 2 * MaxWords
    BY <1>2, <2>3, <2>5, MaxWordsIs
  <2>9. \A l, m \in new : l.id = m.id => l = m
    BY <1>5, <2>1, <2>3, <2>6
  <2> QED
    BY <1>1, <1>5, <1>7, <2>1, <2>4, <2>7, <2>8, <2>9
<1> QED
  BY <1>6, <1>8, <1>9

-----------------------------------------------------------------------------
(* Steps.                                                                  *)

\* What a step of a does to the calls of the others.
Moves(a, c) ==
    /\ call' = [call EXCEPT ![a] = c]
    /\ CallOK(c)

LEMMA MovesIs ==
    ASSUME Shapes, NEW a \in Agents, NEW c, Moves(a, c)
    PROVE  /\ call' = [b \in Agents |-> call'[b]]
           /\ call'[a] = c
           /\ \A b \in Agents : b # a => call'[b] = call[b]
           /\ \A b \in Agents : CallOK(call'[b])
  BY DEF Shapes, Moves

\* Nothing new: what a call does that only gives it up, or only begins it.
LEMMA NothingNew ==
    ASSUME Shapes, NEW new, new = {}, next' \in Nat, next <= next',
           Range(text'.lines) \subseteq AllLines,
           \A a \in Agents : Range(view'[a]) \subseteq AllLines,
           \A a \in Agents : LinesOf(call'[a]) \subseteq AllLines
    PROVE  Appear(new)
BY DEF Shapes, Appear, NewLines

\* The part of the invariant a step with new lines keeps whatever it does.
LEMMA StepKeepsLines ==
    ASSUME WorkspaceInv, NEW new, Appear(new),
           \A id \in owed' : id \in owed \/ \E l \in AllLines \union new : l.id = id /\ l.word # Blank,
           \A a \in Agents :
              \/ ~(Patching(a)')
              \/ Patching(a) /\ call'[a] = call[a]
              \/ \A anchor \in LineAnchors(call'[a].hunks) : anchor.line # Top =>
                    \E l \in AllLines : anchor.id = l.id /\ anchor.hash = LineHash[l.word]
    PROVE  OneLinePerId' /\ OwedAreSolid' /\ AnchorsAreTrue'
<1>1. OneLinePerId'
  BY IdsStayUnique DEF WorkspaceInv
<1>2. OwedAreSolid'
  BY OwedStaySolid DEF WorkspaceInv
<1>3. AnchorsAreTrue'
  BY AnchorsStayTrue DEF WorkspaceInv
<1> QED
  BY <1>1, <1>2, <1>3

\* A line that is in the file, or in a write that has truncated it.
Kept(id, t, c) ==
    \/ id \in Ids(t.lines)
    \/ \E a \in Agents : c[a].pc = "cut" /\ id \in Ids(c[a].out.lines)

LEMMA LeaveIs ==
    /\ LinesLeaveOnPurpose <=> (~raced /\ ~torn => \A id \in owed : Kept(id, text, call))
    /\ LinesLeaveOnPurpose' <=> (~raced' /\ ~torn' => \A id \in owed' : Kept(id, text', call'))
<1>1. \A id : Kept(id, text, call) <=>
              id \in Ids(text.lines) \union UNION {Ids(call[a].out.lines) : a \in {b \in Agents : At(b, "cut")}}
  BY DEF Kept, At
<1>2. \A id : Kept(id, text', call') <=>
              id \in Ids(text'.lines) \union UNION {Ids(call'[a].out.lines) : a \in {b \in Agents : At(b, "cut")'}}
  BY DEF Kept, At
<1> QED
  BY <1>1, <1>2 DEF LinesLeaveOnPurpose

LEMMA StepKeepsAll ==
    ASSUME WorkspaceInv, NEW new, Appear(new), Shapes',
           \A id \in owed' : id \in owed \/ \E l \in AllLines \union new : l.id = id /\ l.word # Blank,
           \A a \in Agents :
              \/ ~(Patching(a)')
              \/ Patching(a) /\ call'[a] = call[a]
              \/ \A anchor \in LineAnchors(call'[a].hunks) : anchor.line # Top =>
                    \E l \in AllLines : anchor.id = l.id /\ anchor.hash = LineHash[l.word],
           ~raced' /\ ~torn' => \A id \in owed' : Kept(id, text', call')
    PROVE  WorkspaceInv'
<1>1. OneLinePerId' /\ OwedAreSolid' /\ AnchorsAreTrue'
  BY StepKeepsLines
<1>2. LinesLeaveOnPurpose'
  BY LeaveIs
<1> QED
  BY <1>1, <1>2 DEF WorkspaceInv

\* Looking shows lines of the file.
LEMMA LookingKeeps ==
    ASSUME WorkspaceInv, NEW a \in Agents,
           view' = view \/ view' = [view EXCEPT ![a] = text.lines],
           UNCHANGED <<text, call, calls, outside, next, owed, raced, torn>>
    PROVE  WorkspaceInv'
<1>1. Shapes
  BY DEF WorkspaceInv
<1>2. \A b \in Agents : view'[b] = view[b] \/ view'[b] = text.lines
  BY <1>1 DEF Shapes
<1>3. Shapes'
  <2>1. view' \in [Agents -> Seq(Line)]
    BY <1>1 DEF Shapes, TextOK
  <2> QED
    BY <1>1, <2>1 DEF Shapes
<1>4. PICK new : new = {}
  OBVIOUS
<1>5. Appear(new)
  <2>1. \A b \in Agents : Range(view'[b]) \subseteq AllLines
    BY <1>2, LinesAreKnown
  <2>2. next' \in Nat /\ next <= next'
    BY <1>1 DEF Shapes
  <2> QED
    BY <1>1, <1>4, <2>1, <2>2, LinesAreKnown, NothingNew
<1>6. ~raced' /\ ~torn' => \A id \in owed' : Kept(id, text', call')
  BY LeaveIs DEF WorkspaceInv
<1>7. \A b \in Agents : Patching(b)' => Patching(b) /\ call'[b] = call[b]
  BY DEF Patching, At
<1> QED
  BY <1>3, <1>5, <1>6, <1>7, StepKeepsAll

\* A call that begins has read the file, or is a command; it has not cut it.
LEMMA BeginningKeeps ==
    ASSUME WorkspaceInv, NEW a \in Agents, NEW c, Moves(a, c), call[a].pc = "idle", c.pc # "cut",
           calls < MaxCalls, calls' = calls + 1, UNCHANGED <<text, view, outside, owed, raced, torn>>,
           next' \in Nat, next <= next', NEW new, NewLines(new), LinesOf(c) \subseteq AllLines \union new,
           c.pc = "loaded" /\ c.mode = "patch" =>
               \A anchor \in LineAnchors(c.hunks) : anchor.line # Top =>
                    \E l \in AllLines : anchor.id = l.id /\ anchor.hash = LineHash[l.word]
    PROVE  WorkspaceInv'
<1>1. Shapes
  BY DEF WorkspaceInv
<1>2. /\ call' = [b \in Agents |-> call'[b]]
      /\ call'[a] = c
      /\ \A b \in Agents : b # a => call'[b] = call[b]
      /\ \A b \in Agents : CallOK(call'[b])
  BY <1>1, MovesIs
<1>3. Shapes'
  <2>1. calls' \in 0 .. MaxCalls
    BY <1>1, WorkspaceAssumption DEF Shapes
  <2> QED
    BY <1>1, <1>2, <2>1 DEF Shapes
<1>4. Appear(new)
  <2>1. \A b \in Agents : LinesOf(call'[b]) \subseteq AllLines \union new
    BY <1>2, LinesAreKnown
  <2>2. /\ Range(text'.lines) \subseteq AllLines \union new
        /\ \A b \in Agents : Range(view'[b]) \subseteq AllLines \union new
    BY LinesAreKnown
  <2>3. next \in Nat
    BY <1>1 DEF Shapes
  <2> QED
    BY <2>1, <2>2, <2>3 DEF Appear
<1>5. ~raced' /\ ~torn' => \A id \in owed' : Kept(id, text', call')
  <2>1. \A id : Kept(id, text, call) => Kept(id, text', call')
    BY <1>2 DEF Kept
  <2> QED
    BY <2>1, LeaveIs DEF WorkspaceInv
<1>6. \A b \in Agents :
              \/ ~(Patching(b)')
              \/ Patching(b) /\ call'[b] = call[b]
              \/ \A anchor \in LineAnchors(call'[b].hunks) : anchor.line # Top =>
                    \E l \in AllLines : anchor.id = l.id /\ anchor.hash = LineHash[l.word]
  BY <1>2 DEF Patching, At
<1> QED
  BY <1>3, <1>4, <1>5, <1>6, StepKeepsAll

\* A call that is given up leaves the file as it is, cut or not.
LEMMA GivingUpKeeps ==
    ASSUME WorkspaceInv, NEW a \in Agents, call' = [call EXCEPT ![a] = Idle],
           UNCHANGED <<text, view, calls, outside, next, owed, raced>>,
           torn \/ At(a, "cut") => torn'
    PROVE  WorkspaceInv'
<1>1. Shapes
  BY DEF WorkspaceInv
<1>2. CallOK(Idle) /\ LinesOf(Idle) = {} /\ Idle.pc = "idle"
  BY DEF CallOK, Idle, LinesOf
<1>3. /\ call' = [b \in Agents |-> call'[b]]
      /\ call'[a] = Idle
      /\ \A b \in Agents : b # a => call'[b] = call[b]
      /\ \A b \in Agents : CallOK(call'[b])
  BY <1>1, <1>2, MovesIs DEF Moves
<1>4. Shapes'
  BY <1>1, <1>3 DEF Shapes
<1>5. PICK new : new = {}
  OBVIOUS
<1>6. Appear(new)
  <2>1. \A b \in Agents : LinesOf(call'[b]) \subseteq AllLines
    BY <1>2, <1>3, LinesAreKnown
  <2>2. next' \in Nat /\ next <= next'
    BY <1>1 DEF Shapes
  <2> QED
    BY <1>1, <1>5, <2>1, <2>2, LinesAreKnown, NothingNew
<1>7. ~raced' /\ ~torn' => \A id \in owed' : Kept(id, text', call')
  <2>1. ~At(a, "cut") => \A id : Kept(id, text, call) => Kept(id, text', call')
    BY <1>3 DEF Kept, At
  <2> QED
    BY <2>1, LeaveIs DEF WorkspaceInv
<1>8. \A b \in Agents : Patching(b)' => Patching(b) /\ call'[b] = call[b]
  BY <1>2, <1>3 DEF Patching, At
<1> QED
  BY <1>4, <1>6, <1>7, <1>8, StepKeepsAll

LEMMA TruncateKeeps == ASSUME WorkspaceInv, NEW a \in Agents, Truncate(a) PROVE WorkspaceInv'
<1>1. Shapes
  BY DEF WorkspaceInv
<1>2. PICK c, t : c = call[a] /\ t = Edited(c).text
  OBVIOUS
<1>3. /\ CallOK(c) /\ c.pc = "loaded" /\ Edited(c).ok
      /\ owed' = (owed \ {c.text.lines[k].id : k \in Spans(c)}) \union Written(c)
      /\ text' = EmptyText /\ call' = [call EXCEPT ![a] = [pc |-> "cut", out |-> t]]
      /\ raced' = (raced \/ text # c.text)
      /\ UNCHANGED <<view, answer, calls, outside, next, torn>>
  BY <1>1, <1>2 DEF Truncate, At, Shapes
<1>4. /\ TextOK(t)
      /\ Range(t.lines) \subseteq LinesOf(c)
      /\ \A k \in DOMAIN c.text.lines :
             k \notin Spans(c) /\ c.text.lines[k].word # Blank => c.text.lines[k].id \in Ids(t.lines)
      /\ Written(c) \subseteq Ids(t.lines)
  BY <1>2, <1>3, EditedOK
<1>5. PICK cut : cut = [pc |-> "cut", out |-> t]
  OBVIOUS
<1>6. cut.pc = "cut" /\ cut.out = t /\ CallOK(cut) /\ LinesOf(cut) = Range(t.lines)
  BY <1>4, <1>5 DEF CallOK, LinesOf
<1>7. /\ call' = [b \in Agents |-> call'[b]]
      /\ call'[a] = cut
      /\ \A b \in Agents : b # a => call'[b] = call[b]
      /\ \A b \in Agents : CallOK(call'[b])
  BY <1>1, <1>3, <1>5, <1>6, MovesIs DEF Moves
<1>8. TextOK(EmptyText) /\ Range(EmptyText.lines) = {}
  BY DEF TextOK, EmptyText, Distinct, Range
<1>9. Shapes'
  BY <1>1, <1>3, <1>7, <1>8 DEF Shapes
<1>10. PICK new : new = {}
  OBVIOUS
<1>11. Appear(new)
  <2>1. \A b \in Agents : LinesOf(call'[b]) \subseteq AllLines
    BY <1>2, <1>4, <1>6, <1>7, LinesAreKnown
  <2>2. next' \in Nat /\ next <= next'
    BY <1>1, <1>3 DEF Shapes
  <2>3. \A b \in Agents : Range(view'[b]) \subseteq AllLines
    BY <1>3, LinesAreKnown
  <2> QED
    BY <1>1, <1>3, <1>8, <1>10, <2>1, <2>2, <2>3, NothingNew
<1>12. \A id \in owed' : id \in owed \/ \E l \in AllLines : l.id = id /\ l.word # Blank
  <2>1. \A id \in Written(c) : \E l \in Added(c) : l.id = id /\ l.word # Blank
    <3>1. CASE c.mode = "patch"
      BY <3>1 DEF Written, Added, Solid
    <3>2. CASE c.mode # "patch"
      BY <3>2 DEF Written, Added, Solid
    <3> QED
      BY <3>1, <3>2
  <2>2. Added(c) \subseteq AllLines
    BY <1>2, <1>3, LinesAreKnown DEF LinesOf
  <2> QED
    BY <1>3, <2>1, <2>2
<1>13. ASSUME ~raced', ~torn', NEW id \in owed'
       PROVE  Kept(id, text', call')
  <2>1. text = c.text /\ ~raced /\ ~torn
    BY <1>3, <1>13
  <2>2. CASE id \in Written(c)
    BY <1>4, <1>6, <1>7, <2>2 DEF Kept
  <2>3. CASE id \notin Written(c)
    <3>1. id \in owed /\ \A k \in Spans(c) : c.text.lines[k].id # id
      BY <1>3, <1>13, <2>3
    <3>2. Kept(id, text, call)
      BY <2>1, <3>1, LeaveIs DEF WorkspaceInv
    <3>3. CASE id \in Ids(text.lines)
      <4>1. PICK k \in DOMAIN text.lines : text.lines[k].id = id
        BY <3>3 DEF Ids
      <4>2. text.lines[k] \in AllLines
        BY LinesAreKnown DEF Range
      <4>3. text.lines[k].word # Blank
        BY <3>1, <4>1, <4>2 DEF WorkspaceInv, OwedAreSolid
      <4>4. id \in Ids(t.lines)
        BY <1>4, <2>1, <3>1, <4>1, <4>3
      <4> QED
        BY <1>6, <1>7, <4>4 DEF Kept
    <3>4. CASE \E b \in Agents : call[b].pc = "cut" /\ id \in Ids(call[b].out.lines)
      <4>1. PICK b \in Agents : call[b].pc = "cut" /\ id \in Ids(call[b].out.lines)
        BY <3>4
      <4>2. b # a
        BY <1>2, <1>3, <4>1
      <4> QED
        BY <1>7, <4>1, <4>2 DEF Kept
    <3> QED
      BY <3>2, <3>3, <3>4 DEF Kept
  <2> QED
    BY <2>2, <2>3
<1>14. \A b \in Agents : Patching(b)' => Patching(b) /\ call'[b] = call[b]
  BY <1>6, <1>7 DEF Patching, At
<1> QED
  BY <1>9, <1>11, <1>12, <1>13, <1>14, StepKeepsAll

LEMMA FillKeeps == ASSUME WorkspaceInv, NEW a \in Agents, Fill(a) PROVE WorkspaceInv'
<1>1. Shapes
  BY DEF WorkspaceInv
<1>2. CallOK(Idle) /\ LinesOf(Idle) = {} /\ Idle.pc = "idle"
  BY DEF CallOK, Idle, LinesOf
<1>3. /\ call' = [b \in Agents |-> call'[b]]
      /\ call'[a] = Idle
      /\ \A b \in Agents : b # a => call'[b] = call[b]
      /\ \A b \in Agents : CallOK(call'[b])
  BY <1>1, <1>2, MovesIs DEF Moves, Fill
<1>4. TextOK(call[a].out) /\ LinesOf(call[a]) = Range(call[a].out.lines)
  BY <1>1 DEF Shapes, CallOK, Fill, At, LinesOf
<1>5. Shapes'
  BY <1>1, <1>3, <1>4 DEF Shapes, Fill
<1>6. PICK new : new = {}
  OBVIOUS
<1>7. Appear(new)
  <2>1. \A b \in Agents : LinesOf(call'[b]) \subseteq AllLines
    BY <1>2, <1>3, LinesAreKnown
  <2>2. next' \in Nat /\ next <= next'
    BY <1>1 DEF Shapes, Fill
  <2>3. Range(text'.lines) \subseteq AllLines /\ \A b \in Agents : Range(view'[b]) \subseteq AllLines
    BY <1>4, LinesAreKnown DEF Fill
  <2> QED
    BY <1>1, <1>6, <2>1, <2>2, <2>3, NothingNew
<1>8. ASSUME ~raced', ~torn', NEW id \in owed'
      PROVE  Kept(id, text', call')
  <2>1. text = EmptyText /\ ~raced /\ ~torn /\ id \in owed
    BY <1>8 DEF Fill
  <2>2. Kept(id, text, call)
    BY <2>1, LeaveIs DEF WorkspaceInv
  <2>3. id \notin Ids(text.lines)
    BY <2>1 DEF Ids, EmptyText
  <2>4. PICK b \in Agents : call[b].pc = "cut" /\ id \in Ids(call[b].out.lines)
    BY <2>2, <2>3 DEF Kept
  <2>5. CASE b = a
    BY <2>4, <2>5 DEF Kept, Fill
  <2>6. CASE b # a
    BY <1>3, <2>4, <2>6 DEF Kept
  <2> QED
    BY <2>5, <2>6
<1>9. \A b \in Agents : Patching(b)' => Patching(b) /\ call'[b] = call[b]
  BY <1>2, <1>3 DEF Patching, At
<1>10. owed' = owed
  BY DEF Fill
<1> QED
  BY <1>5, <1>7, <1>8, <1>9, <1>10, StepKeepsAll

LEMMA OverwriteKeeps == ASSUME WorkspaceInv, NEW a \in Agents, Overwrite(a) PROVE WorkspaceInv'
<1>1. Shapes
  BY DEF WorkspaceInv
<1>2. PICK words \in Contents :
          /\ Begin(a, [pc |-> "cut", out |-> Reread(Fresh(words), FALSE)])
          /\ owed' = Solid(Fresh(words))
  BY DEF Overwrite
<1>3. PICK lines, t : lines = Fresh(words) /\ t = Reread(lines, FALSE)
  OBVIOUS
<1>4. /\ lines \in Seq(Line) /\ lines # <<>> /\ Distinct(lines)
      /\ \A l \in Range(lines) : l \in Line /\ next <= l.id /\ l.id < next + MaxWords
      /\ \A l, m \in Range(lines) : l.id = m.id => l = m
  BY <1>1, <1>3, FreshIs DEF Fresh, Shapes
<1>5. /\ TextOK(t)
      /\ \A k \in DOMAIN t.lines : k \in DOMAIN lines /\ t.lines[k] = lines[k]
      /\ \A k \in DOMAIN lines : lines[k].word # Blank => k \in DOMAIN t.lines /\ t.lines[k] = lines[k]
  BY <1>3, <1>4, RereadOK
<1>6. PICK c : c = [pc |-> "cut", out |-> t]
  OBVIOUS
<1>7. c.pc = "cut" /\ c.out = t /\ CallOK(c) /\ LinesOf(c) = Range(t.lines)
  BY <1>5, <1>6 DEF CallOK, LinesOf
<1>8. Begin(a, c) /\ next' = next + 2 * MaxWords /\ text' = EmptyText /\ torn' = torn
      /\ owed' = Solid(lines) /\ call[a].pc = "idle"
  BY <1>2, <1>3, <1>6 DEF Overwrite, IdsNext, Begin, At
<1>9. /\ call' = [b \in Agents |-> call'[b]]
      /\ call'[a] = c
      /\ \A b \in Agents : b # a => call'[b] = call[b]
      /\ \A b \in Agents : CallOK(call'[b])
  BY <1>1, <1>7, <1>8, MovesIs DEF Moves, Begin
<1>10. TextOK(EmptyText) /\ Range(EmptyText.lines) = {}
  BY DEF TextOK, EmptyText, Distinct, Range
<1>11. Shapes'
  <2>1. calls' \in 0 .. MaxCalls
    BY <1>1, <1>8, WorkspaceAssumption DEF Shapes, Begin
  <2>2. next' \in Nat
    BY <1>1, <1>8, MaxWordsIs DEF Shapes
  <2> QED
    BY <1>1, <1>8, <1>9, <1>10, <2>1, <2>2 DEF Shapes, Begin
<1>12. PICK new : new = Range(lines)
  OBVIOUS
<1>13. Appear(new)
  <2>1. Range(t.lines) \subseteq new
    BY <1>5, <1>12 DEF Range
  <2>2. \A b \in Agents : LinesOf(call'[b]) \subseteq AllLines \union new
    BY <1>7, <1>9, <2>1, LinesAreKnown
  <2>3. next \in Nat /\ next' \in Nat /\ next <= next'
    BY <1>1, <1>8, MaxWordsIs DEF Shapes
  <2>4. NewLines(new)
    BY <1>4, <1>8, <1>12, <2>3, MaxWordsIs DEF NewLines, Line
  <2>5. /\ Range(text'.lines) \subseteq AllLines \union new
        /\ \A b \in Agents : Range(view'[b]) \subseteq AllLines \union new
    BY <1>8, <1>10, LinesAreKnown DEF Begin
  <2> QED
    BY <2>2, <2>3, <2>4, <2>5 DEF Appear
<1>14. \A id \in owed' : \E l \in new : l.id = id /\ l.word # Blank
  BY <1>8, <1>12 DEF Solid
<1>15. ASSUME NEW id \in owed'
       PROVE  Kept(id, text', call')
  <2>1. PICK k \in DOMAIN lines : lines[k].id = id /\ lines[k].word # Blank
    BY <1>8, <1>15 DEF Solid, Range
  <2>2. id \in Ids(t.lines)
    BY <1>5, <2>1 DEF Ids
  <2> QED
    BY <1>7, <1>9, <2>2 DEF Kept
<1>16. \A b \in Agents : Patching(b)' => Patching(b) /\ call'[b] = call[b]
  BY <1>7, <1>9 DEF Patching, At
<1> QED
  BY <1>11, <1>13, <1>14, <1>15, <1>16, StepKeepsAll

LEMMA LoadPatchKeeps == ASSUME WorkspaceInv, NEW a \in Agents, LoadPatch(a) PROVE WorkspaceInv'
<1>1. Shapes /\ OneLinePerId
  BY DEF WorkspaceInv
<1>2. PICK hunks \in Patches(view[a]) :
          Begin(a, [pc |-> "loaded", mode |-> "patch", text |-> text, hunks |-> hunks])
  BY DEF LoadPatch
<1>3. PICK new : new = UNION {Range(hunks[k].content) : k \in {j \in DOMAIN hunks : hunks[j].content # Nothing}}
  OBVIOUS
<1>4. /\ HunksOK(hunks, text.lines)
      /\ new \subseteq Line
      /\ \A l \in new : next <= l.id /\ l.id < next + 2 * MaxWords
      /\ \A l, m \in new : l.id = m.id => l = m
      /\ \A anchor \in LineAnchors(hunks) : anchor.line # Top =>
             \E l \in AllLines : anchor.id = l.id /\ anchor.hash = LineHash[l.word]
  BY <1>1, <1>3, PatchesAre
<1>5. PICK c : c = [pc |-> "loaded", mode |-> "patch", text |-> text, hunks |-> hunks]
  OBVIOUS
<1>6. c.pc = "loaded" /\ c.mode = "patch" /\ c.text = text /\ c.hunks = hunks
  BY <1>5
<1>7. CallOK(c)
  BY <1>1, <1>4, <1>6 DEF CallOK, Shapes
<1>8. Added(c) = new
  BY <1>3, <1>6 DEF Added
<1>9. LinesOf(c) \subseteq AllLines \union new
  BY <1>6, <1>8, LinesAreKnown DEF LinesOf
<1>10. /\ Moves(a, c) /\ call[a].pc = "idle" /\ calls < MaxCalls /\ calls' = calls + 1
       /\ UNCHANGED <<text, view, outside, owed, raced, torn>> /\ next' = next + 2 * MaxWords
  BY <1>2, <1>5, <1>7 DEF Begin, LoadPatch, Moves, At, IdsNext
<1>11. next' \in Nat /\ next <= next'
  BY <1>1, <1>10, MaxWordsIs DEF Shapes
<1>12. NewLines(new)
  BY <1>4, <1>10 DEF NewLines
<1>13. c.pc # "cut" /\ (c.pc = "loaded" /\ c.mode = "patch" =>
               \A anchor \in LineAnchors(c.hunks) : anchor.line # Top =>
                    \E l \in AllLines : anchor.id = l.id /\ anchor.hash = LineHash[l.word])
  BY <1>4, <1>6
<1> QED
  BY <1>9, <1>10, <1>11, <1>12, <1>13, BeginningKeeps

LEMMA LoadStringKeeps == ASSUME WorkspaceInv, NEW a \in Agents, LoadString(a) PROVE WorkspaceInv'
<1>1. Shapes /\ OneLinePerId
  BY DEF WorkspaceInv
<1>2. PICK old \in Contents, words \in Contents :
          Begin(a, [pc |-> "loaded", mode |-> "string", text |-> text, old |-> old, new |-> Fresh(words)])
  BY DEF LoadString
<1>3. PICK lines : lines = Fresh(words)
  OBVIOUS
<1>4. /\ lines \in Seq(Line) /\ lines # <<>> /\ Distinct(lines)
      /\ \A l \in Range(lines) : l \in Line /\ next <= l.id /\ l.id < next + MaxWords
      /\ \A l, m \in Range(lines) : l.id = m.id => l = m
  BY <1>1, <1>3, FreshIs DEF Fresh, Shapes
<1>5. old \in Seq(Words) /\ old # <<>>
  <2>1. old \in Seq(Words) /\ Len(old) \in 1 .. MaxWords
    BY WorkspaceAssumption
  <2> QED
    BY <2>1
<1>6. PICK c : c = [pc |-> "loaded", mode |-> "string", text |-> text, old |-> old, new |-> lines]
  OBVIOUS
<1>7. c.pc = "loaded" /\ c.mode = "string" /\ c.text = text /\ c.old = old /\ c.new = lines
  BY <1>6
<1>8. Apart(lines, text.lines)
  <2>1. SUFFICES ASSUME NEW j \in DOMAIN lines, NEW k \in DOMAIN text.lines
                 PROVE  lines[j].id # text.lines[k].id
    BY DEF Apart
  <2>2. lines[j] \in Range(lines) /\ text.lines[k] \in AllLines
    BY LinesAreKnown DEF Range
  <2>3. lines[j].id \in Nat /\ next <= lines[j].id
    BY <1>4, <2>2 DEF Line
  <2>4. text.lines[k].id \in Nat /\ text.lines[k].id < next
    BY <1>1, <2>2 DEF OneLinePerId, Line
  <2>5. next \in Nat
    BY <1>1 DEF Shapes
  <2> QED
    BY <2>3, <2>4, <2>5
<1>9. CallOK(c)
  BY <1>1, <1>4, <1>5, <1>7, <1>8 DEF CallOK, ContentOK, Shapes
<1>10. PICK new : new = Range(lines)
  OBVIOUS
<1>11. LinesOf(c) \subseteq AllLines \union new
  BY <1>7, <1>10, LinesAreKnown DEF LinesOf, Added
<1>12. /\ Moves(a, c) /\ call[a].pc = "idle" /\ calls < MaxCalls /\ calls' = calls + 1
       /\ UNCHANGED <<text, view, outside, owed, raced, torn>> /\ next' = next + 2 * MaxWords
  BY <1>2, <1>3, <1>6, <1>9 DEF Begin, LoadString, Moves, At, IdsNext
<1>13. next \in Nat /\ next' \in Nat /\ next <= next'
  BY <1>1, <1>12, MaxWordsIs DEF Shapes
<1>14. NewLines(new)
  BY <1>4, <1>10, <1>12, <1>13, MaxWordsIs DEF NewLines, Line
<1>15. c.pc # "cut" /\ c.mode # "patch"
  BY <1>7
<1> QED
  BY <1>11, <1>12, <1>13, <1>14, <1>15, BeginningKeeps

LEMMA SpawnKeeps == ASSUME WorkspaceInv, NEW a \in Agents, Spawn(a) PROVE WorkspaceInv'
<1>1. PICK c : c = [pc |-> "command"]
  OBVIOUS
<1>2. c.pc = "command" /\ CallOK(c) /\ LinesOf(c) = {}
  BY <1>1 DEF CallOK, LinesOf
<1>3. /\ Moves(a, c) /\ call[a].pc = "idle" /\ calls < MaxCalls /\ calls' = calls + 1
      /\ UNCHANGED <<text, view, outside, owed, raced, torn, next>>
  BY <1>1, <1>2 DEF Begin, Spawn, Moves, At
<1>4. next' \in Nat /\ next <= next'
  BY <1>3 DEF WorkspaceInv, Shapes
<1>5. PICK new : new = {}
  OBVIOUS
<1>6. NewLines(new)
  BY <1>5 DEF NewLines
<1>7. LinesOf(c) \subseteq AllLines \union new
  BY <1>2
<1>8. c.pc # "cut" /\ c.pc # "loaded"
  BY <1>2
<1> QED
  BY <1>3, <1>4, <1>6, <1>7, <1>8, BeginningKeeps

-----------------------------------------------------------------------------
(* Changes by others.                                                      *)

LEMMA PrependedIs ==
    ASSUME NEW head \in Seq(Line), NEW lines \in Seq(Line), Distinct(head), Distinct(lines),
           Apart(head, lines), head # <<>>
    PROVE  LET out == head \o lines
           IN  /\ out \in Seq(Line) /\ Distinct(out) /\ out # <<>>
               /\ \A j \in DOMAIN out : out[j] \in Range(head) \union Range(lines)
               /\ \A k \in DOMAIN lines : Has(out, lines[k])
               /\ \A k \in DOMAIN head : Has(out, head[k])
<1>1. PICK out : out = head \o lines
  OBVIOUS
<1>2. PICK m \in Nat, n \in Nat : m = Len(head) /\ n = Len(lines)
  OBVIOUS
<1>3. /\ out \in Seq(Line) /\ Len(out) = m + n
      /\ \A k \in 1 .. m : out[k] = head[k]
      /\ \A k \in 1 .. n : out[m + k] = lines[k]
  BY <1>1, <1>2, ConcatIs
<1>4. DOMAIN out = 1 .. m + n /\ DOMAIN head = 1 .. m /\ DOMAIN lines = 1 .. n
  BY <1>2, <1>3
<1>5. m # 0
  BY <1>2
<1>6. out # <<>>
  BY <1>2, <1>3, <1>5
<1>7. \A k \in DOMAIN lines : Has(out, lines[k])
  <2> SUFFICES ASSUME NEW k \in DOMAIN lines PROVE Has(out, lines[k])
    OBVIOUS
  <2>1. m + k \in DOMAIN out /\ out[m + k] = lines[k]
    BY <1>3, <1>4
  <2> QED
    BY <2>1 DEF Has
<1>8. \A k \in DOMAIN head : Has(out, head[k])
  <2> SUFFICES ASSUME NEW k \in DOMAIN head PROVE Has(out, head[k])
    OBVIOUS
  <2>1. k \in DOMAIN out /\ out[k] = head[k]
    BY <1>3, <1>4
  <2> QED
    BY <2>1 DEF Has
<1>9. \A j \in DOMAIN out : \/ j \in DOMAIN head /\ out[j] = head[j]
                            \/ \E k \in DOMAIN lines : j = m + k /\ out[j] = lines[k]
  <2> SUFFICES ASSUME NEW j \in DOMAIN out
               PROVE  \/ j \in DOMAIN head /\ out[j] = head[j]
                      \/ \E k \in DOMAIN lines : j = m + k /\ out[j] = lines[k]
    OBVIOUS
  <2>1. CASE j <= m
    BY <1>3, <1>4, <2>1
  <2>2. CASE ~(j <= m)
    <3>1. PICK k \in 1 .. n : j = m + k
      <4>1. j - m \in 1 .. n /\ j = m + (j - m)
        BY <1>4, <2>2
      <4> QED
        BY <4>1
    <3> QED
      BY <1>3, <1>4, <3>1
  <2> QED
    BY <2>1, <2>2
<1>10. \A j \in DOMAIN out : out[j] \in Range(head) \union Range(lines)
  BY <1>9 DEF Range
<1>11. Distinct(out)
  <2> SUFFICES ASSUME NEW i \in DOMAIN out, NEW j \in DOMAIN out, out[i].id = out[j].id
               PROVE  i = j
    BY DEF Distinct
  <2>1. CASE i \in DOMAIN head /\ out[i] = head[i]
    <3>1. CASE j \in DOMAIN head /\ out[j] = head[j]
      BY <2>1, <3>1 DEF Distinct
    <3>2. CASE \E k \in DOMAIN lines : j = m + k /\ out[j] = lines[k]
      BY <2>1, <3>2 DEF Apart
    <3> QED
      BY <1>9, <3>1, <3>2
  <2>2. CASE \E k \in DOMAIN lines : i = m + k /\ out[i] = lines[k]
    <3>1. CASE j \in DOMAIN head /\ out[j] = head[j]
      BY <2>2, <3>1 DEF Apart
    <3>2. CASE \E k \in DOMAIN lines : j = m + k /\ out[j] = lines[k]
      <4>1. PICK k \in DOMAIN lines, l \in DOMAIN lines :
                i = m + k /\ out[i] = lines[k] /\ j = m + l /\ out[j] = lines[l]
        BY <2>2, <3>2
      <4>2. k = l
        BY <4>1 DEF Distinct
      <4> QED
        BY <4>1, <4>2
    <3> QED
      BY <1>9, <3>1, <3>2
  <2> QED
    BY <1>9, <2>1, <2>2
<1> QED
  BY <1>1, <1>3, <1>6, <1>7, <1>8, <1>10, <1>11

LEMMA ChangedIs ==
    ASSUME NEW lines \in Seq(Line), Distinct(lines), NEW k \in DOMAIN lines, NEW line \in Line,
           \A j \in DOMAIN lines : lines[j].id # line.id
    PROVE  LET out == ReplaceAt(lines, k, line)
           IN  /\ out \in Seq(Line) /\ Distinct(out) /\ out # <<>>
               /\ \A j \in DOMAIN out : out[j] = line \/ out[j] \in Range(lines)
               /\ \A j \in DOMAIN lines : j # k => Has(out, lines[j])
               /\ Has(out, line)
<1>1. PICK out : out = [lines EXCEPT ![k] = line]
  OBVIOUS
<1>2. PICK n \in Nat : n = Len(lines) /\ DOMAIN lines = 1 .. n
  OBVIOUS
<1>3. out \in Seq(Line) /\ DOMAIN out = 1 .. n
  BY <1>1, <1>2
<1>4. out[k] = line /\ \A j \in DOMAIN lines : j # k => out[j] = lines[j]
  BY <1>1, <1>2
<1>5. out # <<>>
  BY <1>2, <1>3
<1>6. Distinct(out)
  BY <1>2, <1>3, <1>4 DEF Distinct
<1>7. \A j \in DOMAIN out : out[j] = line \/ out[j] \in Range(lines)
  BY <1>2, <1>3, <1>4 DEF Range
<1>8. (\A j \in DOMAIN lines : j # k => Has(out, lines[j])) /\ Has(out, line)
  BY <1>2, <1>3, <1>4 DEF Has
<1> QED
  BY <1>1, <1>3, <1>5, <1>6, <1>7, <1>8 DEF ReplaceAt

LEMMA RemovedIs ==
    ASSUME NEW lines \in Seq(Line), Distinct(lines), NEW k \in DOMAIN lines
    PROVE  LET out == RemoveAt(lines, k)
           IN  /\ out \in Seq(Line) /\ Distinct(out)
               /\ Len(lines) > 1 => out # <<>>
               /\ \A j \in DOMAIN out : out[j] \in Range(lines)
               /\ \A j \in DOMAIN lines : j # k => Has(out, lines[j])
<1>1. PICK n \in Nat, h \in Nat : n = Len(lines) /\ DOMAIN lines = 1 .. n /\ h = k - 1 /\ h + 1 <= n
  <2>1. k - 1 \in Nat /\ (k - 1) + 1 <= Len(lines)
    OBVIOUS
  <2> QED
    BY <2>1
<1>2. PICK s : s = [start |-> h, end |-> h + 1, content |-> <<>>]
  OBVIOUS
<1>3. s.start = h /\ s.end = h + 1 /\ s.content = <<>>
  BY <1>2
<1>4. SpliceOK(s, lines)
  BY <1>1, <1>3 DEF SpliceOK, ContentOK, Distinct, Apart
<1>5. PICK out : out = Spliced(s, lines)
  OBVIOUS
<1>6. out = RemoveAt(lines, k)
  <2>1. PICK head, tail : head = SubSeq(lines, 1, s.start) /\ tail = SubSeq(lines, s.end + 1, Len(lines))
    OBVIOUS
  <2>2. out = head \o <<>> \o tail
    BY <1>3, <1>5, <2>1, Zenon DEF Spliced
  <2>3. head \in Seq(Line)
    BY <1>1, <1>3, <2>1
  <2>4. head \o <<>> = head
    BY <2>3
  <2>5. k - 1 = s.start /\ k + 1 = s.end + 1
    BY <1>1, <1>3
  <2>6. RemoveAt(lines, k) = head \o tail
    BY <2>1, <2>5, Zenon DEF RemoveAt
  <2> QED
    BY <2>2, <2>4, <2>6, Zenon
<1>7. /\ out \in Seq(Line)
      /\ \A j \in 1 .. h : j \in DOMAIN out /\ out[j] = lines[j]
      /\ \A j \in (h + 1) + 1 .. n : \E i \in DOMAIN out : out[i] = lines[j]
  <2>1. out \in Seq(Line)
    BY <1>4, <1>5, SplicedIs
  <2>2. /\ \A j \in 1 .. s.start : j \in DOMAIN out /\ out[j] = lines[j]
        /\ \A j \in s.end + 1 .. Len(lines) : \E i \in DOMAIN out : out[i] = lines[j]
    BY <1>4, <1>5, SplicedHas
  <2> QED
    BY <1>1, <1>3, <2>1, <2>2
<1>8. Distinct(out)
  BY <1>4, <1>5, SplicedDistinct
<1>9. \A j \in DOMAIN out : out[j] \in Range(lines)
  <2> SUFFICES ASSUME NEW j \in DOMAIN out PROVE out[j] \in Range(lines)
    OBVIOUS
  <2>1. s.content # <<>> \/ \E i \in DOMAIN lines : out[j] = lines[i]
    BY <1>3, <1>4, <1>5, SplicedFrom
  <2> QED
    BY <1>3, <2>1 DEF Range
<1>10. \A j \in DOMAIN lines : j # k => Has(out, lines[j])
  <2> SUFFICES ASSUME NEW j \in DOMAIN lines, j # k PROVE Has(out, lines[j])
    OBVIOUS
  <2>1. j \in 1 .. h \/ j \in (h + 1) + 1 .. n
    BY <1>1
  <2> QED
    BY <1>7, <2>1 DEF Has
<1>11. Len(lines) > 1 => out # <<>>
  <2>1. ASSUME Len(lines) > 1
        PROVE  \E j \in DOMAIN lines : Has(out, lines[j])
    <3>1. 1 \in DOMAIN lines /\ 2 \in DOMAIN lines /\ 1 # 2
      BY <2>1
    <3> QED
      BY <1>10, <3>1
  <2> QED
    BY <2>1 DEF Has
<1> QED
  BY <1>6, <1>7, <1>8, <1>9, <1>10, <1>11

\* What a change in place makes of the file: lines that were there or are new,
\* and all that were there but those it takes out.
LEMMA InPlaceIs ==
    ASSUME WorkspaceInv, InPlace
    PROVE  \E out, ends, new :
              /\ out \in Seq(Line) /\ Distinct(out) /\ ends \in BOOLEAN /\ (ends => out # <<>>)
              /\ text' = Reread(out, ends)
              /\ NewLines(new)
              /\ Range(out) \subseteq Range(text.lines) \union new
              /\ \A id \in owed' :
                    \/ id \in owed /\ \A j \in DOMAIN text.lines : text.lines[j].id = id => Has(out, text.lines[j])
                    \/ \E l \in new : l.id = id /\ l.word # Blank /\ Has(out, l)
<1>1. PICK t, n : t = text /\ n = next
  OBVIOUS
<1>2. /\ n \in Nat /\ t.lines \in Seq(Line) /\ Distinct(t.lines)
      /\ t.ends \in BOOLEAN /\ (t.ends => t.lines # <<>>)
  BY <1>1 DEF WorkspaceInv, Shapes, TextOK
<1>3. next' = n + 2 * MaxWords
  BY <1>1 DEF InPlace, IdsNext
<1>4. PICK words \in Contents :
           \/ /\ text' = Reread(Fresh(words) \o t.lines, t.ends)
              /\ owed' = owed \union Solid(Fresh(words))
           \/ \E k \in DOMAIN t.lines :
                 /\ text' = Reread(ReplaceAt(t.lines, k, Fresh(words)[1]), t.ends)
                 /\ owed' = (owed \ {t.lines[k].id}) \union {id \in Solid(Fresh(words)) : id = next}
           \/ \E k \in DOMAIN t.lines :
                 /\ text' = Reread(RemoveAt(t.lines, k), t.ends /\ Len(t.lines) > 1)
                 /\ owed' = owed \ {t.lines[k].id}
  BY <1>1 DEF InPlace
<1>5. PICK lines : lines = Fresh(words)
  OBVIOUS
<1>6. /\ lines \in Seq(Line) /\ lines # <<>> /\ Distinct(lines)
      /\ \A l \in Range(lines) : l \in Line /\ n <= l.id /\ l.id < n + MaxWords
      /\ \A l, m \in Range(lines) : l.id = m.id => l = m
  BY <1>1, <1>2, <1>5, FreshIs DEF Fresh
<1>7. PICK new : new = Range(lines)
  OBVIOUS
<1>8. NewLines(new)
  BY <1>1, <1>2, <1>3, <1>6, <1>7, MaxWordsIs DEF NewLines, Line
<1>9. \A k \in DOMAIN t.lines : t.lines[k].id \in Nat /\ t.lines[k].id < n
  <2>1. \A k \in DOMAIN t.lines : t.lines[k] \in AllLines
    BY <1>1, LinesAreKnown DEF Range
  <2> QED
    BY <1>1, <2>1 DEF WorkspaceInv, OneLinePerId, Line
<1>10. \A k \in DOMAIN lines : lines[k] \in new /\ lines[k].id \in Nat /\ n <= lines[k].id
  BY <1>6, <1>7 DEF Range, Line
<1>11. \A j \in DOMAIN lines, k \in DOMAIN t.lines : lines[j].id # t.lines[k].id
  BY <1>2, <1>9, <1>10
<1>12. CASE /\ text' = Reread(Fresh(words) \o t.lines, t.ends)
            /\ owed' = owed \union Solid(Fresh(words))
  <2>1. PICK out : out = lines \o t.lines
    OBVIOUS
  <2>2. /\ out \in Seq(Line) /\ Distinct(out) /\ out # <<>>
        /\ \A j \in DOMAIN out : out[j] \in Range(lines) \union Range(t.lines)
        /\ \A k \in DOMAIN t.lines : Has(out, t.lines[k])
        /\ \A k \in DOMAIN lines : Has(out, lines[k])
    BY <1>2, <1>6, <1>11, <2>1, PrependedIs DEF Apart
  <2>3. \A id \in Solid(lines) : \E l \in new : l.id = id /\ l.word # Blank /\ Has(out, l)
    BY <1>7, <2>2 DEF Solid, Range
  <2>4. Range(out) \subseteq Range(t.lines) \union new
    BY <1>7, <2>2 DEF Range
  <2>5. \A id \in owed' :
            \/ id \in owed /\ \A j \in DOMAIN t.lines : t.lines[j].id = id => Has(out, t.lines[j])
            \/ \E l \in new : l.id = id /\ l.word # Blank /\ Has(out, l)
    BY <1>5, <1>12, <2>2, <2>3
  <2>6. text' = Reread(out, t.ends)
    BY <1>5, <1>12, <2>1
  <2> QED
    BY <1>1, <1>2, <1>8, <2>2, <2>4, <2>5, <2>6
<1>13. ASSUME NEW k \in DOMAIN t.lines,
              text' = Reread(ReplaceAt(t.lines, k, Fresh(words)[1]), t.ends),
              owed' = (owed \ {t.lines[k].id}) \union {id \in Solid(Fresh(words)) : id = next}
       PROVE  \E out :
                 /\ out \in Seq(Line) /\ Distinct(out) /\ out # <<>>
                 /\ text' = Reread(out, t.ends)
                 /\ Range(out) \subseteq Range(t.lines) \union new
                 /\ \A id \in owed' :
                       \/ id \in owed /\ \A j \in DOMAIN t.lines : t.lines[j].id = id => Has(out, t.lines[j])
                       \/ \E l \in new : l.id = id /\ l.word # Blank /\ Has(out, l)
  <2>1. PICK line : line = lines[1]
    OBVIOUS
  <2>2. 1 \in DOMAIN lines
    BY <1>6
  <2>3. line \in new /\ line \in Line /\ line.id = n
    <3>1. lines[1].id = n + 1 - 1
      BY <1>1, <1>5, <2>2 DEF Fresh
    <3> QED
      BY <1>2, <1>6, <1>7, <2>1, <2>2, <3>1 DEF Range
  <2>4. PICK out : out = ReplaceAt(t.lines, k, line)
    OBVIOUS
  <2>5. \A j \in DOMAIN t.lines : t.lines[j].id # line.id
    BY <1>11, <2>1, <2>2
  <2>6. /\ out \in Seq(Line) /\ Distinct(out) /\ out # <<>>
        /\ \A j \in DOMAIN out : out[j] = line \/ out[j] \in Range(t.lines)
        /\ \A j \in DOMAIN t.lines : j # k => Has(out, t.lines[j])
        /\ Has(out, line)
    BY <1>2, <2>3, <2>4, <2>5, ChangedIs
  <2>7. \A id \in Solid(lines) : id = next => \E l \in new : l.id = id /\ l.word # Blank /\ Has(out, l)
    <3> SUFFICES ASSUME NEW id \in Solid(lines), id = next
                 PROVE  \E l \in new : l.id = id /\ l.word # Blank /\ Has(out, l)
      OBVIOUS
    <3>1. PICK l \in Range(lines) : l.id = id /\ l.word # Blank
      BY DEF Solid
    <3>2. l = line
      BY <1>1, <1>6, <1>7, <2>3, <3>1
    <3> QED
      BY <2>3, <2>6, <3>1, <3>2
  <2>8. Range(out) \subseteq Range(t.lines) \union new
    BY <2>3, <2>6 DEF Range
  <2>9. \A id \in owed' :
            \/ id \in owed /\ \A j \in DOMAIN t.lines : t.lines[j].id = id => Has(out, t.lines[j])
            \/ \E l \in new : l.id = id /\ l.word # Blank /\ Has(out, l)
    BY <1>5, <1>13, <2>6, <2>7
  <2>10. text' = Reread(out, t.ends)
    BY <1>5, <1>13, <2>1, <2>4
  <2> QED
    BY <2>6, <2>8, <2>9, <2>10
<1>14. ASSUME NEW k \in DOMAIN t.lines,
              text' = Reread(RemoveAt(t.lines, k), t.ends /\ Len(t.lines) > 1),
              owed' = owed \ {t.lines[k].id}
       PROVE  \E out, ends :
                 /\ out \in Seq(Line) /\ Distinct(out) /\ ends \in BOOLEAN /\ (ends => out # <<>>)
                 /\ text' = Reread(out, ends)
                 /\ Range(out) \subseteq Range(t.lines) \union new
                 /\ \A id \in owed' :
                       id \in owed /\ \A j \in DOMAIN t.lines : t.lines[j].id = id => Has(out, t.lines[j])
  <2>1. PICK out : out = RemoveAt(t.lines, k)
    OBVIOUS
  <2>2. /\ out \in Seq(Line) /\ Distinct(out)
        /\ Len(t.lines) > 1 => out # <<>>
        /\ \A j \in DOMAIN out : out[j] \in Range(t.lines)
        /\ \A j \in DOMAIN t.lines : j # k => Has(out, t.lines[j])
    BY <1>2, <2>1, RemovedIs
  <2>3. PICK ends : ends = (t.ends /\ Len(t.lines) > 1)
    OBVIOUS
  <2>4. ends \in BOOLEAN /\ (ends => Len(t.lines) > 1)
    BY <2>3
  <2>5. text' = Reread(out, ends)
    BY <1>14, <2>1, <2>3, Zenon
  <2>6. Range(out) \subseteq Range(t.lines) \union new
    BY <2>2 DEF Range
  <2>7. \A id \in owed' :
            id \in owed /\ \A j \in DOMAIN t.lines : t.lines[j].id = id => Has(out, t.lines[j])
    BY <1>14, <2>2
  <2> QED
    BY <2>2, <2>4, <2>5, <2>6, <2>7
<1>15. CASE \E k \in DOMAIN t.lines :
                /\ text' = Reread(ReplaceAt(t.lines, k, Fresh(words)[1]), t.ends)
                /\ owed' = (owed \ {t.lines[k].id}) \union {id \in Solid(Fresh(words)) : id = next}
  BY <1>1, <1>2, <1>8, <1>13, <1>15
<1>16. CASE \E k \in DOMAIN t.lines :
                /\ text' = Reread(RemoveAt(t.lines, k), t.ends /\ Len(t.lines) > 1)
                /\ owed' = owed \ {t.lines[k].id}
  BY <1>1, <1>8, <1>14, <1>16
<1> QED
  BY <1>4, <1>12, <1>15, <1>16

LEMMA OutsideKeeps == ASSUME WorkspaceInv, Outside PROVE WorkspaceInv'
<1>1. Shapes
  BY DEF WorkspaceInv
<1>2. PICK out, ends, new :
          /\ out \in Seq(Line) /\ Distinct(out) /\ ends \in BOOLEAN /\ (ends => out # <<>>)
          /\ text' = Reread(out, ends)
          /\ NewLines(new)
          /\ Range(out) \subseteq Range(text.lines) \union new
          /\ \A id \in owed' :
                \/ id \in owed /\ \A j \in DOMAIN text.lines : text.lines[j].id = id => Has(out, text.lines[j])
                \/ \E l \in new : l.id = id /\ l.word # Blank /\ Has(out, l)
  BY InPlaceIs DEF Outside
<1>3. PICK t : t = text'
  OBVIOUS
<1>4. /\ TextOK(t)
      /\ \A k \in DOMAIN t.lines : k \in DOMAIN out /\ t.lines[k] = out[k]
      /\ \A k \in DOMAIN out : out[k].word # Blank => k \in DOMAIN t.lines /\ t.lines[k] = out[k]
  BY <1>2, <1>3, RereadOK
<1>5. \A line : line.word # Blank /\ Has(out, line) => line.id \in Ids(t.lines)
  BY <1>4 DEF Has, Ids
<1>6. UNCHANGED <<view, call, calls, raced, torn>> /\ outside' = outside + 1 /\ outside < MaxOutside
      /\ next' = next + 2 * MaxWords
  BY DEF Outside, InPlace, IdsNext
<1>7. Shapes'
  <2>1. outside' \in 0 .. MaxOutside
    BY <1>1, <1>6, WorkspaceAssumption DEF Shapes
  <2>2. next' \in Nat
    BY <1>1, <1>6, MaxWordsIs DEF Shapes
  <2> QED
    BY <1>1, <1>3, <1>4, <1>6, <2>1, <2>2 DEF Shapes
<1>8. Appear(new)
  <2>1. Range(t.lines) \subseteq AllLines \union new
    BY <1>2, <1>4, LinesAreKnown DEF Range
  <2>2. next \in Nat /\ next' \in Nat /\ next <= next'
    BY <1>1, <1>6, MaxWordsIs DEF Shapes
  <2>3. /\ \A b \in Agents : Range(view'[b]) \subseteq AllLines \union new
        /\ \A b \in Agents : LinesOf(call'[b]) \subseteq AllLines \union new
    BY <1>6, LinesAreKnown
  <2> QED
    BY <1>2, <1>3, <2>1, <2>2, <2>3 DEF Appear
<1>9. ASSUME ~raced', ~torn', NEW id \in owed'
      PROVE  Kept(id, text', call')
  <2>1. CASE \E l \in new : l.id = id /\ l.word # Blank /\ Has(out, l)
    BY <1>3, <1>5, <2>1 DEF Kept
  <2>2. CASE id \in owed /\ \A j \in DOMAIN text.lines : text.lines[j].id = id => Has(out, text.lines[j])
    <3>1. Kept(id, text, call)
      BY <1>6, <1>9, <2>2, LeaveIs DEF WorkspaceInv
    <3>2. CASE id \in Ids(text.lines)
      <4>1. PICK k \in DOMAIN text.lines : text.lines[k].id = id
        BY <3>2 DEF Ids
      <4>2. text.lines[k] \in AllLines
        BY LinesAreKnown DEF Range
      <4>3. text.lines[k].word # Blank
        BY <2>2, <4>1, <4>2 DEF WorkspaceInv, OwedAreSolid
      <4> QED
        BY <1>3, <1>5, <2>2, <4>1, <4>3 DEF Kept
    <3>3. CASE id \notin Ids(text.lines)
      BY <1>6, <3>1, <3>3 DEF Kept
    <3> QED
      BY <3>2, <3>3
  <2> QED
    BY <1>2, <2>1, <2>2
<1>10. \A b \in Agents : Patching(b)' => Patching(b) /\ call'[b] = call[b]
  BY <1>6 DEF Patching, At
<1>11. \A id \in owed' : id \in owed \/ \E l \in AllLines \union new : l.id = id /\ l.word # Blank
  BY <1>2
<1> QED
  BY <1>7, <1>8, <1>9, <1>10, <1>11, StepKeepsAll

-----------------------------------------------------------------------------
(* Every behaviour.                                                        *)

LEMMA InitIsSafe == ASSUME Init PROVE WorkspaceInv
<1>1. PICK first \in InitialTexts :
          /\ text = [lines |-> [k \in DOMAIN first.words |-> [id |-> k, word |-> first.words[k]]],
                     ends  |-> first.ends]
          /\ owed = Solid(text.lines)
          /\ next = Len(first.words) + 1
  BY DEF Init
<1>2. PICK words, n : words = first.words /\ n = Len(words)
  OBVIOUS
<1>3. /\ words \in Seq(Words) /\ n \in Nat /\ DOMAIN words = 1 .. n
      /\ first.ends \in BOOLEAN /\ (first.ends => words # <<>>)
  BY <1>2, WorkspaceAssumption
<1>4. PICK lines : lines = [k \in DOMAIN words |-> [id |-> k, word |-> words[k]]]
  OBVIOUS
<1>5. text.lines = lines /\ text.ends = first.ends /\ text = [lines |-> lines, ends |-> first.ends]
  BY <1>1, <1>2, <1>4
<1>6. /\ lines \in Seq(Line) /\ DOMAIN lines = 1 .. n
      /\ \A k \in 1 .. n : lines[k] \in Line /\ lines[k].id = k
  <2>1. lines \in [1 .. n -> Line]
    BY <1>3, <1>4 DEF Line
  <2> QED
    BY <1>3, <1>4, <2>1
<1>7. first.ends => lines # <<>>
  BY <1>3, <1>6
<1>8. TextOK(text)
  BY <1>3, <1>5, <1>6, <1>7 DEF TextOK, Distinct
<1>9. /\ view = [a \in Agents |-> <<>>] /\ call = [a \in Agents |-> Idle]
      /\ calls = 0 /\ outside = 0 /\ next = n + 1
  BY <1>1, <1>2 DEF Init
<1>10. CallOK(Idle) /\ LinesOf(Idle) = {} /\ Idle.pc = "idle"
  BY DEF CallOK, Idle, LinesOf
<1>11. Shapes
  BY <1>3, <1>8, <1>9, <1>10, WorkspaceAssumption DEF Shapes
<1>12. AllLines = Range(lines)
  <2>1. ShownLines = {}
    BY <1>9 DEF ShownLines, Range
  <2>2. CalledLines = {}
    BY <1>9, <1>10 DEF CalledLines
  <2> QED
    BY <1>5, <2>1, <2>2 DEF AllLines
<1>13. OneLinePerId
  <2>1. \A l \in Range(lines) : l \in Line /\ \E k \in 1 .. n : l = lines[k] /\ l.id = k
    BY <1>6 DEF Range
  <2> QED
    BY <1>3, <1>9, <1>12, <2>1 DEF OneLinePerId
<1>14. \A a \in Agents : call[a].pc = "idle"
  BY <1>9, <1>10
<1>15. AnchorsAreTrue
  BY <1>14 DEF AnchorsAreTrue, Patching, At
<1>16. OwedAreSolid
  <2>1. \A id \in owed : \E l \in AllLines : l.id = id /\ l.word # Blank
    BY <1>1, <1>5, <1>12 DEF Solid
  <2>2. \A l \in AllLines : l.id \in Nat /\ l.id < next
    BY <1>13 DEF OneLinePerId, Line
  <2>3. \A l, m \in AllLines : l.id = m.id => l = m
    BY <1>13 DEF OneLinePerId
  <2> QED
    BY <2>1, <2>2, <2>3 DEF OwedAreSolid
<1>17. \A id \in owed : Kept(id, text, call)
  BY <1>1 DEF Kept, Solid, Ids, Range
<1>18. LinesLeaveOnPurpose
  BY <1>17, LeaveIs
<1> QED
  BY <1>11, <1>13, <1>15, <1>16, <1>18 DEF WorkspaceInv

LEMMA StepIsSafe == ASSUME WorkspaceInv, [Next]_vars PROVE WorkspaceInv'
<1>1. ASSUME NEW a \in Agents, ReadFile(a)
      PROVE  WorkspaceInv'
  BY <1>1, LookingKeeps DEF ReadFile
<1>2. ASSUME NEW a \in Agents, Look(a)
      PROVE  WorkspaceInv'
  BY <1>2, LookingKeeps DEF Look
<1>3. ASSUME NEW a \in Agents, Refuse(a)
      PROVE  WorkspaceInv'
  BY <1>3, GivingUpKeeps DEF Refuse, At
<1>4. ASSUME NEW a \in Agents, Ended(a)
      PROVE  WorkspaceInv'
  BY <1>4, GivingUpKeeps DEF Ended, At
<1>5. ASSUME NEW a \in Agents, Crash(a)
      PROVE  WorkspaceInv'
  BY <1>5, GivingUpKeeps DEF Crash
<1>6. CASE UNCHANGED vars
  <2>1. \A id : Kept(id, text, call) <=> Kept(id, text', call')
    BY <1>6 DEF vars
  <2>2. LinesLeaveOnPurpose'
    BY <1>6, <2>1, LeaveIs DEF WorkspaceInv, vars
  <2>3. Shapes' /\ AllLines' = AllLines
    BY <1>6 DEF WorkspaceInv, Shapes, vars, AllLines, ShownLines, CalledLines
  <2>4. OneLinePerId' /\ OwedAreSolid'
    BY <1>6, <2>3 DEF WorkspaceInv, OneLinePerId, OwedAreSolid, vars
  <2>5. AnchorsAreTrue'
    BY <1>6, <2>3 DEF WorkspaceInv, AnchorsAreTrue, Patching, At, vars
  <2> QED
    BY <2>2, <2>3, <2>4, <2>5 DEF WorkspaceInv
<1> QED
  BY <1>1, <1>2, <1>3, <1>4, <1>5, <1>6, LoadPatchKeeps, LoadStringKeeps, TruncateKeeps, OverwriteKeeps,
     FillKeeps, SpawnKeeps, OutsideKeeps DEF Next

LEMMA AlwaysSafe == Spec => []WorkspaceInv
<1>1. Init => WorkspaceInv
  BY InitIsSafe
<1>2. WorkspaceInv /\ [Next]_vars => WorkspaceInv'
  BY StepIsSafe
<1> QED
  BY <1>1, <1>2, PTL DEF Spec

\* No line leaves the file that nobody took out, while no write replaces a text
\* it has not read and no process dies inside a write: neither a patch nor an
\* exact-string edit, nor two agents taking turns, has a casualty (fs.rs:565-605).
THEOREM LinesLeave == Spec => []LinesLeaveOnPurpose
<1>1. WorkspaceInv => LinesLeaveOnPurpose
  BY DEF WorkspaceInv
<1> QED
  BY <1>1, AlwaysSafe, PTL

LEMMA IdsOfLines ==
    ASSUME NEW lines \in Seq(Line), Distinct(lines)
    PROVE  Cardinality(Ids(lines)) = Len(lines)
<1>1. PICK n \in Nat : n = Len(lines) /\ DOMAIN lines = 1 .. n
  OBVIOUS
<1>2. PICK f : f = [k \in 1 .. n |-> lines[k].id]
  OBVIOUS
<1>3. f \in [1 .. n -> Ids(lines)] /\ \A k \in 1 .. n : f[k] = lines[k].id
  BY <1>1, <1>2 DEF Ids
<1>4. \A j, k \in 1 .. n : f[j] = f[k] => j = k
  BY <1>1, <1>3 DEF Distinct
<1>5. \A id \in Ids(lines) : \E k \in 1 .. n : f[k] = id
  BY <1>1, <1>3 DEF Ids
<1>6. f \in Bijection(1 .. n, Ids(lines))
  BY <1>3, <1>4, <1>5 DEF Bijection, Injection, Surjection, IsInjective
<1>7. ExistsBijection(1 .. n, Ids(lines))
  BY <1>6 DEF ExistsBijection
<1>8. Cardinality(Ids(lines)) = n
  BY <1>7, FS_CountingElements
<1> QED
  BY <1>1, <1>8

\* The file and what the agents were shown are lines of words, no line is in
\* the file twice, only a file with lines ends with a newline (fs.rs:553-605),
\* and the bounds hold.
THEOREM WorkspaceTypes == Spec => []TypeOK
<1>1. ASSUME WorkspaceInv
      PROVE  TypeOK
  <2>1. Shapes
    BY <1>1 DEF WorkspaceInv
  <2>2. Cardinality(Ids(text.lines)) = Len(text.lines)
    BY <2>1, IdsOfLines DEF Shapes, TextOK
  <2> QED
    BY <2>1, <2>2 DEF TypeOK, Shapes, TextOK, CallOK, Line
<1> QED
  BY <1>1, AlwaysSafe, PTL

LEMMA OneHolder ==
    ASSUME NEW holders, IsFiniteSet(holders), NEW k \in holders
    PROVE  Cardinality(holders) = 1 <=> holders = {k}
<1>1. Cardinality(holders) = 1 <=> \E x : holders = {x}
  BY FS_Singleton
<1> QED
  BY <1>1

\* An anchor whose line is still in the file names that line, wherever it has
\* moved; or, if others carry the hash now, the one at its very number or none:
\* never a line because of its number alone, nor one of several
\* (fs.rs:4-9, :360-376).
THEOREM AnchorsFollow == Spec => []AnchorsFollowTheirLine
<1>1. ASSUME WorkspaceInv, NEW a \in Agents, Patching(a),
             NEW anchor \in LineAnchors(call[a].hunks), NEW k \in DOMAIN call[a].text.lines,
             anchor.line # Top, call[a].text.lines[k].id = anchor.id
      PROVE  LET lines == call[a].text.lines
                 named == resolve_anchor(lines, anchor)
                 alone == Holders(lines, anchor.hash) = {k}
             IN  IF alone THEN named = k
                 ELSE named \in {k, Stale} \/ (named = anchor.line /\ named \in Holders(lines, anchor.hash))
  <2>1. PICK lines, holders, named :
            /\ lines = call[a].text.lines
            /\ holders = Holders(lines, anchor.hash)
            /\ named = resolve_anchor(lines, anchor)
    OBVIOUS
  <2>2. CallOK(call[a]) /\ call[a].pc = "loaded"
    BY <1>1 DEF WorkspaceInv, Shapes, Patching, At
  <2>3. lines \in Seq(Line)
    BY <2>1, <2>2 DEF CallOK, TextOK
  <2>4. lines[k] \in AllLines
    <3>1. LinesOf(call[a]) \subseteq AllLines
      BY LinesAreKnown
    <3>2. lines[k] \in LinesOf(call[a])
      BY <1>1, <2>1, <2>2 DEF LinesOf, Range
    <3> QED
      BY <3>1, <3>2
  <2>5. LineHash[lines[k].word] = anchor.hash
    BY <1>1, <2>1, <2>4 DEF WorkspaceInv, AnchorsAreTrue
  <2>6. k \in holders
    BY <1>1, <2>1, <2>5 DEF Holders
  <2>7. IsFiniteSet(holders)
    <3>1. PICK n \in Nat : DOMAIN lines = 1 .. n
      BY <2>3
    <3>2. IsFiniteSet(1 .. n)
      BY FS_Interval
    <3>3. holders \subseteq 1 .. n
      BY <2>1, <3>1 DEF Holders
    <3> QED
      BY <3>2, <3>3, FS_Subset
  <2>8. Cardinality(holders) = 1 <=> holders = {k}
    BY <2>6, <2>7, OneHolder
  <2>9. named = IF anchor.line \in holders THEN anchor.line
                ELSE IF Cardinality(holders) = 1 THEN CHOOSE j \in holders : TRUE ELSE Stale
    BY <2>1 DEF resolve_anchor
  <2>10. CASE anchor.line \in holders
    BY <2>1, <2>9, <2>10
  <2>11. CASE anchor.line \notin holders /\ holders = {k}
    <3>1. (CHOOSE j \in holders : TRUE) = k
      BY <2>11
    <3>2. named = k
      BY <2>8, <2>9, <2>11, <3>1
    <3> QED
      BY <2>1, <3>2
  <2>12. CASE anchor.line \notin holders /\ holders # {k}
    <3>1. named = Stale
      BY <2>8, <2>9, <2>12
    <3> QED
      BY <2>1, <2>12, <3>1
  <2> QED
    BY <2>10, <2>11, <2>12
<1>2. WorkspaceInv => AnchorsFollowTheirLine
  BY <1>1 DEF AnchorsFollowTheirLine
<1> QED
  BY <1>2, AlwaysSafe, PTL

-----------------------------------------------------------------------------
(* A patch read at once, and its splices applied one after the other.      *)

\* The first pieces, put together.
Flat(P, m) == FlattenSeq([k \in 1 .. m |-> P[k]])

\* The lines from e + 1 to k, and the one among them that is line k.
Left(lines, e, k) == SubSeq(lines, e + 1, IF k <= Len(lines) THEN k ELSE Len(lines))

ItsLine(lines, e, k) == IF e < k /\ k <= Len(lines) THEN <<lines[k]>> ELSE <<>>

Pieces(P, m) == \A k \in 1 .. m : P[k] \in Seq(Line)

LEMMA FlatNone == ASSUME NEW P PROVE Flat(P, 0) = <<>>
<1>1. PICK s : s = [k \in 1 .. 0 |-> P[k]]
  OBVIOUS
<1>2. s = <<>>
  BY <1>1
<1> QED
  BY <1>1, <1>2, FlattenNone DEF Flat

LEMMA FlatMore ==
    ASSUME NEW P, NEW m \in Nat, NEW l \in Nat, l = m + 1, Pieces(P, l)
    PROVE  Flat(P, m) \in Seq(Line) /\ Flat(P, l) = Flat(P, m) \o P[l]
<1>1. PICK s : s = [k \in 1 .. m |-> P[k]]
  OBVIOUS
<1>2. PICK t : t = [k \in 1 .. l |-> P[k]]
  OBVIOUS
<1>3. \A k \in 1 .. l : P[k] \in Seq(Line)
  BY DEF Pieces
<1>4. s \in Seq(Seq(Line)) /\ P[l] \in Seq(Line)
  BY <1>1, <1>3
<1>5. t = Append(s, P[l])
  BY <1>1, <1>2
<1>6. FlattenSeq(s) \in Seq(Line)
  BY <1>4, FlattenIs
<1>7. FlattenSeq(Append(s, P[l])) = FlattenSeq(s) \o P[l]
  BY <1>4, FlattenMore
<1> QED
  BY <1>1, <1>2, <1>5, <1>6, <1>7, Zenon DEF Flat

LEMMA LeftMore ==
    ASSUME NEW lines \in Seq(Line), NEW e \in Nat, e <= Len(lines), NEW k \in Nat, NEW l \in Nat, l = k + 1,
           e <= k
    PROVE  /\ Left(lines, e, k) \in Seq(Line) /\ ItsLine(lines, e, l) \in Seq(Line)
           /\ Left(lines, e, l) = Left(lines, e, k) \o ItsLine(lines, e, l)
<1>1. PICK n \in Nat : n = Len(lines) /\ DOMAIN lines = 1 .. n
  OBVIOUS
<1>2. CASE l <= n
  <2>1. k <= n /\ e < l /\ l \in 1 .. n
    BY <1>2
  <2>2. PICK x : x = lines[l]
    OBVIOUS
  <2>3. x \in Line
    BY <1>1, <2>1, <2>2
  <2>4. PICK s, t : s = SubSeq(lines, e + 1, k) /\ t = SubSeq(lines, e + 1, l)
    OBVIOUS
  <2>5. s \in Seq(Line) /\ Len(s) = k - e /\ \A j \in 1 .. k - e : s[j] = lines[e + j]
    BY <1>1, <2>1, <2>4, PieceIs
  <2>6. t \in Seq(Line) /\ Len(t) = l - e /\ \A j \in 1 .. l - e : t[j] = lines[e + j]
    BY <1>1, <1>2, <2>1, <2>4, PieceIs
  <2>7. s \o <<x>> = Append(s, x)
    BY <2>3, <2>5
  <2>8. t = Append(s, x)
    <3>1. Append(s, x) \in Seq(Line) /\ Len(Append(s, x)) = l - e
      BY <2>3, <2>5
    <3>2. ASSUME NEW j \in 1 .. l - e PROVE t[j] = Append(s, x)[j]
      <4>1. CASE j = l - e
        <5>1. e + j = l /\ j = Len(s) + 1
          BY <2>5, <4>1
        <5>2. Append(s, x)[j] = x
          BY <2>5, <5>1
        <5> QED
          BY <2>2, <2>6, <5>1, <5>2
      <4>2. CASE j # l - e
        <5>1. j \in 1 .. k - e
          BY <4>2
        <5>2. Append(s, x)[j] = s[j]
          BY <2>5, <5>1
        <5> QED
          BY <2>5, <2>6, <5>1, <5>2
      <4> QED
        BY <4>1, <4>2
    <3> QED
      BY <2>6, <3>1, <3>2
  <2>9. /\ Left(lines, e, k) = s
        /\ Left(lines, e, l) = t
        /\ ItsLine(lines, e, l) = <<x>>
    BY <1>1, <1>2, <2>1, <2>2, <2>4 DEF Left, ItsLine
  <2>10. <<x>> \in Seq(Line)
    BY <2>3
  <2> QED
    BY <2>5, <2>7, <2>8, <2>9, <2>10
<1>3. CASE ~(l <= n)
  <2>1. PICK s : s = SubSeq(lines, e + 1, n)
    OBVIOUS
  <2>2. s \in Seq(Line)
    BY <1>1, <2>1, PieceIs
  <2>3. Left(lines, e, l) = s /\ ItsLine(lines, e, l) = <<>>
    BY <1>1, <1>3, <2>1 DEF Left, ItsLine
  <2>4. Left(lines, e, k) = s
    BY <1>1, <1>3, <2>1 DEF Left
  <2>5. s \o <<>> = s /\ <<>> \in Seq(Line)
    BY <2>2
  <2> QED
    BY <2>2, <2>3, <2>4, <2>5
<1> QED
  BY <1>2, <1>3

LEMMA LeftNone ==
    ASSUME NEW lines \in Seq(Line), NEW e \in Nat, e <= Len(lines), NEW k \in Nat, k <= e
    PROVE  Left(lines, e, k) = <<>> /\ ItsLine(lines, e, k) = <<>>
<1>1. k <= Len(lines)
  OBVIOUS
<1>2. Left(lines, e, k) = SubSeq(lines, e + 1, k) /\ ItsLine(lines, e, k) = <<>>
  BY <1>1 DEF Left, ItsLine
<1> QED
  BY <1>2

\* What the pieces p + 1 .. m are when the lines up to e are taken out and
\* content comes before the first of them.
Run(P, lines, p, m, e, content) ==
    \A k \in p + 1 .. m : P[k] = (IF k = p + 1 THEN content ELSE <<>>) \o ItsLine(lines, e, k)

LEMMA LeftStep ==
    ASSUME NEW lines \in Seq(Line), NEW e \in Nat, e <= Len(lines), NEW k \in Nat, NEW l \in Nat, l = k + 1
    PROVE  /\ Left(lines, e, k) \in Seq(Line) /\ ItsLine(lines, e, l) \in Seq(Line)
           /\ Left(lines, e, l) = Left(lines, e, k) \o ItsLine(lines, e, l)
<1>1. CASE e <= k
  BY <1>1, LeftMore
<1>2. CASE ~(e <= k)
  <2>1. k <= e /\ l <= e
    BY <1>2
  <2>2. /\ Left(lines, e, k) = <<>> /\ Left(lines, e, l) = <<>> /\ ItsLine(lines, e, l) = <<>>
    BY <2>1, LeftNone
  <2>3. <<>> \o <<>> = <<>> /\ <<>> \in Seq(Line)
    OBVIOUS
  <2> QED
    BY <2>2, <2>3
<1> QED
  BY <1>1, <1>2

LEMMA LeftSteps ==
    ASSUME NEW lines \in Seq(Line), NEW e \in Nat, e <= Len(lines), NEW k \in Nat, NEW l \in Nat, l = k + 1
    PROVE  Left(lines, e, l) = Left(lines, e, k) \o ItsLine(lines, e, l)
BY LeftStep

LEMMA JoinAgain ==
    ASSUME NEW x \in Seq(Line), NEW y \in Seq(Line), NEW z \in Seq(Line)
    PROVE  x \o y \in Seq(Line) /\ (x \o y) \o z = x \o (y \o z)
OBVIOUS

\* In one, so that the lemma below can be cited.
RunOK(P, lines, p, m, e, content) ==
    /\ lines \in Seq(Line) /\ content \in Seq(Line)
    /\ p \in Nat /\ m \in Nat /\ e \in Nat /\ p < m /\ p <= e /\ e <= Len(lines)
    /\ Pieces(P, m)
    /\ Run(P, lines, p, m, e, content)

LEMMA RunIs ==
    ASSUME NEW P, NEW lines, NEW p, NEW m, NEW e, NEW content, RunOK(P, lines, p, m, e, content)
    PROVE  Flat(P, m) = Flat(P, p) \o content \o Left(lines, e, m)
<1> SUFFICES ASSUME lines \in Seq(Line), content \in Seq(Line), p \in Nat, m \in Nat, e \in Nat,
                    p < m, p <= e, e <= Len(lines), Pieces(P, m), Run(P, lines, p, m, e, content)
             PROVE  Flat(P, m) = Flat(P, p) \o content \o Left(lines, e, m)
  BY DEF RunOK
<1>1. \A k \in p + 1 .. m : P[k] = (IF k = p + 1 THEN content ELSE <<>>) \o ItsLine(lines, e, k)
  BY DEF Run
<1>2. ASSUME NEW l \in Nat, l <= m
      PROVE  Pieces(P, l)
  BY <1>2 DEF Pieces
<1>3. PICK q \in Nat : q = p + 1
  OBVIOUS
<1>4. q <= m
  BY <1>3
<1>5. Flat(P, p) \in Seq(Line) /\ Flat(P, q) = Flat(P, p) \o P[q]
  <2>1. Pieces(P, q)
    BY <1>2, <1>4
  <2> QED
    BY <1>3, <2>1, FlatMore
<1>6. PICK head \in Seq(Line) : head = Flat(P, p)
  BY <1>5
<1>0. \A i \in Nat, j \in Nat : j = i + 1 => Left(lines, e, j) = Left(lines, e, i) \o ItsLine(lines, e, j)
  BY LeftSteps
<1> DEFINE Holds(k) == Flat(P, k) = head \o content \o Left(lines, e, k)
           T == {k \in q .. m : ~Holds(k)}
<1>7. Holds(q)
  <2>1. P[q] = content \o ItsLine(lines, e, q)
    BY <1>1, <1>3, <1>4
  <2>2. Left(lines, e, p) = <<>>
    BY LeftNone
  <2>3. PICK x \in Seq(Line) : x = ItsLine(lines, e, q)
    BY <1>3, LeftStep
  <2>4. Left(lines, e, q) = <<>> \o x
    <3>1. Left(lines, e, q) = Left(lines, e, p) \o ItsLine(lines, e, q)
      BY <1>0, <1>3
    <3> QED
      BY <2>2, <2>3, <3>1, Zenon
  <2>5. <<>> \o x = x
    OBVIOUS
  <2>6. head \o (content \o x) = (head \o content) \o x
    BY JoinAgain
  <2> QED
    BY <1>5, <1>6, <2>1, <2>3, <2>4, <2>5, <2>6
<1>8. T = {}
  <2> SUFFICES ASSUME T # {} PROVE FALSE
    OBVIOUS
  <2>1. PICK k \in T : \A j \in T : k <= j
    <3>1. T \subseteq Nat
      OBVIOUS
    <3> HIDE DEF T
    <3> QED
      BY <3>1, NatLeast
  <2>2. k \in q .. m /\ ~Holds(k)
    OBVIOUS
  <2>3. k # q
    BY <1>7, <2>2
  <2>4. PICK i \in q .. m : i + 1 = k
    <3>1. k - 1 \in q .. m /\ (k - 1) + 1 = k
      BY <2>2, <2>3
    <3> QED
      BY <3>1
  <2>5. i \notin T
    <3>1. ~(k <= i)
      BY <2>4
    <3> HIDE DEF T
    <3> QED
      BY <2>1, <3>1
  <2>6. Flat(P, i) = head \o content \o Left(lines, e, i)
    BY <2>5
  <2>7. i \in Nat /\ k \in Nat /\ k <= m
    BY <2>2, <2>4
  <2>8. Flat(P, k) = Flat(P, i) \o P[k]
    <3>1. Pieces(P, k)
      BY <1>2, <2>7
    <3> QED
      BY <2>4, <2>7, <3>1, FlatMore
  <2>9. PICK x \in Seq(Line) : x = ItsLine(lines, e, k)
    BY <2>4, <2>7, LeftStep
  <2>10. P[k] = x
    <3>1. k \in p + 1 .. m /\ k # p + 1
      BY <1>3, <2>2, <2>3
    <3>2. P[k] = <<>> \o ItsLine(lines, e, k)
      BY <1>1, <3>1
    <3>3. <<>> \o x = x
      OBVIOUS
    <3> QED
      BY <2>9, <3>2, <3>3
  <2>11. PICK y \in Seq(Line) : y = Left(lines, e, i)
    BY <2>4, <2>7, LeftStep
  <2>12. Left(lines, e, k) = y \o x
    <3>1. k = i + 1
      BY <2>4
    <3>2. Left(lines, e, k) = Left(lines, e, i) \o ItsLine(lines, e, k)
      BY <1>0, <2>7, <3>1
    <3> QED
      BY <2>9, <2>11, <3>2, Zenon
  <2>13. PICK z \in Seq(Line) : z = head \o content
    BY JoinAgain
  <2>14. (z \o y) \o x = z \o (y \o x)
    BY JoinAgain
  <2>15. Holds(k)
    BY <2>6, <2>8, <2>9, <2>10, <2>11, <2>12, <2>13, <2>14
  <2> QED
    BY <2>2, <2>15
<1>9. m \in q .. m
  BY <1>4
<1>10. Holds(m)
  <2>1. m \notin T
    <3> HIDE DEF T
    <3> QED
      BY <1>8
  <2> HIDE DEF Holds
  <2> QED
    BY <1>9, <2>1
<1> QED
  BY <1>5, <1>6, <1>10

\* The lines before the first splice.
LEMMA RunOfLines ==
    ASSUME NEW P, NEW lines \in Seq(Line), NEW m \in Nat, m <= Len(lines), Pieces(P, m),
           Run(P, lines, 0, m, 0, <<>>)
    PROVE  Flat(P, m) = SubSeq(lines, 1, m)
<1>1. CASE m = 0
  <2>1. SubSeq(lines, 1, 0) = <<>>
    OBVIOUS
  <2> QED
    BY <1>1, <2>1, FlatNone
<1>2. CASE m # 0
  <2>1. PICK zero \in Nat, none \in Seq(Line) : zero = 0 /\ none = <<>>
    <3>1. <<>> \in Seq(Line) /\ 0 \in Nat
      OBVIOUS
    <3> QED
      BY <3>1
  <2>6. zero < m /\ zero <= Len(lines) /\ zero <= zero
    BY <1>2, <2>1
  <2>7. Run(P, lines, zero, m, zero, none)
    BY <2>1, Zenon
  <2>8. Flat(P, m) = Flat(P, zero) \o none \o Left(lines, zero, m)
    <3>1. RunOK(P, lines, zero, m, zero, none)
      BY <2>1, <2>6, <2>7 DEF RunOK
    <3> QED
      BY <3>1, RunIs
  <2>2. Flat(P, m) = Flat(P, 0) \o <<>> \o Left(lines, 0, m)
    BY <2>1, <2>8, Zenon
  <2>3. PICK x \in Seq(Line) : x = Left(lines, 0, m)
    <3>1. m + 1 \in Nat
      OBVIOUS
    <3> QED
      BY <2>1, <3>1, LeftStep
  <2>4. <<>> \o <<>> \o x = x
    OBVIOUS
  <2>5. Left(lines, 0, m) = SubSeq(lines, 1, m)
    BY DEF Left
  <2> QED
    BY <2>2, <2>3, <2>4, <2>5, FlatNone
<1> QED
  BY <1>1, <1>2

StartingAt(S, k) == {s \in S : s.start = k - 1}

Keeps(S, k) == \A s \in S : ~(s.start < k /\ k <= s.end)

Piece(lines, S, k) ==
    (IF StartingAt(S, k) = {} THEN <<>> ELSE (CHOOSE s \in StartingAt(S, k) : TRUE).content)
        \o (IF k \in DOMAIN lines /\ Keeps(S, k) THEN <<lines[k]>> ELSE <<>>)

PiecesOf(lines, S) == [k \in 1 .. Len(lines) + 1 |-> Piece(lines, S, k)]

LEMMA AtOnceIs ==
    ASSUME NEW lines \in Seq(Line), NEW S
    PROVE  AtOnce(lines, S) = Flat(PiecesOf(lines, S), Len(lines) + 1)
<1>1. AtOnce(lines, S) = FlattenSeq([k \in 1 .. Len(lines) + 1 |-> Piece(lines, S, k)])
  BY Zenon DEF AtOnce, Piece, StartingAt, Keeps
<1>2. PICK P : P = PiecesOf(lines, S)
  OBVIOUS
<1>3. PICK n \in Nat : n = Len(lines) + 1
  OBVIOUS
<1>4. P = [k \in 1 .. n |-> Piece(lines, S, k)]
  BY <1>2, <1>3 DEF PiecesOf
<1>5. [k \in 1 .. n |-> P[k]] = P
  BY <1>4
<1> QED
  BY <1>1, <1>2, <1>3, <1>4, <1>5 DEF Flat

\* What is inserted before line k, and whether the line stays.
PieceOK(lines, S, k, e, content) ==
    /\ k \in 1 .. Len(lines) + 1 /\ e \in Nat
    /\ \/ StartingAt(S, k) = {} /\ content = <<>>
       \/ \E s : StartingAt(S, k) = {s} /\ content = s.content
    /\ k <= Len(lines) => (Keeps(S, k) <=> e < k)

LEMMA PieceBy ==
    ASSUME NEW lines \in Seq(Line), NEW S, NEW k, NEW e, NEW content, PieceOK(lines, S, k, e, content)
    PROVE  PiecesOf(lines, S)[k] = content \o ItsLine(lines, e, k)
<1> SUFFICES ASSUME k \in 1 .. Len(lines) + 1, e \in Nat,
                    \/ StartingAt(S, k) = {} /\ content = <<>>
                    \/ \E s : StartingAt(S, k) = {s} /\ content = s.content,
                    k <= Len(lines) => (Keeps(S, k) <=> e < k)
             PROVE  PiecesOf(lines, S)[k] = content \o ItsLine(lines, e, k)
  BY DEF PieceOK
<1>1. PICK n \in Nat : n = Len(lines) /\ DOMAIN lines = 1 .. n
  OBVIOUS
<1>2. PiecesOf(lines, S)[k] = Piece(lines, S, k)
  BY DEF PiecesOf
<1>3. PICK first : first = IF StartingAt(S, k) = {} THEN <<>> ELSE (CHOOSE s \in StartingAt(S, k) : TRUE).content
  OBVIOUS
<1>4. first = content
  <2>1. CASE StartingAt(S, k) = {} /\ content = <<>>
    BY <1>3, <2>1
  <2>2. CASE \E s : StartingAt(S, k) = {s} /\ content = s.content
    <3>1. PICK s : StartingAt(S, k) = {s} /\ content = s.content
      BY <2>2
    <3>2. (CHOOSE r \in {s} : TRUE) = s
      OBVIOUS
    <3>3. {s} # {}
      OBVIOUS
    <3> QED
      BY <1>3, <3>1, <3>2, <3>3, Zenon
  <2> QED
    BY <2>1, <2>2
<1>5. k \in DOMAIN lines <=> k <= n
  BY <1>1
<1>6. (IF k \in DOMAIN lines /\ Keeps(S, k) THEN <<lines[k]>> ELSE <<>>) = ItsLine(lines, e, k)
  <2>1. CASE k <= n
    BY <1>1, <1>5, <2>1 DEF ItsLine
  <2>2. CASE ~(k <= n)
    BY <1>1, <1>5, <2>2 DEF ItsLine
  <2> QED
    BY <2>1, <2>2
<1> QED
  BY <1>2, <1>3, <1>4, <1>6, Zenon DEF Piece

LEMMA PiecesAre ==
    ASSUME NEW lines \in Seq(Line), NEW S, \A s \in S : s.content \in Seq(Line),
           NEW m \in Nat, m <= Len(lines) + 1
    PROVE  Pieces(PiecesOf(lines, S), m)
<1>1. ASSUME NEW k \in 1 .. m
      PROVE  PiecesOf(lines, S)[k] \in Seq(Line)
  <2>1. k \in 1 .. Len(lines) + 1
    OBVIOUS
  <2>2. PiecesOf(lines, S)[k] = Piece(lines, S, k)
    BY <2>1 DEF PiecesOf
  <2>3. PICK first : first = IF StartingAt(S, k) = {} THEN <<>> ELSE (CHOOSE s \in StartingAt(S, k) : TRUE).content
    OBVIOUS
  <2>4. first \in Seq(Line)
    <3>1. <<>> \in Seq(Line)
      OBVIOUS
    <3>2. CASE StartingAt(S, k) # {}
      <4>1. PICK s : s = CHOOSE r \in StartingAt(S, k) : TRUE
        OBVIOUS
      <4>2. s \in StartingAt(S, k)
        BY <3>2, <4>1
      <4>3. s \in S
        BY <4>2 DEF StartingAt
      <4> QED
        BY <2>3, <3>2, <4>1, <4>3, Zenon
    <3> QED
      BY <2>3, <3>1, <3>2
  <2>5. PICK rest : rest = IF k \in DOMAIN lines /\ Keeps(S, k) THEN <<lines[k]>> ELSE <<>>
    OBVIOUS
  <2>6. rest \in Seq(Line)
    <3>1. <<>> \in Seq(Line)
      OBVIOUS
    <3>2. CASE k \in DOMAIN lines
      <4>1. lines[k] \in Line
        BY <3>2
      <4>2. <<lines[k]>> \in Seq(Line)
        BY <4>1
      <4> QED
        BY <2>5, <3>1, <4>2, Zenon
    <3>3. CASE k \notin DOMAIN lines
      BY <2>5, <3>1, <3>3, Zenon
    <3> QED
      BY <3>2, <3>3
  <2>7. first \o rest \in Seq(Line)
    BY <2>4, <2>6
  <2> QED
    BY <2>2, <2>3, <2>5, <2>7, Zenon DEF Piece
<1> QED
  BY <1>1 DEF Pieces

\* One splice, at once and applied.
LEMMA AtOnceOne ==
    ASSUME NEW lines \in Seq(Line), NEW s, SpliceOK(s, lines)
    PROVE  AtOnce(lines, {s}) = Spliced(s, lines)
<1>1. PICK n \in Nat, l \in Nat : n = Len(lines) /\ l = n + 1
  OBVIOUS
<1>2. PICK a \in Nat, e \in Nat, content \in Seq(Line) : a = s.start /\ e = s.end /\ content = s.content
  BY DEF SpliceOK, ContentOK
<1>3. a <= e /\ e <= n
  BY <1>1, <1>2 DEF SpliceOK
<1>4. PICK S : S = {s}
  OBVIOUS
<1>5. PICK P : P = PiecesOf(lines, S)
  OBVIOUS
<1>6. Pieces(P, a) /\ Pieces(P, l)
  <2>1. \A r \in S : r.content \in Seq(Line)
    BY <1>2, <1>4
  <2>2. a <= Len(lines) + 1 /\ l <= Len(lines) + 1
    BY <1>1, <1>3
  <2> QED
    BY <1>5, <2>1, <2>2, PiecesAre
<1>7. PICK none \in Seq(Line), zero \in Nat : none = <<>> /\ zero = 0
  <2>1. <<>> \in Seq(Line) /\ 0 \in Nat
    OBVIOUS
  <2> QED
    BY <2>1
<1>8. Flat(P, a) = SubSeq(lines, 1, a)
  <2>1. ASSUME NEW k \in 1 .. a
        PROVE  P[k] = none \o ItsLine(lines, zero, k)
    <3>1. k \in 1 .. Len(lines) + 1 /\ k - 1 # a /\ k <= a
      BY <1>1, <1>3
    <3>2. StartingAt(S, k) = {}
      BY <1>2, <1>4, <3>1 DEF StartingAt
    <3>3. Keeps(S, k) /\ zero < k
      BY <1>2, <1>4, <1>7, <3>1 DEF Keeps
    <3>4. PieceOK(lines, S, k, zero, none)
      BY <1>7, <3>1, <3>2, <3>3 DEF PieceOK
    <3> QED
      BY <1>5, <3>4, PieceBy
  <2>2. Run(P, lines, 0, a, 0, <<>>)
    BY <1>7, <2>1 DEF Run
  <2>3. a <= Len(lines)
    BY <1>1, <1>3
  <2> QED
    BY <1>6, <2>2, <2>3, RunOfLines
<1>9. Flat(P, l) = Flat(P, a) \o content \o Left(lines, e, l)
  <2>1. ASSUME NEW k \in a + 1 .. l
        PROVE  P[k] = (IF k = a + 1 THEN content ELSE <<>>) \o ItsLine(lines, e, k)
    <3>1. k \in 1 .. Len(lines) + 1 /\ a < k
      BY <1>1, <1>3
    <3>2. Keeps(S, k) <=> e < k
      BY <1>2, <1>4, <3>1 DEF Keeps
    <3>3. CASE k = a + 1
      <4>1. StartingAt(S, k) = {s}
        BY <1>2, <1>4, <3>3 DEF StartingAt
      <4>2. PieceOK(lines, S, k, e, content)
        BY <1>2, <3>1, <3>2, <4>1 DEF PieceOK
      <4>3. PiecesOf(lines, S)[k] = content \o ItsLine(lines, e, k)
        BY <4>2, PieceBy
      <4> QED
        BY <1>5, <3>3, <4>3, Zenon
    <3>4. CASE k # a + 1
      <4>1. StartingAt(S, k) = {}
        BY <1>2, <1>4, <3>4 DEF StartingAt
      <4>2. PieceOK(lines, S, k, e, <<>>)
        BY <3>1, <3>2, <4>1 DEF PieceOK
      <4>3. PiecesOf(lines, S)[k] = <<>> \o ItsLine(lines, e, k)
        BY <4>2, PieceBy
      <4> QED
        BY <1>5, <3>4, <4>3, Zenon
    <3> QED
      BY <3>3, <3>4
  <2>2. Run(P, lines, a, l, e, content)
    BY <2>1, Zenon DEF Run
  <2>3. RunOK(P, lines, a, l, e, content)
    <3>1. a < l /\ a <= e /\ e <= Len(lines)
      BY <1>1, <1>3
    <3> QED
      BY <1>6, <2>2, <3>1 DEF RunOK
  <2> QED
    BY <2>3, RunIs
<1>10. Left(lines, e, l) = SubSeq(lines, e + 1, Len(lines))
  BY <1>1 DEF Left
<1>11. AtOnce(lines, S) = Flat(P, l)
  BY <1>1, <1>5, AtOnceIs
<1>12. Spliced(s, lines) = SubSeq(lines, 1, a) \o content \o SubSeq(lines, e + 1, Len(lines))
  BY <1>2 DEF Spliced
<1> QED
  BY <1>4, <1>8, <1>9, <1>10, <1>11, <1>12, Zenon

LEMMA SameSeq ==
    ASSUME NEW S, NEW s \in Seq(S), NEW t \in Seq(S), Len(s) = Len(t), \A k \in 1 .. Len(s) : s[k] = t[k]
    PROVE  s = t
OBVIOUS

\* What is left of a sequence put together from two when some of the first go.
LEMMA DroppedFrom ==
    ASSUME NEW x \in Seq(Line), NEW y \in Seq(Line), NEW i \in Nat, i <= Len(x)
    PROVE  SubSeq(x \o y, i + 1, Len(x \o y)) = SubSeq(x, i + 1, Len(x)) \o y
<1>1. PICK n \in Nat, m \in Nat, l \in Nat : n = Len(x) /\ m = Len(y) /\ l = n + m
  OBVIOUS
<1>2. PICK both : both = x \o y
  OBVIOUS
<1>3. /\ both \in Seq(Line) /\ Len(both) = l
      /\ \A k \in 1 .. n : both[k] = x[k]
      /\ \A k \in 1 .. m : both[n + k] = y[k]
  BY <1>1, <1>2, ConcatIs
<1>4. PICK left : left = SubSeq(both, i + 1, l)
  OBVIOUS
<1>5. left \in Seq(Line) /\ Len(left) = l - i /\ \A k \in 1 .. l - i : left[k] = both[i + k]
  <2>1. i <= l /\ l <= Len(both)
    BY <1>1, <1>3
  <2> QED
    BY <1>3, <1>4, <2>1, PieceIs
<1>6. PICK head : head = SubSeq(x, i + 1, n)
  OBVIOUS
<1>7. head \in Seq(Line) /\ Len(head) = n - i /\ \A k \in 1 .. n - i : head[k] = x[i + k]
  <2>1. i <= n /\ n <= Len(x)
    BY <1>1
  <2> QED
    BY <1>6, <2>1, PieceIs
<1>8. PICK right : right = head \o y
  OBVIOUS
<1>9. PICK h \in Nat : h = n - i
  <2>1. n - i \in Nat
    BY <1>1
  <2> QED
    BY <2>1
<1>10. /\ right \in Seq(Line) /\ Len(right) = h + m
       /\ \A k \in 1 .. h : right[k] = head[k]
       /\ \A k \in 1 .. m : right[h + k] = y[k]
  <2>1. Len(head) = h /\ head \in Seq(Line)
    BY <1>7, <1>9
  <2>2. /\ head \o y \in Seq(Line) /\ Len(head \o y) = Len(head) + Len(y)
        /\ \A k \in 1 .. Len(head) : (head \o y)[k] = head[k]
        /\ \A k \in 1 .. Len(y) : (head \o y)[Len(head) + k] = y[k]
    <3>1. head \in Seq(Line)
      BY <2>1
    <3> QED
      BY <3>1, ConcatIs, SMT
  <2> QED
    BY <1>1, <1>8, <2>1, <2>2, Zenon
<1>11. l - i = h + m
  BY <1>1, <1>9
<1>12. ASSUME NEW k \in 1 .. h + m
       PROVE  left[k] = right[k]
  <2>1. CASE k <= h
    <3>1. k \in 1 .. h /\ k \in 1 .. n - i /\ i + k \in 1 .. n /\ k \in 1 .. l - i
      BY <1>1, <1>9, <2>1
    <3>2. left[k] = both[i + k] /\ both[i + k] = x[i + k]
      BY <1>3, <1>5, <3>1
    <3>3. right[k] = head[k] /\ head[k] = x[i + k]
      BY <1>7, <1>10, <3>1
    <3> QED
      BY <3>2, <3>3
  <2>2. CASE ~(k <= h)
    <3>1. PICK j \in 1 .. m : k = h + j
      <4>1. k - h \in 1 .. m /\ k = h + (k - h)
        BY <1>1, <1>9, <2>2
      <4> QED
        BY <4>1
    <3>2. k \in 1 .. l - i /\ i + k = n + j
      BY <1>1, <1>9, <3>1
    <3>3. left[k] = both[n + j]
      BY <1>5, <3>2
    <3>4. both[n + j] = y[j] /\ right[k] = y[j]
      BY <1>3, <1>10, <3>1
    <3> QED
      BY <3>3, <3>4
  <2> QED
    BY <2>1, <2>2
<1>13. left = right
  <2>1. Len(left) = Len(right) /\ \A k \in 1 .. Len(left) : left[k] = right[k]
    BY <1>5, <1>10, <1>11, <1>12
  <2> QED
    BY <1>5, <1>10, <2>1, SameSeq
<1> QED
  BY <1>1, <1>2, <1>3, <1>4, <1>6, <1>8, <1>13, Zenon

LEMMA KeptOf ==
    ASSUME NEW x \in Seq(Line), NEW y \in Seq(Line), NEW i \in Nat, i <= Len(x)
    PROVE  SubSeq(x \o y, 1, i) = SubSeq(x, 1, i)
<1>1. PICK n \in Nat : n = Len(x)
  OBVIOUS
<1>2. PICK both : both = x \o y
  OBVIOUS
<1>3. /\ both \in Seq(Line) /\ i <= Len(both) /\ i <= Len(x)
      /\ \A k \in 1 .. n : both[k] = x[k]
  BY <1>1, <1>2, ConcatIs
<1>4. PICK left, right : left = SubSeq(both, 0 + 1, i) /\ right = SubSeq(x, 0 + 1, i)
  OBVIOUS
<1>5. left \in Seq(Line) /\ Len(left) = i - 0 /\ \A k \in 1 .. i - 0 : left[k] = both[0 + k]
  BY <1>3, <1>4, PieceIs
<1>6. right \in Seq(Line) /\ Len(right) = i - 0 /\ \A k \in 1 .. i - 0 : right[k] = x[0 + k]
  BY <1>3, <1>4, PieceIs
<1>7. \A k \in 1 .. i - 0 : left[k] = right[k]
  <2>1. \A k \in 1 .. i - 0 : 0 + k \in 1 .. n
    BY <1>1
  <2> QED
    BY <1>3, <1>5, <1>6, <2>1
<1>8. left = right
  <2>1. Len(left) = Len(right) /\ \A k \in 1 .. Len(left) : left[k] = right[k]
    BY <1>5, <1>6, <1>7
  <2> QED
    BY <1>5, <1>6, <2>1, SameSeq
<1> QED
  BY <1>2, <1>4, <1>8

\* A part of the first lines is the same part of all of them.
LEMMA PartOf ==
    ASSUME NEW lines \in Seq(Line), NEW i \in Nat, NEW b \in Nat, i <= b, b <= Len(lines)
    PROVE  LET x == SubSeq(lines, 1, b)
           IN  /\ x \in Seq(Line) /\ Len(x) = b
               /\ SubSeq(x, 1, i) = SubSeq(lines, 1, i)
               /\ SubSeq(x, i + 1, b) = SubSeq(lines, i + 1, b)
<1>1. PICK x : x = SubSeq(lines, 0 + 1, b)
  OBVIOUS
<1>2. x \in Seq(Line) /\ Len(x) = b - 0 /\ \A k \in 1 .. b - 0 : x[k] = lines[0 + k]
  BY <1>1, PieceIs
<1>3. Len(x) = b /\ \A k \in 1 .. b : x[k] = lines[k]
  BY <1>2
<1>4. PICK l1, r1 : l1 = SubSeq(x, 0 + 1, i) /\ r1 = SubSeq(lines, 0 + 1, i)
  OBVIOUS
<1>5. i <= Len(x) /\ i <= Len(lines) /\ 0 <= i
  BY <1>3
<1>6. l1 \in Seq(Line) /\ Len(l1) = i - 0 /\ \A k \in 1 .. i - 0 : l1[k] = x[0 + k]
  BY <1>2, <1>4, <1>5, PieceIs
<1>7. r1 \in Seq(Line) /\ Len(r1) = i - 0 /\ \A k \in 1 .. i - 0 : r1[k] = lines[0 + k]
  BY <1>4, <1>5, PieceIs
<1>8. l1 = r1
  <2>1. \A k \in 1 .. i - 0 : 0 + k \in 1 .. b
    OBVIOUS
  <2>2. Len(l1) = Len(r1) /\ \A k \in 1 .. Len(l1) : l1[k] = r1[k]
    BY <1>3, <1>6, <1>7, <2>1
  <2> QED
    BY <1>6, <1>7, <2>2, SameSeq
<1>9. PICK l2, r2 : l2 = SubSeq(x, i + 1, b) /\ r2 = SubSeq(lines, i + 1, b)
  OBVIOUS
<1>10. l2 \in Seq(Line) /\ Len(l2) = b - i /\ \A k \in 1 .. b - i : l2[k] = x[i + k]
  <2>1. b <= Len(x)
    BY <1>3
  <2> QED
    BY <1>2, <1>9, <2>1, PieceIs
<1>11. r2 \in Seq(Line) /\ Len(r2) = b - i /\ \A k \in 1 .. b - i : r2[k] = lines[i + k]
  BY <1>9, PieceIs
<1>12. l2 = r2
  <2>1. \A k \in 1 .. b - i : i + k \in 1 .. b
    OBVIOUS
  <2>2. Len(l2) = Len(r2) /\ \A k \in 1 .. Len(l2) : l2[k] = r2[k]
    BY <1>3, <1>10, <1>11, <2>1
  <2> QED
    BY <1>10, <1>11, <2>2, SameSeq
<1> QED
  BY <1>1, <1>2, <1>3, <1>4, <1>8, <1>9, <1>12

\* The second splice applied first, then the first.
LEMMA SplicedBoth ==
    ASSUME NEW lines \in Seq(Line), NEW a, NEW b, SpliceOK(a, lines), SpliceOK(b, lines), a.end <= b.start
    PROVE  Spliced(a, Spliced(b, lines)) =
               SubSeq(lines, 1, a.start) \o a.content \o SubSeq(lines, a.end + 1, b.start)
                   \o b.content \o SubSeq(lines, b.end + 1, Len(lines))
<1>0. \A u \in Seq(Line), v \in Seq(Line), w \in Seq(Line) : (u \o v) \o w = u \o (v \o w)
  BY JoinAgain
<1>1. PICK a0 \in Nat, a1 \in Nat, ca \in Seq(Line) : a0 = a.start /\ a1 = a.end /\ ca = a.content
  BY DEF SpliceOK, ContentOK
<1>2. PICK b0 \in Nat, b1 \in Nat, cb \in Seq(Line) : b0 = b.start /\ b1 = b.end /\ cb = b.content
  BY DEF SpliceOK, ContentOK
<1>3. PICK n \in Nat : n = Len(lines)
  OBVIOUS
<1>4. a0 <= a1 /\ a1 <= b0 /\ b0 <= b1 /\ b1 <= n
  BY <1>1, <1>2, <1>3 DEF SpliceOK
<1>5. PICK x : x = SubSeq(lines, 1, b0)
  OBVIOUS
<1>6. PICK tail : tail = SubSeq(lines, b1 + 1, n)
  OBVIOUS
<1>7. tail \in Seq(Line)
  BY <1>3, <1>4, <1>6, PieceIs
<1>8. PICK rest \in Seq(Line) : rest = cb \o tail
  BY <1>7, JoinAgain
<1>9. /\ x \in Seq(Line) /\ Len(x) = b0
      /\ SubSeq(x, a1 + 1, b0) = SubSeq(lines, a1 + 1, b0)
      /\ SubSeq(x, 1, a0) = SubSeq(lines, 1, a0)
  <2>1. a1 <= b0 /\ a0 <= b0 /\ b0 <= Len(lines)
    BY <1>3, <1>4
  <2> QED
    BY <1>5, <2>1, PartOf
<1>10. PICK mid : mid = Spliced(b, lines)
  OBVIOUS
<1>11. mid = x \o rest
  <2>1. mid = x \o cb \o tail
    BY <1>2, <1>3, <1>5, <1>6, <1>10, Zenon DEF Spliced
  <2>2. (x \o cb) \o tail = x \o (cb \o tail)
    BY <1>7, <1>9, JoinAgain
  <2> QED
    BY <1>8, <2>1, <2>2
<1>12. SubSeq(mid, 1, a0) = SubSeq(lines, 1, a0)
  <2>1. a0 <= Len(x)
    BY <1>4, <1>9
  <2>2. SubSeq(x \o rest, 1, a0) = SubSeq(x, 1, a0)
    BY <1>9, <2>1, KeptOf
  <2> QED
    BY <1>9, <1>11, <2>2
<1>13. PICK head \in Seq(Line) : head = SubSeq(lines, 1, a0)
  <2>1. 0 <= a0 /\ a0 <= Len(lines) /\ 0 \in Nat
    BY <1>3, <1>4
  <2>2. SubSeq(lines, 1, a0) \in Seq(Line)
    BY <2>1, PartOf
  <2> QED
    BY <2>2, Zenon
<1>14. PICK between \in Seq(Line) : between = SubSeq(lines, a1 + 1, b0)
  <2>1. b0 <= Len(lines)
    BY <1>3, <1>4
  <2>2. SubSeq(lines, a1 + 1, b0) \in Seq(Line)
    BY <1>4, <2>1, PieceIs
  <2> QED
    BY <2>2, Zenon
<1>15. SubSeq(mid, a1 + 1, Len(mid)) = between \o rest
  <2>1. a1 <= Len(x)
    BY <1>4, <1>9
  <2>2. SubSeq(x \o rest, a1 + 1, Len(x \o rest)) = SubSeq(x, a1 + 1, Len(x)) \o rest
    BY <1>9, <2>1, DroppedFrom
  <2> QED
    BY <1>9, <1>11, <1>14, <2>2, Zenon
<1>16. Spliced(a, mid) = head \o ca \o (between \o rest)
  BY <1>1, <1>12, <1>13, <1>15, Zenon DEF Spliced
<1>17. (head \o ca) \o (between \o rest) = head \o ca \o between \o cb \o tail
  <2>1. PICK h \in Seq(Line) : h = head \o ca
    BY JoinAgain
  <2>2. (h \o between) \o rest = h \o (between \o rest)
    BY <1>0, Zenon
  <2>3. PICK g \in Seq(Line) : g = h \o between
    BY JoinAgain
  <2>4. (g \o cb) \o tail = g \o (cb \o tail)
    <3>1. \A v \in Seq(Line), w \in Seq(Line) : (g \o v) \o w = g \o (v \o w)
      BY <1>0
    <3> QED
      BY <1>7, <3>1, Zenon
  <2> QED
    BY <1>8, <2>1, <2>2, <2>3, <2>4
<1> QED
  BY <1>1, <1>2, <1>3, <1>6, <1>10, <1>13, <1>14, <1>16, <1>17, Zenon

\* Two splices that touch neither each other nor the same place, at once and
\* one after the other.
LEMMA AtOnceTwo ==
    ASSUME NEW lines \in Seq(Line), NEW a, NEW b, SpliceOK(a, lines), SpliceOK(b, lines),
           a.end <= b.start, a.start # b.start
    PROVE  AtOnce(lines, {a, b}) = Spliced(a, Spliced(b, lines))
<1>1. PICK n \in Nat, l \in Nat : n = Len(lines) /\ l = n + 1
  OBVIOUS
<1>2. PICK a0 \in Nat, a1 \in Nat, ca \in Seq(Line) : a0 = a.start /\ a1 = a.end /\ ca = a.content
  BY DEF SpliceOK, ContentOK
<1>3. PICK b0 \in Nat, b1 \in Nat, cb \in Seq(Line) : b0 = b.start /\ b1 = b.end /\ cb = b.content
  BY DEF SpliceOK, ContentOK
<1>4. a0 <= a1 /\ a1 <= b0 /\ b0 <= b1 /\ b1 <= n /\ a0 < b0
  BY <1>1, <1>2, <1>3 DEF SpliceOK
<1>5. PICK S : S = {a, b}
  OBVIOUS
<1>6. PICK P : P = PiecesOf(lines, S)
  OBVIOUS
<1>7. Pieces(P, a0) /\ Pieces(P, b0) /\ Pieces(P, l)
  <2>1. \A r \in S : r.content \in Seq(Line)
    BY <1>2, <1>3, <1>5
  <2>2. a0 <= Len(lines) + 1 /\ b0 <= Len(lines) + 1 /\ l <= Len(lines) + 1
    BY <1>1, <1>4
  <2> QED
    BY <1>6, <2>1, <2>2, PiecesAre
<1>8. Flat(P, a0) = SubSeq(lines, 1, a0)
  <2>1. PICK none \in Seq(Line), zero \in Nat : none = <<>> /\ zero = 0
    <3>1. <<>> \in Seq(Line) /\ 0 \in Nat
      OBVIOUS
    <3> QED
      BY <3>1
  <2>2. ASSUME NEW k \in 1 .. a0
        PROVE  P[k] = none \o ItsLine(lines, zero, k)
    <3>1. k \in 1 .. Len(lines) + 1 /\ k - 1 # a0 /\ k - 1 # b0 /\ k <= a0 /\ k <= b0
      BY <1>1, <1>4
    <3>2. StartingAt(S, k) = {}
      BY <1>2, <1>3, <1>5, <3>1 DEF StartingAt
    <3>3. Keeps(S, k) /\ zero < k
      BY <1>2, <1>3, <1>5, <2>1, <3>1 DEF Keeps
    <3>4. PieceOK(lines, S, k, zero, none)
      BY <2>1, <3>1, <3>2, <3>3 DEF PieceOK
    <3> QED
      BY <1>6, <3>4, PieceBy
  <2>3. Run(P, lines, 0, a0, 0, <<>>)
    BY <2>1, <2>2 DEF Run
  <2>4. a0 <= Len(lines)
    BY <1>1, <1>4
  <2> QED
    BY <1>7, <2>3, <2>4, RunOfLines
<1>9. Flat(P, b0) = Flat(P, a0) \o ca \o Left(lines, a1, b0)
  <2>1. ASSUME NEW k \in a0 + 1 .. b0
        PROVE  P[k] = (IF k = a0 + 1 THEN ca ELSE <<>>) \o ItsLine(lines, a1, k)
    <3>1. k \in 1 .. Len(lines) + 1 /\ a0 < k /\ k <= b0 /\ k - 1 # b0
      BY <1>1, <1>4
    <3>2. Keeps(S, k) <=> a1 < k
      BY <1>2, <1>3, <1>5, <3>1 DEF Keeps
    <3>3. CASE k = a0 + 1
      <4>1. StartingAt(S, k) = {a}
        BY <1>2, <1>3, <1>5, <3>1, <3>3 DEF StartingAt
      <4>2. PieceOK(lines, S, k, a1, ca)
        BY <1>2, <3>1, <3>2, <4>1 DEF PieceOK
      <4>3. PiecesOf(lines, S)[k] = ca \o ItsLine(lines, a1, k)
        BY <4>2, PieceBy
      <4> QED
        BY <1>6, <3>3, <4>3, Zenon
    <3>4. CASE k # a0 + 1
      <4>1. StartingAt(S, k) = {}
        BY <1>2, <1>3, <1>5, <3>1, <3>4 DEF StartingAt
      <4>2. PieceOK(lines, S, k, a1, <<>>)
        BY <3>1, <3>2, <4>1 DEF PieceOK
      <4>3. PiecesOf(lines, S)[k] = <<>> \o ItsLine(lines, a1, k)
        BY <4>2, PieceBy
      <4> QED
        BY <1>6, <3>4, <4>3, Zenon
    <3> QED
      BY <3>3, <3>4
  <2>2. Run(P, lines, a0, b0, a1, ca)
    BY <2>1, Zenon DEF Run
  <2>3. RunOK(P, lines, a0, b0, a1, ca)
    <3>1. a0 < b0 /\ a0 <= a1 /\ a1 <= Len(lines)
      BY <1>1, <1>4
    <3> QED
      BY <1>7, <2>2, <3>1 DEF RunOK
  <2> QED
    BY <2>3, RunIs
<1>10. Flat(P, l) = Flat(P, b0) \o cb \o Left(lines, b1, l)
  <2>1. ASSUME NEW k \in b0 + 1 .. l
        PROVE  P[k] = (IF k = b0 + 1 THEN cb ELSE <<>>) \o ItsLine(lines, b1, k)
    <3>1. k \in 1 .. Len(lines) + 1 /\ b0 < k /\ k - 1 # a0 /\ ~(k <= a1)
      BY <1>1, <1>4
    <3>2. Keeps(S, k) <=> b1 < k
      BY <1>2, <1>3, <1>5, <3>1 DEF Keeps
    <3>3. CASE k = b0 + 1
      <4>1. StartingAt(S, k) = {b}
        BY <1>2, <1>3, <1>5, <3>1, <3>3 DEF StartingAt
      <4>2. PieceOK(lines, S, k, b1, cb)
        BY <1>3, <3>1, <3>2, <4>1 DEF PieceOK
      <4>3. PiecesOf(lines, S)[k] = cb \o ItsLine(lines, b1, k)
        BY <4>2, PieceBy
      <4> QED
        BY <1>6, <3>3, <4>3, Zenon
    <3>4. CASE k # b0 + 1
      <4>1. StartingAt(S, k) = {}
        BY <1>2, <1>3, <1>5, <3>1, <3>4 DEF StartingAt
      <4>2. PieceOK(lines, S, k, b1, <<>>)
        BY <3>1, <3>2, <4>1 DEF PieceOK
      <4>3. PiecesOf(lines, S)[k] = <<>> \o ItsLine(lines, b1, k)
        BY <4>2, PieceBy
      <4> QED
        BY <1>6, <3>4, <4>3, Zenon
    <3> QED
      BY <3>3, <3>4
  <2>2. Run(P, lines, b0, l, b1, cb)
    BY <2>1, Zenon DEF Run
  <2>3. RunOK(P, lines, b0, l, b1, cb)
    <3>1. b0 < l /\ b0 <= b1 /\ b1 <= Len(lines)
      BY <1>1, <1>4
    <3> QED
      BY <1>7, <2>2, <3>1 DEF RunOK
  <2> QED
    BY <2>3, RunIs
<1>11. Left(lines, a1, b0) = SubSeq(lines, a1 + 1, b0)
  BY <1>1, <1>4 DEF Left
<1>12. Left(lines, b1, l) = SubSeq(lines, b1 + 1, Len(lines))
  BY <1>1 DEF Left
<1>13. AtOnce(lines, S) = Flat(P, l)
  BY <1>1, <1>6, AtOnceIs
<1>14. Spliced(a, Spliced(b, lines)) =
           SubSeq(lines, 1, a0) \o ca \o SubSeq(lines, a1 + 1, b0) \o cb \o SubSeq(lines, b1 + 1, Len(lines))
  BY <1>2, <1>3, SplicedBoth, Zenon
<1> QED
  BY <1>5, <1>8, <1>9, <1>10, <1>11, <1>12, <1>13, <1>14, Zenon

\* When a patch of one or of two hunks is accepted.
LEMMA AcceptedOne ==
    ASSUME NEW t, NEW h
    PROVE  Patched(t, <<h>>).ok <=> Accepted(t.lines, h)
<1>1. PICK hunks : hunks = <<h>>
  OBVIOUS
<1>2. DOMAIN hunks = {1} /\ hunks[1] = h
  BY <1>1
<1>3. PICK s : s = Splice(t.lines, h)
  OBVIOUS
<1>4. [k \in DOMAIN hunks |-> Splice(t.lines, hunks[k])] = <<s>>
  BY <1>2, <1>3
<1>5. PICK parsed : parsed = parse_hunks(t.lines, hunks)
  OBVIOUS
<1>6. parsed = IF Accepted(t.lines, h) /\ ~Overlap(<<s>>) THEN [ok |-> TRUE, splices |-> <<s>>] ELSE Refused
  BY <1>2, <1>4, <1>5, SortedOne DEF parse_hunks
<1>7. ~Overlap(<<s>>)
  BY DEF Overlap
<1>8. parsed.ok <=> Accepted(t.lines, h)
  BY <1>6, <1>7 DEF Refused
<1>9. Patched(t, hunks).ok <=> parsed.ok
  BY <1>5 DEF Patched, Refused
<1> QED
  BY <1>1, <1>8, <1>9

LEMMA AcceptedTwo ==
    ASSUME NEW t, TextOK(t), NEW g, NEW h, HunkOK(g, t.lines), HunkOK(h, t.lines)
    PROVE  Patched(t, <<g, h>>).ok <=> /\ Accepted(t.lines, g) /\ Accepted(t.lines, h)
                                       /\ Disjoint(Splice(t.lines, g), Splice(t.lines, h))
<1>1. PICK hunks : hunks = <<g, h>>
  OBVIOUS
<1>2. DOMAIN hunks = {1, 2} /\ hunks[1] = g /\ hunks[2] = h
  BY <1>1
<1>3. PICK p, q : p = Splice(t.lines, g) /\ q = Splice(t.lines, h)
  OBVIOUS
<1>4. [k \in DOMAIN hunks |-> Splice(t.lines, hunks[k])] = <<p, q>>
  BY <1>2, <1>3
<1>5. PICK parsed : parsed = parse_hunks(t.lines, hunks)
  OBVIOUS
<1>6. parsed = IF (\A k \in DOMAIN hunks : Accepted(t.lines, hunks[k])) /\ ~Overlap(Sorted(<<p, q>>))
               THEN [ok |-> TRUE, splices |-> Sorted(<<p, q>>)] ELSE Refused
  BY <1>4, <1>5 DEF parse_hunks
<1>7. Patched(t, hunks).ok <=> parsed.ok
  BY <1>5 DEF Patched, Refused
<1>8. parsed.ok <=> (\A k \in DOMAIN hunks : Accepted(t.lines, hunks[k])) /\ ~Overlap(Sorted(<<p, q>>))
  BY <1>6 DEF Refused
<1>9. (\A k \in DOMAIN hunks : Accepted(t.lines, hunks[k])) <=> Accepted(t.lines, g) /\ Accepted(t.lines, h)
  BY <1>2
<1>10. ASSUME Accepted(t.lines, g), Accepted(t.lines, h)
       PROVE  ~Overlap(Sorted(<<p, q>>)) <=> Disjoint(p, q)
  <2>1. t.lines \in Seq(Line)
    BY DEF TextOK
  <2>2. SpliceOK(p, t.lines) /\ SpliceOK(q, t.lines)
    BY <1>3, <1>10, <2>1, SpliceIsOK
  <2>3. /\ p.start \in Nat /\ p.end \in Nat /\ q.start \in Nat /\ q.end \in Nat
        /\ p.start <= p.end /\ q.start <= q.end
    BY <2>2 DEF SpliceOK
  <2>4. PICK a, b : /\ Sorted(<<p, q>>) = <<a, b>>
                    /\ (a = p /\ b = q) \/ (a = q /\ b = p)
                    /\ NotAfter(a, b)
    BY <2>3, SortedTwo
  <2>5. PICK both : both = <<a, b>>
    OBVIOUS
  <2>6. Len(both) - 1 = 1 /\ both[1] = a /\ both[2] = b /\ 1 + 1 = 2
    BY <2>5
  <2>7. \A k : k \in 1 .. 1 <=> k = 1
    OBVIOUS
  <2>8. Overlap(both) <=> b.start < a.end \/ b.start = a.start
    BY <2>6, <2>7 DEF Overlap
  <2>9. ~(b.start < a.end \/ b.start = a.start) <=> Disjoint(a, b)
    <3>1. /\ a.start \in Nat /\ a.end \in Nat /\ b.start \in Nat /\ b.end \in Nat
          /\ a.start <= a.end /\ b.start <= b.end
      BY <2>3, <2>4
    <3> QED
      BY <2>4, <3>1 DEF NotAfter, Disjoint
  <2>10. Disjoint(a, b) <=> Disjoint(p, q)
    BY <2>4 DEF Disjoint
  <2> QED
    BY <2>4, <2>5, <2>8, <2>9, <2>10
<1> QED
  BY <1>1, <1>3, <1>7, <1>8, <1>9, <1>10

LEMMA PatchSplicedOnce ==
    ASSUME NEW t, TextOK(t), NEW h, HunkOK(h, t.lines), Patched(t, <<h>>).ok
    PROVE  LET out == AtOnce(t.lines, {Splice(t.lines, h)})
           IN  Patched(t, <<h>>).text = Reread(out, t.ends /\ ~IsBlank(out))
<1>1. PICK s : s = Splice(t.lines, h)
  OBVIOUS
<1>2. SpliceOK(s, t.lines) /\ t.lines \in Seq(Line)
  BY <1>1, PatchedOne DEF TextOK
<1>3. PICK out : out = Spliced(s, t.lines)
  OBVIOUS
<1>4. Patched(t, <<h>>).text = Reread(out, t.ends /\ ~IsBlank(out))
  BY <1>1, <1>3, PatchedOne
<1>5. AtOnce(t.lines, {s}) = out
  BY <1>2, <1>3, AtOnceOne
<1> QED
  BY <1>1, <1>4, <1>5, Zenon

LEMMA PatchSplicedTwice ==
    ASSUME NEW t, TextOK(t), NEW g, NEW h, HunkOK(g, t.lines), HunkOK(h, t.lines),
           Patched(t, <<g, h>>).ok
    PROVE  LET out == AtOnce(t.lines, {Splice(t.lines, g), Splice(t.lines, h)})
           IN  Patched(t, <<g, h>>).text = Reread(out, t.ends /\ ~IsBlank(out))
<1>1. PICK p, q : p = Splice(t.lines, g) /\ q = Splice(t.lines, h)
  OBVIOUS
<1>2. PICK a, b : /\ (a = p /\ b = q) \/ (a = q /\ b = p)
                  /\ SpliceOK(a, t.lines) /\ SpliceOK(b, t.lines)
                  /\ a.end <= b.start
                  /\ LET out == Spliced(a, Spliced(b, t.lines))
                     IN  Patched(t, <<g, h>>).text = Reread(out, t.ends /\ ~IsBlank(out))
  BY <1>1, PatchedTwo
<1>3. Disjoint(a, b)
  <2>1. Disjoint(p, q)
    BY <1>1, AcceptedTwo
  <2> QED
    BY <1>2, <2>1 DEF Disjoint
<1>4. a.start # b.start /\ t.lines \in Seq(Line)
  BY <1>3 DEF Disjoint, TextOK
<1>5. PICK out : out = Spliced(a, Spliced(b, t.lines))
  OBVIOUS
<1>6. AtOnce(t.lines, {a, b}) = out
  BY <1>2, <1>4, <1>5, AtOnceTwo
<1>7. {a, b} = {p, q}
  BY <1>2
<1>8. Patched(t, <<g, h>>).text = Reread(out, t.ends /\ ~IsBlank(out))
  BY <1>2, <1>5
<1> QED
  BY <1>1, <1>6, <1>7, <1>8, Zenon

\* Every patch an agent holds is accepted exactly when its hunks are, taken
\* alone, and no two touch; its result is all of them applied at once to the
\* text that was read (tools/src/fs.rs:494-503, :590-605).
THEOREM PatchesAreTheirSplices == Spec => []PatchIsItsSplices
<1>1. ASSUME WorkspaceInv, NEW a \in Agents, Patching(a),
             NEW t, t = call[a].text, NEW hunks, hunks = call[a].hunks,
             NEW splice, splice = [k \in DOMAIN hunks |-> Splice(t.lines, hunks[k])]
      PROVE  /\ Patched(t, hunks).ok <=>
                    /\ \A k \in DOMAIN hunks : Accepted(t.lines, hunks[k])
                    /\ \A j, k \in DOMAIN hunks : j < k => Disjoint(splice[j], splice[k])
             /\ Patched(t, hunks).ok =>
                    LET out == AtOnce(t.lines, Range(splice))
                    IN  Patched(t, hunks).text = Reread(out, t.ends /\ ~IsBlank(out))
  <2>1. CallOK(call[a]) /\ call[a].pc = "loaded" /\ call[a].mode = "patch"
    BY <1>1 DEF WorkspaceInv, Shapes, Patching, At
  <2>2. TextOK(t) /\ HunksOK(hunks, t.lines)
    BY <1>1, <2>1 DEF CallOK
  <2>3. CASE \E h : hunks = <<h>> /\ HunkOK(h, t.lines)
    <3>1. PICK h : hunks = <<h>> /\ HunkOK(h, t.lines)
      BY <2>3
    <3>2. DOMAIN hunks = {1} /\ hunks[1] = h
      BY <3>1
    <3>3. splice = [k \in {1} |-> Splice(t.lines, h)]
      BY <1>1, <3>2
    <3>4. Range(splice) = {Splice(t.lines, h)}
      BY <3>3 DEF Range
    <3>5. Patched(t, hunks).ok <=> Accepted(t.lines, h)
      BY <3>1, AcceptedOne
    <3>6. \A j, k \in DOMAIN hunks : ~(j < k)
      BY <3>2
    <3>7. Patched(t, hunks).ok =>
              LET out == AtOnce(t.lines, {Splice(t.lines, h)})
              IN  Patched(t, hunks).text = Reread(out, t.ends /\ ~IsBlank(out))
      BY <2>2, <3>1, PatchSplicedOnce
    <3>8. (\A k \in DOMAIN hunks : Accepted(t.lines, hunks[k])) <=> Accepted(t.lines, h)
      BY <3>2
    <3> QED
      BY <3>4, <3>5, <3>6, <3>7, <3>8, Zenon
  <2>4. CASE \E g, h : hunks = <<g, h>> /\ HunkOK(g, t.lines) /\ HunkOK(h, t.lines)
    <3>1. PICK g, h : hunks = <<g, h>> /\ HunkOK(g, t.lines) /\ HunkOK(h, t.lines)
      BY <2>4
    <3>2. DOMAIN hunks = {1, 2} /\ hunks[1] = g /\ hunks[2] = h
      BY <3>1
    <3>3. PICK p, q : p = Splice(t.lines, g) /\ q = Splice(t.lines, h)
      OBVIOUS
    <3>4. DOMAIN splice = {1, 2} /\ splice[1] = p /\ splice[2] = q
      BY <1>1, <3>2, <3>3
    <3>5. Range(splice) = {p, q}
      BY <3>4 DEF Range
    <3>6. Patched(t, hunks).ok <=> Accepted(t.lines, g) /\ Accepted(t.lines, h) /\ Disjoint(p, q)
      BY <2>2, <3>1, <3>3, AcceptedTwo
    <3>7. (\A j, k \in DOMAIN hunks : j < k => Disjoint(splice[j], splice[k])) <=> Disjoint(p, q)
      BY <3>2, <3>4
    <3>8. (\A k \in DOMAIN hunks : Accepted(t.lines, hunks[k])) <=> Accepted(t.lines, g) /\ Accepted(t.lines, h)
      BY <3>2
    <3>9. Patched(t, hunks).ok =>
              LET out == AtOnce(t.lines, {p, q})
              IN  Patched(t, hunks).text = Reread(out, t.ends /\ ~IsBlank(out))
      BY <2>2, <3>1, <3>3, PatchSplicedTwice
    <3> QED
      BY <3>5, <3>6, <3>7, <3>8, <3>9, Zenon
  <2> QED
    BY <2>2, <2>3, <2>4 DEF HunksOK
<1>2. WorkspaceInv => PatchIsItsSplices
  <2> SUFFICES ASSUME WorkspaceInv, NEW a \in Agents, Patching(a)
                 PROVE  LET lines  == call[a].text.lines
                            hunks  == call[a].hunks
                            splice == [k \in DOMAIN hunks |-> Splice(lines, hunks[k])]
                            result == Patched(call[a].text, hunks)
                        IN  /\ result.ok <=> /\ \A k \in DOMAIN hunks : Accepted(lines, hunks[k])
                                             /\ \A j, k \in DOMAIN hunks : j < k => Disjoint(splice[j], splice[k])
                            /\ result.ok => LET out == AtOnce(lines, Range(splice)) IN
                                            result.text = Reread(out, call[a].text.ends /\ ~IsBlank(out))
    BY Zenon DEF PatchIsItsSplices
  <2>2. PICK t : t = call[a].text
    OBVIOUS
  <2>3. PICK hunks : hunks = call[a].hunks
    OBVIOUS
  <2>4. PICK splice : splice = [k \in DOMAIN hunks |-> Splice(t.lines, hunks[k])]
    OBVIOUS
  <2>5. /\ Patched(t, hunks).ok <=>
               /\ \A k \in DOMAIN hunks : Accepted(t.lines, hunks[k])
               /\ \A j, k \in DOMAIN hunks : j < k => Disjoint(splice[j], splice[k])
        /\ Patched(t, hunks).ok =>
               LET out == AtOnce(t.lines, Range(splice))
               IN  Patched(t, hunks).text = Reread(out, t.ends /\ ~IsBlank(out))
    BY <1>1, <2>2, <2>3, <2>4
  <2> QED
    BY <2>2, <2>3, <2>4, <2>5, Zenon
<1> QED
  BY <1>2, AlwaysSafe, PTL

-----------------------------------------------------------------------------
(* What the tools that only look answer.                                   *)

Honest(outcome) ==
    /\ outcome.said \/ (outcome.complete /\ (outcome.whole \/ outcome.kind = "selection"))
    /\ outcome.kind = "missing" => outcome.complete

\* An honest outcome with something shown.
HonestText(outcome) ==
    /\ Honest(outcome) /\ outcome.kind = "text"
    /\ outcome = [kind |-> outcome.kind, said |-> outcome.said,
                  complete |-> outcome.complete, whole |-> outcome.whole]

LEMMA TextIsHonest ==
    ASSUME NEW shown, NEW said \in BOOLEAN, NEW taken, said \/ shown = taken
    PROVE  HonestText(Text(shown, said, taken))
BY DEF HonestText, Honest, Text

LEMMA FailedIsHonest ==
    ASSUME NEW kind, NEW true \in BOOLEAN, kind = "missing" => true
    PROVE  Honest(Failed(kind, true))
BY DEF Honest, Failed

\* What is taken in without a word must be all there is, but for a selection.
LEMMA AmongIsHonest ==
    ASSUME NEW outcome, HonestText(outcome), NEW taken, NEW there, outcome.said \/ taken = there
    PROVE  Honest(Among(outcome, taken, there))
BY DEF HonestText, Honest, Among

LEMMA SelectedIsHonest ==
    ASSUME NEW outcome, HonestText(outcome), NEW taken, NEW there
    PROVE  Honest(Selected(outcome, taken, there))
BY DEF HonestText, Honest, Among, Selected

LEMMA RenderedIsHonest ==
    ASSUME NEW items \in Seq(Nat), NEW said \in BOOLEAN, NEW taken, said \/ items = taken
    PROVE  HonestText(Rendered(items, said, taken))
<1>1. CASE Len(items) <= MAX_OUTPUT_BYTES
  <2>1. truncate_middle(items) = items
    BY <1>1 DEF truncate_middle
  <2>2. ~(Len(items) > MAX_OUTPUT_BYTES)
    BY <1>1, ReadViewsAssumption
  <2>3. (said \/ Len(items) > MAX_OUTPUT_BYTES) = said
    BY <2>2
  <2>4. Rendered(items, said, taken) = Text(items, said, taken)
    BY <2>1, <2>3, Zenon DEF Rendered
  <2> QED
    BY <2>4, TextIsHonest
<1>2. CASE ~(Len(items) <= MAX_OUTPUT_BYTES)
  <2>1. Len(items) > MAX_OUTPUT_BYTES
    BY <1>2, ReadViewsAssumption
  <2>2. (said \/ Len(items) > MAX_OUTPUT_BYTES) = TRUE
    BY <2>1
  <2>3. Rendered(items, said, taken) = Text(truncate_middle(items), TRUE, taken)
    BY <2>2, Zenon DEF Rendered
  <2> QED
    BY <2>3, TextIsHonest
<1> QED
  BY <1>1, <1>2

LEMMA ItemsAre == ASSUME NEW n \in Nat PROVE Items(n) \in Seq(Nat) /\ Len(Items(n)) = n
BY DEF Items

LEMMA UpToIs ==
    ASSUME NEW n \in Nat, NEW most \in Nat
    PROVE  /\ UpTo(Items(n), most) \in Seq(Nat)
           /\ Len(UpTo(Items(n), most)) = Least(most, n)
           /\ n <= most => UpTo(Items(n), most) = Items(n)
<1>1. PICK items : items = Items(n)
  OBVIOUS
<1>2. items \in Seq(Nat) /\ Len(items) = n
  BY <1>1, ItemsAre
<1>3. PICK m \in 0 .. n : m = Least(most, n) /\ (n <= most => m = n)
  BY DEF Least
<1>4. UpTo(items, most) = SubSeq(items, 1, m)
  BY <1>2, <1>3 DEF UpTo
<1>5. SubSeq(items, 1, m) \in Seq(Nat) /\ Len(SubSeq(items, 1, m)) = m
  BY <1>2, <1>3
<1>6. m = n => SubSeq(items, 1, m) = items
  BY <1>2
<1> QED
  BY <1>1, <1>3, <1>4, <1>5, <1>6

LEMMA BoundedIsHonest ==
    ASSUME NEW n \in Nat, NEW bound \in Nat
    PROVE  HonestText(BoundedText(n, bound))
<1>1. PICK items, said : items = UpTo(Items(n), bound) /\ said = (n > bound)
  OBVIOUS
<1>2. items \in Seq(Nat) /\ said \in BOOLEAN /\ (said \/ items = Items(n))
  <2>1. items \in Seq(Nat) /\ (n <= bound => items = Items(n))
    BY <1>1, UpToIs
  <2>2. n <= bound \/ n > bound
    OBVIOUS
  <2>3. n > bound => said
    BY <1>1, Zenon
  <2>4. said \in BOOLEAN
    BY <1>1
  <2> QED
    BY <2>1, <2>2, <2>3, <2>4, Zenon
<1>3. BoundedText(n, bound) = Rendered(items, said, Items(n))
  BY <1>1, Zenon DEF BoundedText
<1> QED
  BY <1>2, <1>3, RenderedIsHonest

\* A listing says that it is cut, or lists all that was found; one without
\* entries is that of an empty archive.
LEMMA ListingIsHonest ==
    ASSUME NEW n \in Nat, NEW capped \in BOOLEAN
    PROVE  LET outcome == render(UpTo(Items(n), MAX_ENTRIES), n, capped)
           IN  /\ HonestText(outcome)
               /\ capped => outcome.said
<1>1. PICK items : items = UpTo(Items(n), MAX_ENTRIES)
  OBVIOUS
<1>2. /\ items \in Seq(Nat) /\ Len(items) = Least(MAX_ENTRIES, n)
      /\ n <= MAX_ENTRIES => items = Items(n)
  BY <1>1, UpToIs, ReadViewsAssumption
<1>3. CASE items = <<>> /\ ~capped
  <2>1. n = 0
    BY <1>2, <1>3, ReadViewsAssumption DEF Least
  <2>2. items = Items(n)
    BY <1>2, <2>1, ReadViewsAssumption
  <2>3. render(items, n, capped) = Text(<<>>, FALSE, Items(n))
    BY <1>3, Zenon DEF render
  <2> QED
    BY <1>1, <1>3, <2>2, <2>3, TextIsHonest
<1>4. CASE ~(items = <<>> /\ ~capped)
  <2>1. PICK said : said = (capped \/ n > Len(items))
    OBVIOUS
  <2>2. said \in BOOLEAN /\ (capped => said)
    BY <2>1
  <2>3. said \/ items = Items(n)
    <3>1. n > Len(items) \/ n <= MAX_ENTRIES
      BY <1>2, ReadViewsAssumption DEF Least
    <3>2. n > Len(items) => said
      BY <2>1, Zenon
    <3> QED
      BY <1>2, <3>1, <3>2, Zenon
  <2>4. render(items, n, capped) = Rendered(items, said, Items(n))
    BY <1>4, <2>1, Zenon DEF render
  <2>5. capped => Rendered(items, said, Items(n)).said
    BY <2>2 DEF Rendered, Text
  <2> QED
    BY <1>1, <1>2, <2>2, <2>3, <2>4, <2>5, RenderedIsHonest
<1> QED
  BY <1>3, <1>4

\* The scan of a tar that reaches the end has read the header of every member.
LEMMA ScanReads ==
    ASSUME NEW payloads \in Payloads, NEW n \in Nat, DOMAIN payloads = 1 .. n, Len(payloads) = n,
           ~ScanCapped(payloads), NEW k \in 1 .. n
    PROVE  HeaderRead(payloads, k)
<1>1. PICK all, some :
          /\ all = {unit \in (1 .. (n + 1) - 1) \X (0 .. MaxPayload) : unit[2] <= payloads[unit[1]]}
          /\ some = {unit \in (1 .. k - 1) \X (0 .. MaxPayload) : unit[2] <= payloads[unit[1]]}
  OBVIOUS
<1>2. IsFiniteSet(all)
  <2>1. IsFiniteSet(1 .. (n + 1) - 1) /\ IsFiniteSet(0 .. MaxPayload)
    BY FS_Interval, ReadViewsAssumption
  <2>2. IsFiniteSet((1 .. (n + 1) - 1) \X (0 .. MaxPayload))
    BY <2>1, FS_Product
  <2> QED
    BY <1>1, <2>2, FS_Subset
<1>3. some \subseteq all
  <2>1. 1 .. k - 1 \subseteq 1 .. (n + 1) - 1
    OBVIOUS
  <2> QED
    BY <1>1, <2>1
<1>4. /\ Cardinality(some) \in Nat /\ Cardinality(all) \in Nat
      /\ Cardinality(some) <= Cardinality(all)
  BY <1>2, <1>3, FS_Subset, FS_CardinalityType
<1>5. Before(payloads, n + 1) = Cardinality(all) /\ Before(payloads, k) = Cardinality(some)
  BY <1>1, Zenon DEF Before
<1>6. Cardinality(all) + 1 <= MAX_SCAN_BYTES
  BY <1>5 DEF ScanCapped, HeaderRead, InBudget
<1>7. Cardinality(some) + 1 <= MAX_SCAN_BYTES
  BY <1>4, <1>6, ReadViewsAssumption
<1> QED
  BY <1>5, <1>7 DEF HeaderRead, InBudget

LEMMA PayloadsAre ==
    ASSUME NEW payloads \in Payloads
    PROVE  \E n \in Nat : DOMAIN payloads = 1 .. n /\ Len(payloads) = n /\ \A k \in 1 .. n : payloads[k] \in Nat
<1>1. PICK n \in 0 .. MaxMembers : payloads \in [1 .. n -> 0 .. MaxPayload]
  BY DEF Payloads
<1>2. n \in Nat /\ payloads \in Seq(Nat)
  BY <1>1, ReadViewsAssumption
<1> QED
  BY <1>1, <1>2, ReadViewsAssumption

LEMMA TarListingIsHonest == ASSUME NEW payloads \in Payloads PROVE Honest(TarListing(payloads))
<1>1. PICK n \in Nat : DOMAIN payloads = 1 .. n /\ Len(payloads) = n
  BY PayloadsAre
<1>2. PICK headers : headers = {k \in DOMAIN payloads : HeaderRead(payloads, k)}
  OBVIOUS
<1>3. PICK scanned : scanned = Cardinality(headers)
  OBVIOUS
<1>4. scanned \in Nat
  <2>1. IsFiniteSet(1 .. n) /\ headers \subseteq 1 .. n
    BY <1>1, <1>2, FS_Interval
  <2> QED
    BY <1>3, <2>1, FS_Subset, FS_CardinalityType
<1>5. PICK outcome : outcome = render(UpTo(Items(scanned), MAX_ENTRIES), scanned, ScanCapped(payloads))
  OBVIOUS
<1>6. ScanCapped(payloads) \in BOOLEAN
  BY DEF ScanCapped
<1>7. HonestText(outcome) /\ (ScanCapped(payloads) => outcome.said)
  BY <1>4, <1>5, <1>6, ListingIsHonest
<1>8. TarListing(payloads) = Among(outcome, scanned, Len(payloads))
  BY <1>2, <1>3, <1>5, Zenon DEF TarListing
<1>9. CASE ScanCapped(payloads)
  BY <1>7, <1>8, <1>9, AmongIsHonest
<1>10. CASE ~ScanCapped(payloads)
  <2>1. headers = 1 .. n
    BY <1>1, <1>2, <1>10, ScanReads
  <2>2. scanned = n
    BY <1>3, <2>1, FS_Interval
  <2> QED
    BY <1>1, <1>7, <1>8, <2>2, AmongIsHonest
<1> QED
  BY <1>9, <1>10

LEMMA TarEntryIsHonest ==
    ASSUME NEW payloads \in Payloads, NEW k \in Nat
    PROVE  Honest(TarEntry(payloads, k))
<1>1. PICK n \in Nat : DOMAIN payloads = 1 .. n /\ Len(payloads) = n /\ \A j \in 1 .. n : payloads[j] \in Nat
  BY PayloadsAre
<1>2. CASE k \in DOMAIN payloads /\ HeaderRead(payloads, k)
  <2>1. \/ TarEntry(payloads, k) = BoundedText(payloads[k], MAX_ENTRY_BYTES)
        \/ TarEntry(payloads, k) = Failed("error", TRUE)
    BY <1>2, Zenon DEF TarEntry
  <2> QED
    BY <1>1, <1>2, <2>1, BoundedIsHonest, FailedIsHonest, ReadViewsAssumption DEF HonestText
<1>3. CASE ~(k \in DOMAIN payloads /\ HeaderRead(payloads, k)) /\ ScanCapped(payloads)
  <2>1. TarEntry(payloads, k) = Failed("error", TRUE)
    BY <1>3, Zenon DEF TarEntry
  <2> QED
    BY <2>1, FailedIsHonest
<1>4. CASE ~(k \in DOMAIN payloads /\ HeaderRead(payloads, k)) /\ ~ScanCapped(payloads)
  <2>1. TarEntry(payloads, k) = Failed("missing", k \notin DOMAIN payloads)
    BY <1>4, Zenon DEF TarEntry
  <2>2. k \notin DOMAIN payloads
    BY <1>1, <1>4, ScanReads
  <2>3. TarEntry(payloads, k) = Failed("missing", TRUE)
    BY <2>1, <2>2
  <2> QED
    BY <2>3, FailedIsHonest
<1> QED
  BY <1>2, <1>3, <1>4

LEMMA OutputIsHonest ==
    ASSUME NEW n \in Nat, NEW success \in BOOLEAN
    PROVE  Honest(Output(n, success))
<1>1. Honest(Rendered(Items(n), FALSE, Items(n)))
  BY ItemsAre, RenderedIsHonest DEF HonestText
<1> QED
  BY <1>1, FailedIsHonest DEF Output

LEMMA StreamIsHonest ==
    ASSUME NEW n \in Nat, NEW dropped
    PROVE  Honest(OneStream(n, dropped))
<1>1. HonestText(Rendered(Items(n), FALSE, Items(n)))
  BY ItemsAre, RenderedIsHonest
<1> QED
  BY <1>1, SelectedIsHonest DEF OneStream

LEMMA EveryOutcomeIsHonest == ASSUME NEW outcome \in Outcomes PROVE Honest(outcome)
<1>1. Sizes \subseteq Nat /\ 1 .. MaxItems \subseteq Nat /\ 1 .. MaxMembers + 1 \subseteq Nat /\ 0 .. 1 \subseteq Nat /\ Others \subseteq Nat
  BY ReadViewsAssumption DEF Sizes, Others
<1>2. ASSUME NEW n \in Nat, NEW offset \in 1 .. MaxItems, NEW limit \in Nat
      PROVE  Honest(PlainFile(n, offset, limit))
  <2>1. PICK window : window = SubSeq(Items(n), offset, Least(offset + limit - 1, n))
    OBVIOUS
  <2>2. window \in Seq(Nat)
    <3>1. PICK items, last : items = Items(n) /\ last = Least(offset + limit - 1, n)
      OBVIOUS
    <3>2. items \in Seq(Nat) /\ Len(items) = n
      BY <3>1, ItemsAre
    <3>3. last \in Int /\ last <= n
      BY <3>1, ReadViewsAssumption DEF Least
    <3>4. SubSeq(items, offset, last) \in Seq(Nat)
      BY <3>2, <3>3, ReadViewsAssumption
    <3> QED
      BY <2>1, <3>1, <3>4
  <2>3. PICK none : none = (window = <<>>)
    OBVIOUS
  <2>4. PlainFile(n, offset, limit) = Selected(Rendered(window, none, window), Len(window), n)
    BY <2>1, <2>3, Zenon DEF PlainFile
  <2>5. HonestText(Rendered(window, none, window))
    BY <2>2, <2>3, RenderedIsHonest
  <2> QED
    BY <2>4, <2>5, SelectedIsHonest
<1>3. \A n \in Nat : HonestText(Rendered(Items(n), FALSE, Items(n)))
  BY ItemsAre, RenderedIsHonest
<1>4. \A n, others \in Nat : Honest(list_dir(n)) /\ Honest(overview(n, others))
  BY <1>3, SelectedIsHonest DEF list_dir, overview, HonestText
<1>5. \A n \in Nat : HonestText(BoundedText(n, MAX_ENTRY_BYTES))
  BY BoundedIsHonest, ReadViewsAssumption
<1>6. \A n, others \in Nat : Honest(BoundedText(n, MAX_ENTRY_BYTES)) /\ Honest(read_gz(n, others))
  BY <1>5, SelectedIsHonest DEF HonestText, read_gz
<1>7. \A n \in Nat, net, ok \in BOOLEAN : Honest(read_url(n, net, ok))
  BY <1>6, FailedIsHonest DEF read_url
<1>8. \A n \in Nat : Honest(ZipListing(n))
  BY ListingIsHonest DEF ZipListing, HonestText
<1>9. \A n \in Nat, k \in Nat : Honest(ZipEntry(n, k))
  BY <1>6, FailedIsHonest DEF ZipEntry
<1>10. ASSUME NEW n \in Nat, NEW most \in Nat
      PROVE  HonestText(Rendered(UpTo(Items(n), most), n > most, Items(n)))
  BY BoundedIsHonest DEF BoundedText
<1>11. \A n, garbled \in Nat, ok \in BOOLEAN : Honest(run_query(n)) /\ Honest(AstGrep(n, garbled, ok))
  BY <1>10, SelectedIsHonest, FailedIsHonest, ReadViewsAssumption DEF run_query, AstGrep, HonestText
<1>12. ASSUME NEW n \in Nat, NEW others \in Nat
       PROVE  Honest(Hits(n, others))
  <2>1. PICK items, said : items = UpTo(Items(n), MAX_RESULTS) /\ said = (n >= MAX_RESULTS)
    OBVIOUS
  <2>2. n <= MAX_RESULTS => items = Items(n)
    BY <2>1, UpToIs, ReadViewsAssumption
  <2>3. n <= MAX_RESULTS \/ n >= MAX_RESULTS
    BY ReadViewsAssumption
  <2>4. n >= MAX_RESULTS => said
    BY <2>1, Zenon
  <2>5. said \in BOOLEAN
    BY <2>1
  <2>6. Hits(n, others) = Selected(Text(items, said, Items(n)), n, n + others)
    BY <2>1, Zenon DEF Hits
  <2>7. HonestText(Text(items, said, Items(n)))
    BY <2>2, <2>3, <2>4, <2>5, TextIsHonest
  <2> QED
    BY <2>6, <2>7, SelectedIsHonest
<1>13. \A n, others \in Nat : Honest(Grep(n, others)) /\ Honest(Glob(n, others))
  BY <1>12 DEF Grep, Glob
<1>14. \A n \in Nat, ok \in BOOLEAN : Honest(Output(n, ok))
  BY OutputIsHonest
<1>15. \A n, err \in Nat, net, ok \in BOOLEAN :
          Honest(GitHub(n, err, net, ok)) /\ Honest(AstEditPreview(n, err, ok))
  BY StreamIsHonest, FailedIsHonest DEF GitHub, AstEditPreview
<1>16. \A here, no \in BOOLEAN : Honest(AskAnswer(here, no))
  BY TextIsHonest, FailedIsHonest DEF AskAnswer, HonestText
<1>17. ASSUME NEW o \in FileOutcomes
       PROVE  Honest(o)
  BY <1>1, <1>2, <1>7, <1>4 DEF FileOutcomes
<1>18. ASSUME NEW o \in ArchiveOutcomes
       PROVE  Honest(o)
  <2>1. \A p \in Payloads : Honest(TarListing(p))
    BY TarListingIsHonest
  <2>2. \A p \in Payloads, k \in 1 .. MaxMembers + 1 : Honest(TarEntry(p, k))
    BY <1>1, TarEntryIsHonest
  <2>3. /\ \A n \in Sizes, others \in Others : Honest(read_gz(n, others))
        /\ \A n \in Sizes : Honest(ZipListing(n))
    BY <1>1, <1>6, <1>8
  <2>4. \A n \in 0 .. 1, k \in Sizes : Honest(ZipEntry(n, k))
    BY <1>1, <1>9
  <2>5. \/ \E n \in Sizes, others \in Others : o = read_gz(n, others)
        \/ \E n \in Sizes : o = ZipListing(n)
        \/ \E n \in 0 .. 1, k \in Sizes : o = ZipEntry(n, k)
        \/ \E p \in Payloads : o = TarListing(p)
        \/ \E p \in Payloads, k \in 1 .. MaxMembers + 1 : o = TarEntry(p, k)
    BY DEF ArchiveOutcomes
  <2> QED
    BY <2>1, <2>2, <2>3, <2>4, <2>5
<1>19. ASSUME NEW o \in SearchOutcomes
       PROVE  Honest(o)
  <2>1. CASE o \in {overview(n, others) : n \in Sizes, others \in Others}
    BY <1>1, <1>4, <2>1
  <2>2. CASE o \in {run_query(n) : n \in Sizes}
    BY <1>1, <1>11, <2>2
  <2>3. CASE o \in {Grep(n, unread) : n \in Sizes, unread \in Others}
    BY <1>1, <1>13, <2>3
  <2>4. CASE o \in {Glob(n, unseen) : n \in Sizes, unseen \in Others}
    BY <1>1, <1>13, <2>4
  <2>5. CASE o \in {AstGrep(n, garbled, ok) : n \in Sizes, garbled \in Others, ok \in BOOLEAN}
    BY <1>1, <1>11, <2>5
  <2> QED
    BY <2>1, <2>2, <2>3, <2>4, <2>5 DEF SearchOutcomes
<1>20. ASSUME NEW o \in CommandOutcomes
       PROVE  Honest(o)
  <2>1. CASE o \in {Output(n, ok) : n \in Sizes, ok \in BOOLEAN}
    BY <1>1, <1>14, <2>1
  <2>2. CASE o \in {GitHub(n, err, net, ok) : n \in Sizes, err \in Sizes, net \in BOOLEAN, ok \in BOOLEAN}
    BY <1>1, <1>15, <2>2
  <2>3. CASE o \in {AstEditPreview(n, err, ok) : n \in Sizes, err \in Others, ok \in BOOLEAN}
    BY <1>1, <1>15, <2>3
  <2>4. CASE o \in {AskAnswer(here, no) : here \in BOOLEAN, no \in BOOLEAN}
    BY <1>16, <2>4
  <2> QED
    BY <2>1, <2>2, <2>3, <2>4 DEF CommandOutcomes
<1> QED
  BY <1>17, <1>18, <1>19, <1>20 DEF Outcomes

\* Whatever a tool took in is shown, or the text says that it is cut: no cap on
\* hits, rows or entries, no scan budget and no truncation is silent, and an
\* archive is said to have no such entry only when it has none (archive.rs:5-10,
\* :242-310, lib.rs:147).  That a tool took in all there is holds of every view
\* but those that select: windows, searches, one of two streams, the first member
\* of a gzip file, the tables of a database.
THEOREM NoCapIsSilent == Spec => []NoSilentCap
<1> DEFINE Answered == answer \in Outcomes \union {NoAnswer}
<1>1. Init => Answered
  BY DEF Init
<1>2. Answered /\ [Next]_vars => Answered'
  BY DEF Next, ReadFile, Look, LoadPatch, LoadString, Refuse, Truncate, Overwrite, Fill, Spawn, Ended, Crash,
         Outside, Begin, vars
<1>3. Answered => NoSilentCap
  <2>1. Honest(NoAnswer)
    BY DEF Honest, NoAnswer
  <2> QED
    BY <2>1, EveryOutcomeIsHonest DEF NoSilentCap, Honest
<1> QED
  BY <1>1, <1>2, <1>3, PTL DEF Spec

=============================================================================
