------------------------ MODULE ConversationProofs ------------------------
(***************************************************************************)
(* Proofs about the conversation the agent loop keeps with a model server, *)
(* for every adapter, every reply and every turn.                          *)
(*                                                                         *)
(* A request is faithful when the server, reading it, finds the atoms of   *)
(* the transcript in their order and every call answered by the message    *)
(* that follows it.  The proof goes through what each conversion does to   *)
(* one message: the atoms of its wire form are its own (FlatMap and its    *)
(* laws carry that to whole transcripts), and what comes back of a reply   *)
(* is what the server said.  The invariant TalkInv then says, for each     *)
(* phase of the turn, that the transcript is what was sent and heard, that *)
(* its results answer its calls, and what the response in hand holds.      *)
(*                                                                         *)
(* A reply is delivered when its response says the same, and what was      *)
(* shown of it is what the response holds; ShownInv says so of a stream    *)
(* that is not over, whether it is whole or not.                           *)
(***************************************************************************)
EXTENDS AgentTurnProofs

-----------------------------------------------------------------------------
(* The selections and conversions of Conversation, as functions of a block. *)

AnyBlock == TextBlock \union CallBlock \union ThinkingBlock \union OpaqueBlock \union ResultBlock
            \union [type : {"ignored"}]

LEMMA KindsDiffer ==
    /\ \A b \in TextBlock : IsText(b) /\ ~IsCall(b) /\ ~IsResult(b) /\ b.type = "text"
    /\ \A b \in CallBlock : ~IsText(b) /\ IsCall(b) /\ ~IsResult(b) /\ b.type = "tool_use"
    /\ \A b \in ResultBlock : ~IsText(b) /\ ~IsCall(b) /\ IsResult(b) /\ b.type = "tool_result"
    /\ \A b \in ThinkingBlock : ~IsText(b) /\ ~IsCall(b) /\ ~IsResult(b) /\ b.type = "thinking"
    /\ \A b \in OpaqueBlock : ~IsText(b) /\ ~IsCall(b) /\ ~IsResult(b) /\ b.type = "opaque"
    /\ \A b \in [type : {"ignored"}] : ~IsText(b) /\ ~IsCall(b) /\ ~IsResult(b) /\ b.type = "ignored"
BY DEF TextBlock, CallBlock, ResultBlock, ThinkingBlock, OpaqueBlock, IsText, IsCall, IsResult

IfCall   == [b \in AnyBlock |-> IF IsCall(b) THEN <<b>> ELSE <<>>]
IfText   == [b \in AnyBlock |-> IF IsText(b) THEN <<b>> ELSE <<>>]
IfResult == [b \in AnyBlock |-> IF IsResult(b) THEN <<b>> ELSE <<>>]
ItsText  == [b \in AnyBlock |-> IF IsText(b) THEN b.text ELSE <<>>]

LEMMA SelectionsAre ==
    ASSUME NEW s \in Seq(AnyBlock)
    PROVE  /\ ToolUses(s) = FlatMap(IfCall, s)
           /\ TextOf(s) = FlatMap(ItsText, s)
           /\ Select(s, IsText) = FlatMap(IfText, s)
           /\ Select(s, IsResult) = FlatMap(IfResult, s)
<1>1. \A k \in DOMAIN s : s[k] \in AnyBlock
  <2> HIDE DEF AnyBlock
  <2> QED
    OBVIOUS
<1>2. [k \in DOMAIN s |-> IF IsCall(s[k]) THEN <<s[k]>> ELSE <<>>] = [k \in DOMAIN s |-> IfCall[s[k]]]
  BY <1>1 DEF IfCall
<1>3. [k \in DOMAIN s |-> IF IsText(s[k]) THEN s[k].text ELSE <<>>] = [k \in DOMAIN s |-> ItsText[s[k]]]
  BY <1>1 DEF ItsText
<1>4. [k \in DOMAIN s |-> IF IsText(s[k]) THEN <<s[k]>> ELSE <<>>] = [k \in DOMAIN s |-> IfText[s[k]]]
  BY <1>1 DEF IfText
<1>5. [k \in DOMAIN s |-> IF IsResult(s[k]) THEN <<s[k]>> ELSE <<>>] = [k \in DOMAIN s |-> IfResult[s[k]]]
  BY <1>1 DEF IfResult
<1>6. ToolUses(s) = FlatMap(IfCall, s)
  BY <1>2 DEF ToolUses, Select, FlatMap
<1>7. TextOf(s) = FlatMap(ItsText, s)
  BY <1>3 DEF TextOf, FlatMap
<1>8. Select(s, IsText) = FlatMap(IfText, s)
  BY <1>4 DEF Select, FlatMap
<1>9. Select(s, IsResult) = FlatMap(IfResult, s)
  BY <1>5 DEF Select, FlatMap
<1> QED
  BY <1>6, <1>7, <1>8, <1>9

LEMMA SelectionsConvert ==
    /\ IfCall \in Conversion(AnyBlock, CallBlock)
    /\ IfText \in Conversion(AnyBlock, TextBlock)
    /\ IfResult \in Conversion(AnyBlock, ResultBlock)
    /\ ItsText \in Conversion(AnyBlock, Fragment)
<1>1. /\ \A b \in AnyBlock : IsCall(b) => b \in CallBlock
      /\ \A b \in AnyBlock : IsText(b) => b \in TextBlock
      /\ \A b \in AnyBlock : IsResult(b) => b \in ResultBlock
  BY KindsDiffer DEF AnyBlock
<1>2. \A b \in TextBlock : b.text \in Seq(Fragment)
  BY DEF TextBlock
<1>3. IfCall \in Conversion(AnyBlock, CallBlock)
  <2>1. \A b \in AnyBlock : (IF IsCall(b) THEN <<b>> ELSE <<>>) \in Seq(CallBlock)
    BY <1>1
  <2> QED
    BY <2>1 DEF IfCall, Conversion
<1>4. IfText \in Conversion(AnyBlock, TextBlock)
  <2>1. \A b \in AnyBlock : (IF IsText(b) THEN <<b>> ELSE <<>>) \in Seq(TextBlock)
    BY <1>1
  <2> QED
    BY <2>1 DEF IfText, Conversion
<1>5. IfResult \in Conversion(AnyBlock, ResultBlock)
  <2>1. \A b \in AnyBlock : (IF IsResult(b) THEN <<b>> ELSE <<>>) \in Seq(ResultBlock)
    BY <1>1
  <2> QED
    BY <2>1 DEF IfResult, Conversion
<1>6. ItsText \in Conversion(AnyBlock, Fragment)
  <2>1. <<>> \in Seq(Fragment)
    OBVIOUS
  <2>2. \A b \in AnyBlock : (IF IsText(b) THEN b.text ELSE <<>>) \in Seq(Fragment)
    BY <1>1, <1>2, <2>1, Zenon
  <2> QED
    BY <2>2 DEF ItsText, Conversion
<1> QED
  BY <1>3, <1>4, <1>5, <1>6

LEMMA BlockKinds ==
    /\ TextBlock \subseteq AnyBlock /\ CallBlock \subseteq AnyBlock /\ ResultBlock \subseteq AnyBlock
    /\ OpaqueBlock \subseteq AnyBlock /\ ThinkingBlock \subseteq AnyBlock
    /\ ContentBlock \subseteq AnyBlock /\ OpenBlock \subseteq AnyBlock
BY DEF AnyBlock, ContentBlock, OpenBlock

\* What the selections are of blocks of one kind.
LEMMA SelectionsOf ==
    /\ \A b \in TextBlock : IfCall[b] = <<>> /\ IfText[b] = <<b>> /\ IfResult[b] = <<>> /\ ItsText[b] = b.text
    /\ \A b \in CallBlock : IfCall[b] = <<b>> /\ IfText[b] = <<>> /\ IfResult[b] = <<>> /\ ItsText[b] = <<>>
    /\ \A b \in ResultBlock : IfCall[b] = <<>> /\ IfText[b] = <<>> /\ IfResult[b] = <<b>> /\ ItsText[b] = <<>>
    /\ \A b \in ThinkingBlock \union OpaqueBlock \union [type : {"ignored"}] :
          IfCall[b] = <<>> /\ IfText[b] = <<>> /\ IfResult[b] = <<>> /\ ItsText[b] = <<>>
<1>1. \A b \in AnyBlock : /\ IfCall[b] = IF IsCall(b) THEN <<b>> ELSE <<>>
                          /\ IfText[b] = IF IsText(b) THEN <<b>> ELSE <<>>
                          /\ IfResult[b] = IF IsResult(b) THEN <<b>> ELSE <<>>
                          /\ ItsText[b] = IF IsText(b) THEN b.text ELSE <<>>
  BY DEF IfCall, IfText, IfResult, ItsText
<1>2. [type : {"ignored"}] \subseteq AnyBlock
  BY DEF AnyBlock
<1> QED
  BY <1>1, <1>2, BlockKinds, KindsDiffer

-----------------------------------------------------------------------------
(* What is said by a block, a message and a conversation.                  *)

Atom == {"text", "call", "result", "error", "reasoning"} \X Fragment

BlockAtoms ==
    [b \in AnyBlock |->
        CASE IsText(b) -> Atoms("text", b.text)
          [] IsCall(b) -> <<<<"call", b.id>>>>
          [] IsResult(b) -> <<<<IF b.is_error THEN "error" ELSE "result", b.tool_use_id>>>>
          [] b.type = "opaque" -> IF b.data.encrypted THEN <<<<"reasoning", b.data.id>>>> ELSE <<>>
          [] OTHER -> <<>>]

Answered(b) == <<IF b.is_error THEN "error" ELSE "result", b.tool_use_id>>

LEMMA AtomsAre ==
    ASSUME NEW t \in Seq(Fragment)
    PROVE  Atoms("text", t) \in Seq(Atom) /\ DOMAIN Atoms("text", t) = DOMAIN t
<1>1. PICK n \in Nat : n = Len(t) /\ DOMAIN t = 1 .. n
  OBVIOUS
<1>2. PICK a : a = [k \in DOMAIN t |-> <<"text", t[k]>>]
  OBVIOUS
<1>3. \A k \in 1 .. n : t[k] \in Fragment
  <2> HIDE DEF Fragment
  <2> QED
    BY <1>1
<1>4. \A k \in 1 .. n : <<"text", t[k]>> \in Atom
  BY <1>3 DEF Atom
<1>5. a \in [1 .. n -> Atom]
  BY <1>1, <1>2, <1>4
<1>6. a \in Seq(Atom)
  BY <1>5
<1>7. a = Atoms("text", t)
  BY <1>2 DEF Atoms
<1> QED
  BY <1>2, <1>6, <1>7

LEMMA BlockAtomsOf ==
    /\ \A b \in TextBlock : BlockAtoms[b] = Atoms("text", b.text)
    /\ \A b \in CallBlock : BlockAtoms[b] = <<<<"call", b.id>>>>
    /\ \A b \in ResultBlock : BlockAtoms[b] = <<Answered(b)>>
    /\ \A b \in OpaqueBlock :
          BlockAtoms[b] = IF b.data.encrypted THEN <<<<"reasoning", b.data.id>>>> ELSE <<>>
    /\ \A b \in ThinkingBlock \union [type : {"ignored"}] : BlockAtoms[b] = <<>>
<1>1. /\ \A b \in AnyBlock : IsText(b) => BlockAtoms[b] = Atoms("text", b.text)
      /\ \A b \in AnyBlock : ~IsText(b) /\ IsCall(b) => BlockAtoms[b] = <<<<"call", b.id>>>>
      /\ \A b \in AnyBlock : ~IsText(b) /\ ~IsCall(b) /\ IsResult(b) => BlockAtoms[b] = <<Answered(b)>>
      /\ \A b \in AnyBlock : ~IsText(b) /\ ~IsCall(b) /\ ~IsResult(b) /\ b.type = "opaque" =>
            BlockAtoms[b] = IF b.data.encrypted THEN <<<<"reasoning", b.data.id>>>> ELSE <<>>
      /\ \A b \in AnyBlock : ~IsText(b) /\ ~IsCall(b) /\ ~IsResult(b) /\ b.type # "opaque" =>
            BlockAtoms[b] = <<>>
  <2> SUFFICES ASSUME NEW b \in AnyBlock
               PROVE  /\ IsText(b) => BlockAtoms[b] = Atoms("text", b.text)
                      /\ ~IsText(b) /\ IsCall(b) => BlockAtoms[b] = <<<<"call", b.id>>>>
                      /\ ~IsText(b) /\ ~IsCall(b) /\ IsResult(b) => BlockAtoms[b] = <<Answered(b)>>
                      /\ ~IsText(b) /\ ~IsCall(b) /\ ~IsResult(b) /\ b.type = "opaque" =>
                            BlockAtoms[b] = IF b.data.encrypted THEN <<<<"reasoning", b.data.id>>>> ELSE <<>>
                      /\ ~IsText(b) /\ ~IsCall(b) /\ ~IsResult(b) /\ b.type # "opaque" => BlockAtoms[b] = <<>>
    OBVIOUS
  <2>1. BlockAtoms[b] =
            CASE IsText(b) -> Atoms("text", b.text)
              [] IsCall(b) -> <<<<"call", b.id>>>>
              [] IsResult(b) -> <<<<IF b.is_error THEN "error" ELSE "result", b.tool_use_id>>>>
              [] b.type = "opaque" -> IF b.data.encrypted THEN <<<<"reasoning", b.data.id>>>> ELSE <<>>
              [] OTHER -> <<>>
    BY DEF BlockAtoms
  <2>2. IsText(b) => ~IsCall(b) /\ ~IsResult(b) /\ b.type # "opaque"
    BY DEF IsText, IsCall, IsResult
  <2>3. IsCall(b) => ~IsResult(b) /\ b.type # "opaque"
    BY DEF IsCall, IsResult
  <2>4. IsResult(b) => b.type # "opaque"
    BY DEF IsResult
  <2> QED
    BY <2>1, <2>2, <2>3, <2>4 DEF Answered
<1>2. [type : {"ignored"}] \subseteq AnyBlock
  BY DEF AnyBlock
<1> QED
  BY <1>1, <1>2, BlockKinds, KindsDiffer

LEMMA BlockAtomsConvert == BlockAtoms \in Conversion(AnyBlock, Atom)
<1>0. STRING \subseteq Fragment
  BY DEF Fragment
<1>1. ASSUME NEW b \in TextBlock PROVE BlockAtoms[b] \in Seq(Atom)
  <2>1. b.text \in Seq(Fragment)
    BY DEF TextBlock
  <2> QED
    BY <2>1, AtomsAre, BlockAtomsOf
<1>2. ASSUME NEW b \in CallBlock PROVE BlockAtoms[b] \in Seq(Atom)
  <2>1. <<"call", b.id>> \in Atom
    BY <1>0 DEF CallBlock, Atom
  <2>2. <<<<"call", b.id>>>> \in Seq(Atom)
    BY <2>1
  <2> QED
    BY <2>2, BlockAtomsOf
<1>3. ASSUME NEW b \in ResultBlock PROVE BlockAtoms[b] \in Seq(Atom)
  <2>1. Answered(b) \in Atom
    <3>1. b.tool_use_id \in Fragment
      BY <1>0 DEF ResultBlock
    <3> QED
      BY <3>1 DEF Answered, Atom
  <2>2. <<Answered(b)>> \in Seq(Atom)
    BY <2>1
  <2> QED
    BY <2>2, BlockAtomsOf
<1>4. ASSUME NEW b \in OpaqueBlock PROVE BlockAtoms[b] \in Seq(Atom)
  <2>1. <<"reasoning", b.data.id>> \in Atom
    <3>1. b.data.id \in STRING
      BY DEF OpaqueBlock, ReasoningItem
    <3> QED
      BY <1>0, <3>1 DEF Atom
  <2>2. <<<<"reasoning", b.data.id>>>> \in Seq(Atom) /\ <<>> \in Seq(Atom)
    BY <2>1
  <2> QED
    BY <2>2, BlockAtomsOf
<1>5. ASSUME NEW b \in ThinkingBlock \union [type : {"ignored"}] PROVE BlockAtoms[b] \in Seq(Atom)
  <2>1. <<>> \in Seq(Atom)
    OBVIOUS
  <2> QED
    BY <2>1, BlockAtomsOf
<1>6. \A b \in AnyBlock : BlockAtoms[b] \in Seq(Atom)
  BY <1>1, <1>2, <1>3, <1>4, <1>5 DEF AnyBlock
<1>7. \E e : BlockAtoms = [b \in AnyBlock |-> e[b]]
  <2>1. BlockAtoms = [b \in AnyBlock |-> BlockAtoms[b]]
    BY DEF BlockAtoms
  <2> QED
    BY <2>1
<1> QED
  BY <1>6, <1>7 DEF Conversion

\* Fragments one by one.
TextAtom == [x \in Fragment |-> <<<<"text", x>>>>]

LEMMA TextAtomsAre ==
    ASSUME NEW t \in Seq(Fragment)
    PROVE  Atoms("text", t) = FlatMap(TextAtom, t)
<1>1. PICK F : F = [x \in Fragment |-> <<"text", x>>]
  OBVIOUS
<1>2. \A x \in Fragment : TextAtom[x] = <<F[x]>>
  BY <1>1 DEF TextAtom
<1>3. FlatMap(TextAtom, t) = [k \in DOMAIN t |-> F[t[k]]]
  <2>1. Each(Fragment, F, TextAtom)
    BY <1>2 DEF Each
  <2> QED
    BY <2>1, FlatMapEach
<1>4. \A k \in DOMAIN t : t[k] \in Fragment
  <2> HIDE DEF Fragment
  <2> QED
    OBVIOUS
<1>5. [k \in DOMAIN t |-> F[t[k]]] = [k \in DOMAIN t |-> <<"text", t[k]>>]
  BY <1>1, <1>4
<1> QED
  BY <1>3, <1>5 DEF Atoms

LEMMA TextSays ==
    ASSUME NEW t \in Seq(TextBlock)
    PROVE  FlatMap(BlockAtoms, t) = Atoms("text", TextOf(t))
<1>1. t \in Seq(AnyBlock)
  BY BlockKinds, SeqWider
<1>2. TextOf(t) = FlatMap(ItsText, t)
  BY <1>1, SelectionsAre
<1>3. \A b \in TextBlock : ItsText[b] = b.text /\ ItsText[b] \in Seq(Fragment)
  BY SelectionsOf DEF TextBlock
<1>4. \A x \in Fragment : TextAtom[x] \in Seq(Atom)
  <2>1. \A x \in Fragment : <<"text", x>> \in Atom
    BY DEF Atom
  <2>2. ASSUME NEW x \in Fragment PROVE <<<<"text", x>>>> \in Seq(Atom)
    <3>1. PICK a \in Atom : a = <<"text", x>>
      BY <2>1
    <3>2. <<a>> \in Seq(Atom)
      OBVIOUS
    <3> QED
      BY <3>1, <3>2, Zenon
  <2>3. \A x \in Fragment : TextAtom[x] = <<<<"text", x>>>>
    BY DEF TextAtom
  <2> QED
    BY <2>2, <2>3
<1>5. \A b \in TextBlock : BlockAtoms[b] = FlatMap(TextAtom, ItsText[b])
  BY <1>3, TextAtomsAre, BlockAtomsOf
<1>6. FlatMap(TextAtom, FlatMap(ItsText, t)) = FlatMap(BlockAtoms, t)
  <2>1. Through(TextBlock, Fragment, Atom, ItsText, TextAtom, BlockAtoms)
    BY <1>3, <1>4, <1>5 DEF Through
  <2> QED
    BY <2>1, FlatMapThrough
<1>7. FlatMap(ItsText, t) \in Seq(Fragment)
  BY <1>1, SelectionsConvert, FlatMapIs
<1> QED
  BY <1>2, <1>6, <1>7, TextAtomsAre

LEMMA CallsSay ==
    ASSUME NEW c \in Seq(CallBlock)
    PROVE  FlatMap(BlockAtoms, c) = [k \in DOMAIN c |-> <<"call", c[k].id>>]
<1>1. PICK F : F = [b \in CallBlock |-> <<"call", b.id>>]
  OBVIOUS
<1>2. \A b \in CallBlock : F[b] = <<"call", b.id>> /\ BlockAtoms[b] = <<F[b]>>
  BY <1>1, BlockAtomsOf
<1>3. Each(CallBlock, F, BlockAtoms)
  BY <1>2 DEF Each
<1>4. FlatMap(BlockAtoms, c) = [k \in DOMAIN c |-> F[c[k]]]
  BY <1>3, FlatMapEach
<1>5. \A k \in DOMAIN c : c[k] \in CallBlock
  OBVIOUS
<1>6. [k \in DOMAIN c |-> F[c[k]]] = [k \in DOMAIN c |-> <<"call", c[k].id>>]
  BY <1>2, <1>5
<1> QED
  BY <1>4, <1>6

LEMMA ResultsSay ==
    ASSUME NEW c \in Seq(ResultBlock)
    PROVE  FlatMap(BlockAtoms, c) = [k \in DOMAIN c |-> Answered(c[k])]
<1>1. PICK F : F = [b \in ResultBlock |-> Answered(b)]
  OBVIOUS
<1>2. \A b \in ResultBlock : F[b] = Answered(b) /\ BlockAtoms[b] = <<F[b]>>
  BY <1>1, BlockAtomsOf
<1>3. Each(ResultBlock, F, BlockAtoms)
  BY <1>2 DEF Each
<1>4. FlatMap(BlockAtoms, c) = [k \in DOMAIN c |-> F[c[k]]]
  BY <1>3, FlatMapEach
<1>5. \A k \in DOMAIN c : c[k] \in ResultBlock
  OBVIOUS
<1>6. [k \in DOMAIN c |-> F[c[k]]] = [k \in DOMAIN c |-> Answered(c[k])]
  BY <1>2, <1>5
<1> QED
  BY <1>4, <1>6

\* Text and then calls, as Chat Completions has them.
LEMMA TextThenCalls ==
    ASSUME NEW t \in Seq(TextBlock), NEW c \in Seq(CallBlock)
    PROVE  /\ ToolUses(t \o c) = c
           /\ TextOf(t \o c) = TextOf(t)
           /\ Select(t \o c, IsText) = t
           /\ Select(t \o c, IsResult) = <<>>
           /\ FlatMap(BlockAtoms, t \o c)
                 = Atoms("text", TextOf(t)) \o [k \in DOMAIN c |-> <<"call", c[k].id>>]
<1>1. t \in Seq(AnyBlock) /\ c \in Seq(AnyBlock)
  BY BlockKinds, SeqWider
<1>2. t \o c \in Seq(AnyBlock)
  BY <1>1
<1>3. FlatMap(IfCall, t) = <<>> /\ FlatMap(IfCall, c) = c
  <2>1. FlatMap(IfCall, t) = <<>>
    BY SelectionsOf, FlatMapNothing
  <2>2. FlatMap(IfCall, c) = c
    BY SelectionsOf, FlatMapAll
  <2> QED
    BY <2>1, <2>2
<1>4. FlatMap(IfText, t) = t /\ FlatMap(IfText, c) = <<>>
  <2>1. FlatMap(IfText, c) = <<>>
    BY SelectionsOf, FlatMapNothing
  <2>2. FlatMap(IfText, t) = t
    BY SelectionsOf, FlatMapAll
  <2> QED
    BY <2>1, <2>2
<1>5. FlatMap(IfResult, t) = <<>> /\ FlatMap(IfResult, c) = <<>>
  <2>1. FlatMap(IfResult, c) = <<>>
    BY SelectionsOf, FlatMapNothing
  <2>2. FlatMap(IfResult, t) = <<>>
    BY SelectionsOf, FlatMapNothing
  <2> QED
    BY <2>1, <2>2
<1>6. FlatMap(ItsText, c) = <<>> /\ FlatMap(ItsText, t) = TextOf(t) /\ TextOf(t) \in Seq(Fragment)
  <2>1. FlatMap(ItsText, c) = <<>>
    BY SelectionsOf, FlatMapNothing
  <2>2. FlatMap(ItsText, t) = TextOf(t)
    BY <1>1, SelectionsAre
  <2>3. FlatMap(ItsText, t) \in Seq(Fragment)
    BY <1>1, SelectionsConvert, FlatMapIs
  <2> QED
    BY <2>1, <2>2, <2>3
<1>7. ToolUses(t \o c) = FlatMap(IfCall, t) \o FlatMap(IfCall, c)
  <2>1. FlatMap(IfCall, t \o c) = FlatMap(IfCall, t) \o FlatMap(IfCall, c)
    BY <1>1, SelectionsConvert, FlatMapBoth
  <2>2. ToolUses(t \o c) = FlatMap(IfCall, t \o c)
    BY <1>2, SelectionsAre
  <2> QED
    BY <2>1, <2>2, Zenon
<1>8. TextOf(t \o c) = FlatMap(ItsText, t) \o FlatMap(ItsText, c)
  <2>1. FlatMap(ItsText, t \o c) = FlatMap(ItsText, t) \o FlatMap(ItsText, c)
    BY <1>1, SelectionsConvert, FlatMapBoth
  <2>2. TextOf(t \o c) = FlatMap(ItsText, t \o c)
    BY <1>2, SelectionsAre
  <2> QED
    BY <2>1, <2>2, Zenon
<1>9. Select(t \o c, IsText) = FlatMap(IfText, t) \o FlatMap(IfText, c)
  <2>1. FlatMap(IfText, t \o c) = FlatMap(IfText, t) \o FlatMap(IfText, c)
    BY <1>1, SelectionsConvert, FlatMapBoth
  <2>2. Select(t \o c, IsText) = FlatMap(IfText, t \o c)
    BY <1>2, SelectionsAre
  <2> QED
    BY <2>1, <2>2, Zenon
<1>10. Select(t \o c, IsResult) = FlatMap(IfResult, t) \o FlatMap(IfResult, c)
  <2>1. FlatMap(IfResult, t \o c) = FlatMap(IfResult, t) \o FlatMap(IfResult, c)
    BY <1>1, SelectionsConvert, FlatMapBoth
  <2>2. Select(t \o c, IsResult) = FlatMap(IfResult, t \o c)
    BY <1>2, SelectionsAre
  <2> QED
    BY <2>1, <2>2, Zenon
<1>11. FlatMap(BlockAtoms, t \o c) = FlatMap(BlockAtoms, t) \o FlatMap(BlockAtoms, c)
  BY <1>1, BlockAtomsConvert, FlatMapBoth
<1>12. /\ <<>> \o c = c /\ t \o <<>> = t /\ <<>> \o <<>> = <<>>
       /\ TextOf(t) \o <<>> = TextOf(t)
  BY <1>6
<1>13. ToolUses(t \o c) = c
  BY <1>3, <1>7, <1>12, Zenon
<1>14. TextOf(t \o c) = TextOf(t)
  BY <1>6, <1>8, <1>12, Zenon
<1>15. Select(t \o c, IsText) = t
  BY <1>4, <1>9, <1>12, Zenon
<1>16. Select(t \o c, IsResult) = <<>>
  BY <1>5, <1>10, <1>12, Zenon
<1> QED
  BY <1>11, <1>13, <1>14, <1>15, <1>16, TextSays, CallsSay

-----------------------------------------------------------------------------
(* The transcript, and that every adapter says it again.                   *)

\* What is said in a message, and in a transcript.
MessageAtoms == [m \in Message |-> FlatMap(BlockAtoms, m.content)]

Spoken(transcript) == FlatMap(MessageAtoms, transcript)

\* What the loop puts into a transcript: a prompt or results, and responses as
\* the adapter makes them.
UserMessage == [role : {"user"}, content : Seq(TextBlock) \union Seq(ResultBlock)]

TextsThenCalls == {t \o c : t \in Seq(TextBlock), c \in Seq(CallBlock)}

ResponseContent(ad) ==
    CASE ad \in {"anthropic", "compatible"} -> Seq(TextBlock \union CallBlock)
      [] ad = "openrouter" -> TextsThenCalls
      [] OTHER -> Seq(ContentBlock)

Fitting(ad) == UserMessage \union [role : {"assistant"}, content : ResponseContent(ad)]

PlainBlock == TextBlock \union CallBlock \union ResultBlock

LEMMA ResponseContentIs ==
    ASSUME NEW ad, NEW content \in ResponseContent(ad) PROVE content \in Seq(ContentBlock)
<1>1. CASE ad \in {"anthropic", "compatible"}
  <2>1. content \in Seq(TextBlock \union CallBlock)
    BY <1>1 DEF ResponseContent
  <2>2. TextBlock \union CallBlock \subseteq ContentBlock
    BY DEF ContentBlock
  <2> QED
    BY <2>1, <2>2, SeqWider
<1>2. CASE ad = "openrouter"
  <2>1. content \in TextsThenCalls
    BY <1>2 DEF ResponseContent
  <2>2. PICK t \in Seq(TextBlock), c \in Seq(CallBlock) : content = t \o c
    BY <2>1 DEF TextsThenCalls
  <2>3. TextBlock \subseteq ContentBlock /\ CallBlock \subseteq ContentBlock
    BY DEF ContentBlock
  <2>4. t \in Seq(ContentBlock) /\ c \in Seq(ContentBlock)
    BY <2>3, SeqWider
  <2> QED
    BY <2>2, <2>4
<1>3. CASE ad \notin {"anthropic", "compatible", "openrouter"}
  BY <1>3 DEF ResponseContent
<1> QED
  BY <1>1, <1>2, <1>3

LEMMA FittingIs ==
    ASSUME NEW ad, NEW m \in Fitting(ad)
    PROVE  m \in Message /\ m.content \in Seq(AnyBlock)
<1>1. CASE m \in UserMessage
  <2>1. m.role = "user" /\ m.content \in Seq(TextBlock) \union Seq(ResultBlock)
    BY <1>1 DEF UserMessage
  <2>2. TextBlock \subseteq TextBlock \union ResultBlock /\ ResultBlock \subseteq TextBlock \union ResultBlock
    OBVIOUS
  <2>3. m.content \in Seq(TextBlock \union ResultBlock)
    BY <2>1, <2>2, SeqWider
  <2>4. TextBlock \union ResultBlock \subseteq AnyBlock
    BY BlockKinds
  <2>5. m.content \in Seq(AnyBlock)
    BY <2>3, <2>4, SeqWider
  <2> QED
    BY <1>1, <2>3, <2>5 DEF Message, UserMessage
<1>2. CASE m \in [role : {"assistant"}, content : ResponseContent(ad)]
  <2>1. m.content \in Seq(ContentBlock)
    BY <1>2, ResponseContentIs
  <2>2. m.content \in Seq(AnyBlock)
    BY <2>1, BlockKinds, SeqWider
  <2> QED
    BY <1>2, <2>1, <2>2 DEF Message
<1> QED
  BY <1>1, <1>2 DEF Fitting

LEMMA MessageAtomsAre ==
    ASSUME NEW ad, NEW m \in Fitting(ad)
    PROVE  MessageAtoms[m] = FlatMap(BlockAtoms, m.content) /\ MessageAtoms[m] \in Seq(Atom)
<1>1. m \in Message /\ m.content \in Seq(AnyBlock)
  BY FittingIs
<1>2. FlatMap(BlockAtoms, m.content) \in Seq(Atom)
  BY <1>1, BlockAtomsConvert, FlatMapIs
<1> QED
  BY <1>1, <1>2 DEF MessageAtoms

-----------------------------------------------------------------------------
\* The Messages API: every message as it is, but those with nothing in them.
LEMMA PlainContent ==
    ASSUME NEW ad \in {"anthropic", "compatible"}, NEW m \in Fitting(ad)
    PROVE  m.content \in Seq(PlainBlock)
<1>1. CASE m \in UserMessage
  <2>1. m.content \in Seq(TextBlock) \union Seq(ResultBlock)
    BY <1>1 DEF UserMessage
  <2>2. TextBlock \subseteq PlainBlock /\ ResultBlock \subseteq PlainBlock
    BY DEF PlainBlock
  <2> QED
    BY <2>1, <2>2, SeqWider
<1>2. CASE m \in [role : {"assistant"}, content : ResponseContent(ad)]
  <2>1. m.content \in Seq(TextBlock \union CallBlock)
    BY <1>2 DEF ResponseContent
  <2>2. TextBlock \union CallBlock \subseteq PlainBlock
    BY DEF PlainBlock
  <2> QED
    BY <2>1, <2>2, SeqWider
<1> QED
  BY <1>1, <1>2 DEF Fitting

AnthropicSent(m) == IF m.content = <<>> THEN <<>> ELSE <<[role |-> m.role, content |-> m.content]>>

LEMMA AnthropicKeeps ==
    ASSUME NEW c \in Seq(PlainBlock)
    PROVE  Select(c, LAMBDA b : b.type # "opaque") = c
<1>1. PICK f : f = [b \in PlainBlock |-> <<b>>]
  OBVIOUS
<1>2. \A b \in PlainBlock : f[b] = <<b>> /\ b.type # "opaque"
  BY <1>1, KindsDiffer DEF PlainBlock
<1>3. \A k \in DOMAIN c : c[k] \in PlainBlock
  OBVIOUS
<1>4. [k \in DOMAIN c |-> IF c[k].type # "opaque" THEN <<c[k]>> ELSE <<>>] = [k \in DOMAIN c |-> f[c[k]]]
  BY <1>2, <1>3
<1>5. Select(c, LAMBDA b : b.type # "opaque") = FlatMap(f, c)
  BY <1>4 DEF Select, FlatMap
<1>6. FlatMap(f, c) = c
  <2>1. \A b \in PlainBlock : f[b] = <<b>>
    BY <1>2
  <2> QED
    BY <2>1, FlatMapAll
<1> QED
  BY <1>5, <1>6

LEMMA AnthropicSays ==
    ASSUME NEW c \in Seq(PlainBlock)
    PROVE  FlattenSeq([k \in DOMAIN c |->
               CASE IsText(c[k]) -> Atoms("text", c[k].text)
                 [] IsCall(c[k]) -> <<<<"call", c[k].id>>>>
                 [] IsResult(c[k]) -> <<<<IF c[k].is_error THEN "error" ELSE "result", c[k].tool_use_id>>>>])
           = FlatMap(BlockAtoms, c)
<1>1. \A k \in DOMAIN c : c[k] \in PlainBlock
  OBVIOUS
<1>2. ASSUME NEW b \in PlainBlock
      PROVE  BlockAtoms[b] =
                CASE IsText(b) -> Atoms("text", b.text)
                  [] IsCall(b) -> <<<<"call", b.id>>>>
                  [] IsResult(b) -> <<<<IF b.is_error THEN "error" ELSE "result", b.tool_use_id>>>>
  <2>1. CASE b \in TextBlock
    <3>1. IsText(b) /\ ~IsCall(b) /\ ~IsResult(b) /\ BlockAtoms[b] = Atoms("text", b.text)
      BY <2>1, KindsDiffer, BlockAtomsOf
    <3> QED
      BY <3>1
  <2>2. CASE b \in CallBlock
    <3>1. ~IsText(b) /\ IsCall(b) /\ ~IsResult(b) /\ BlockAtoms[b] = <<<<"call", b.id>>>>
      BY <2>2, KindsDiffer, BlockAtomsOf
    <3> QED
      BY <3>1
  <2>3. CASE b \in ResultBlock
    <3>1. ~IsText(b) /\ ~IsCall(b) /\ IsResult(b) /\ BlockAtoms[b] = <<Answered(b)>>
      BY <2>3, KindsDiffer, BlockAtomsOf
    <3> QED
      BY <3>1 DEF Answered
  <2> QED
    BY <2>1, <2>2, <2>3 DEF PlainBlock
<1>3. [k \in DOMAIN c |->
               CASE IsText(c[k]) -> Atoms("text", c[k].text)
                 [] IsCall(c[k]) -> <<<<"call", c[k].id>>>>
                 [] IsResult(c[k]) -> <<<<IF c[k].is_error THEN "error" ELSE "result", c[k].tool_use_id>>>>]
      = [k \in DOMAIN c |-> BlockAtoms[c[k]]]
  BY <1>1, <1>2, Zenon
<1> QED
  BY <1>3 DEF FlatMap

LEMMA AnthropicWireIs ==
    ASSUME NEW ad \in {"anthropic", "compatible"}, NEW ms \in Seq(Fitting(ad)),
           NEW g, g = [m \in Fitting(ad) |-> AnthropicSent(m)]
    PROVE  /\ AnthropicWire(ms) = FlatMap(g, ms)
           /\ g \in Conversion(Fitting(ad), Fitting(ad))
<1> DEFINE C == Fitting(ad)
<1>1. g = [m \in C |-> AnthropicSent(m)]
  OBVIOUS
<1>2. \A m \in C : m.content \in Seq(PlainBlock)
  BY PlainContent
<1>3. \A k \in DOMAIN ms : ms[k] \in C
  <2>1. ms \in Seq(C)
    OBVIOUS
  <2> HIDE DEF C
  <2> QED
    BY <2>1
<1>4. \A m \in C : Select(m.content, LAMBDA b : b.type # "opaque") = m.content
  BY <1>2, AnthropicKeeps
<1> HIDE DEF C
<1>5. AnthropicWire(ms) = FlatMap(g, ms)
  <2>1. [k \in DOMAIN ms |->
            LET kept == Select(ms[k].content, LAMBDA b : b.type # "opaque")
            IN  IF kept = <<>> THEN <<>> ELSE <<[role |-> ms[k].role, content |-> kept]>>]
        = [k \in DOMAIN ms |-> g[ms[k]]]
    <3>1. ASSUME NEW k \in DOMAIN ms
          PROVE  (LET kept == Select(ms[k].content, LAMBDA b : b.type # "opaque")
                  IN  IF kept = <<>> THEN <<>> ELSE <<[role |-> ms[k].role, content |-> kept]>>)
                 = g[ms[k]]
      <4>1. PICK m \in C : m = ms[k]
        BY <1>3
      <4>2. Select(m.content, LAMBDA b : b.type # "opaque") = m.content
        BY <1>4
      <4>3. g[m] = AnthropicSent(m)
        BY <1>1
      <4> QED
        BY <4>1, <4>2, <4>3, Zenon DEF AnthropicSent
    <3> QED
      BY <3>1, Zenon
  <2> QED
    BY <2>1, Zenon DEF AnthropicWire, FlatMap
<1>6. \A m \in C : g[m] \in Seq(C)
  <2> SUFFICES ASSUME NEW m \in C PROVE g[m] \in Seq(C)
    OBVIOUS
  <2>1. PICK e : e = [role |-> m.role, content |-> m.content]
    OBVIOUS
  <2>2. e \in C
    BY <2>1 DEF C, Fitting, UserMessage
  <2>3. <<e>> \in Seq(C) /\ <<>> \in Seq(C)
    BY <2>2
  <2>4. g[m] = <<e>> \/ g[m] = <<>>
    BY <1>1, <2>1 DEF AnthropicSent
  <2> QED
    BY <2>3, <2>4
<1>7. g \in Conversion(C, C)
  BY <1>1, <1>6 DEF Conversion
<1> QED
  BY <1>5, <1>7 DEF C

LEMMA AnthropicRepeats ==
    ASSUME NEW ad \in {"anthropic", "compatible"}, NEW ms \in Seq(Fitting(ad))
    PROVE  AnthropicAtoms(AnthropicWire(ms)) = Spoken(ms)
<1> DEFINE C == Fitting(ad)
<1>1. PICK g : g = [m \in C |-> AnthropicSent(m)]
  OBVIOUS
<1>2. \A m \in C : m.content \in Seq(PlainBlock)
  BY PlainContent
<1>4. AnthropicWire(ms) = FlatMap(g, ms) /\ g \in Conversion(C, C)
  BY <1>1, AnthropicWireIs
<1> HIDE DEF C
<1>5. AnthropicWire(ms) = FlatMap(g, ms)
  BY <1>4
<1>6. \A m \in C : g[m] \in Seq(C)
  BY <1>4 DEF Conversion
<1>7. \A m \in C : MessageAtoms[m] = FlatMap(BlockAtoms, m.content) /\ MessageAtoms[m] \in Seq(Atom)
  BY MessageAtomsAre DEF C
<1>8. \A m \in C : MessageAtoms[m] = FlatMap(MessageAtoms, g[m])
  <2> SUFFICES ASSUME NEW m \in C PROVE MessageAtoms[m] = FlatMap(MessageAtoms, g[m])
    OBVIOUS
  <2>1. g[m] = AnthropicSent(m)
    BY <1>1
  <2>2. CASE m.content = <<>>
    <3>1. g[m] = <<>>
      BY <2>1, <2>2 DEF AnthropicSent
    <3>2. FlatMap(BlockAtoms, <<>>) = <<>> /\ FlatMap(MessageAtoms, <<>>) = <<>>
      BY FlatMapNone
    <3> QED
      BY <1>7, <2>2, <3>1, <3>2
  <2>3. CASE m.content # <<>>
    <3>1. PICK e : e = [role |-> m.role, content |-> m.content]
      OBVIOUS
    <3>2. g[m] = <<e>>
      BY <2>1, <2>3, <3>1 DEF AnthropicSent
    <3>3. e = m
      BY <3>1 DEF C, Fitting, UserMessage
    <3>4. FlatMap(MessageAtoms, <<m>>) = MessageAtoms[m]
      BY <1>7, FlatMapSingle
    <3> QED
      BY <3>2, <3>3, <3>4
  <2> QED
    BY <2>2, <2>3
<1>9. PICK w : w = FlatMap(g, ms)
  OBVIOUS
<1>10. w \in Seq(C)
  <2>1. g \in Conversion(C, C)
    BY <1>4
  <2>2. ms \in Seq(C)
    BY DEF C
  <2> QED
    BY <1>9, <2>1, <2>2, FlatMapIs
<1>11. AnthropicAtoms(w) = FlatMap(MessageAtoms, w)
  <2>1. \A k \in DOMAIN w : w[k] \in C
    BY <1>10
  <2>2. \A k \in DOMAIN w : w[k].content \in Seq(PlainBlock) /\ MessageAtoms[w[k]] = FlatMap(BlockAtoms, w[k].content)
    BY <1>2, <1>7, <2>1
  <2>3. [k \in DOMAIN w |->
             FlattenSeq([n \in DOMAIN w[k].content |->
               CASE IsText(w[k].content[n]) -> Atoms("text", w[k].content[n].text)
                 [] IsCall(w[k].content[n]) -> <<<<"call", w[k].content[n].id>>>>
                 [] IsResult(w[k].content[n]) ->
                        <<<<IF w[k].content[n].is_error THEN "error" ELSE "result",
                            w[k].content[n].tool_use_id>>>>])]
        = [k \in DOMAIN w |-> MessageAtoms[w[k]]]
    <3>1. ASSUME NEW k \in DOMAIN w
          PROVE FlattenSeq([n \in DOMAIN w[k].content |->
               CASE IsText(w[k].content[n]) -> Atoms("text", w[k].content[n].text)
                 [] IsCall(w[k].content[n]) -> <<<<"call", w[k].content[n].id>>>>
                 [] IsResult(w[k].content[n]) ->
                        <<<<IF w[k].content[n].is_error THEN "error" ELSE "result",
                            w[k].content[n].tool_use_id>>>>])
                = MessageAtoms[w[k]]
      <4>1. PICK c \in Seq(PlainBlock) : c = w[k].content
        BY <2>2
      <4>2. MessageAtoms[w[k]] = FlatMap(BlockAtoms, c)
        BY <2>2, <4>1
      <4> QED
        BY <4>1, <4>2, AnthropicSays, Zenon
    <3> QED
      BY <3>1, Zenon
  <2> QED
    BY <2>3, Zenon DEF AnthropicAtoms, FlatMap
<1>12. FlatMap(MessageAtoms, FlatMap(g, ms)) = FlatMap(MessageAtoms, ms)
  <2>1. Through(C, C, Atom, g, MessageAtoms, MessageAtoms)
    BY <1>6, <1>7, <1>8 DEF Through
  <2>2. ms \in Seq(C)
    BY DEF C
  <2> QED
    BY <2>1, <2>2, FlatMapThrough
<1> QED
  BY <1>5, <1>9, <1>11, <1>12 DEF Spoken

-----------------------------------------------------------------------------
(* Chat Completions: a message of results is a message for each.           *)

ToolMessage(r) ==
    ChatMessage("tool", IF r.is_error THEN <<"ERROR">> ELSE <<>>, <<>>, r.tool_use_id)

SpokenMessage == [role : {"assistant", "user"}, content : Seq(Fragment),
                  tool_calls : Seq(CallBlock), tool_call_id : {NoCall}]

AnsweringMessage == [role : {"tool"}, content : {<<>>, <<"ERROR">>},
                     tool_calls : {<<>>}, tool_call_id : STRING]

WireMessage == SpokenMessage \union AnsweringMessage

ChatSaid(m) ==
    IF m.role = "tool" THEN <<<<IF m.content = <<>> THEN "result" ELSE "error", m.tool_call_id>>>>
    ELSE Atoms("text", m.content) \o [k \in DOMAIN m.tool_calls |-> <<"call", m.tool_calls[k].id>>]

ChatOf == [m \in WireMessage |-> ChatSaid(m)]

LEMMA ChatAtomsAre ==
    ASSUME NEW w \in Seq(WireMessage) PROVE ChatAtoms(w) = FlatMap(ChatOf, w)
<1>1. \A k \in DOMAIN w : w[k] \in WireMessage
  OBVIOUS
<1>2. \A m \in WireMessage : ChatOf[m] = ChatSaid(m)
  BY DEF ChatOf
<1>3. [k \in DOMAIN w |->
          IF w[k].role = "tool"
          THEN <<<<IF w[k].content = <<>> THEN "result" ELSE "error", w[k].tool_call_id>>>>
          ELSE Atoms("text", w[k].content)
               \o [n \in DOMAIN w[k].tool_calls |-> <<"call", w[k].tool_calls[n].id>>]]
      = [k \in DOMAIN w |-> ChatOf[w[k]]]
  <2>1. ASSUME NEW k \in DOMAIN w
        PROVE  (IF w[k].role = "tool"
                THEN <<<<IF w[k].content = <<>> THEN "result" ELSE "error", w[k].tool_call_id>>>>
                ELSE Atoms("text", w[k].content)
                     \o [n \in DOMAIN w[k].tool_calls |-> <<"call", w[k].tool_calls[n].id>>])
               = ChatOf[w[k]]
    BY <1>1, <1>2, Zenon DEF ChatSaid
  <2> QED
    BY <2>1, Zenon
<1> QED
  BY <1>3, Zenon DEF ChatAtoms, FlatMap

LEMMA ResultsOnly ==
    ASSUME NEW r \in Seq(ResultBlock)
    PROVE  Select(r, IsText) = <<>> /\ Select(r, IsResult) = r /\ ToolUses(r) = <<>>
<1>1. r \in Seq(AnyBlock)
  BY BlockKinds, SeqWider
<1>2. FlatMap(IfText, r) = <<>>
  BY SelectionsOf, FlatMapNothing
<1>3. FlatMap(IfResult, r) = r
  BY SelectionsOf, FlatMapAll
<1>4. FlatMap(IfCall, r) = <<>>
  BY SelectionsOf, FlatMapNothing
<1> QED
  BY <1>1, <1>2, <1>3, <1>4, SelectionsAre

LEMMA TextsOnly ==
    ASSUME NEW t \in Seq(TextBlock)
    PROVE  /\ ToolUses(t) = <<>> /\ Select(t, IsText) = t /\ Select(t, IsResult) = <<>>
           /\ TextOf(t) \in Seq(Fragment)
<1>1. t \in Seq(AnyBlock)
  BY BlockKinds, SeqWider
<1>2. FlatMap(IfText, t) = t
  BY SelectionsOf, FlatMapAll
<1>3. FlatMap(IfResult, t) = <<>>
  BY SelectionsOf, FlatMapNothing
<1>4. FlatMap(IfCall, t) = <<>>
  BY SelectionsOf, FlatMapNothing
<1>5. FlatMap(ItsText, t) \in Seq(Fragment)
  BY <1>1, SelectionsConvert, FlatMapIs
<1> QED
  BY <1>1, <1>2, <1>3, <1>4, <1>5, SelectionsAre

\* What a message becomes.
LEMMA ChatTells ==
    ASSUME NEW t \in Seq(TextBlock), NEW c \in Seq(CallBlock),
           NEW m, m = [role |-> "assistant", content |-> t \o c]
    PROVE  ChatMessages(m) = IF t = <<>> /\ c = <<>> THEN <<>>
                             ELSE <<ChatMessage("assistant", TextOf(t), c, NoCall)>>
<1>1. m.role = "assistant" /\ m.content = t \o c
  OBVIOUS
<1>2. /\ ToolUses(t \o c) = c
      /\ TextOf(t \o c) = TextOf(t)
      /\ Select(t \o c, IsText) = t
  BY TextThenCalls
<1> QED
  BY <1>1, <1>2, Zenon DEF ChatMessages

LEMMA ChatPrompts ==
    ASSUME NEW t \in Seq(TextBlock), NEW m, m = [role |-> "user", content |-> t]
    PROVE  ChatMessages(m) = IF t = <<>> THEN <<>> ELSE <<ChatMessage("user", TextOf(t), <<>>, NoCall)>>
<1>1. m.role # "assistant" /\ m.content = t
  OBVIOUS
<1>2. Select(t, IsText) = t /\ Select(t, IsResult) = <<>>
  BY TextsOnly
<1>3. PICK e : e = [k \in DOMAIN <<>> |->
                 [ChatMessage("tool", <<>>, <<>>, <<>>[k].tool_use_id)
                      EXCEPT !.content = IF <<>>[k].is_error THEN <<"ERROR">> ELSE <<>>]]
  OBVIOUS
<1>4. e = <<>>
  BY <1>3
<1>5. PICK s : s = IF t = <<>> THEN <<>> ELSE <<ChatMessage("user", TextOf(t), <<>>, NoCall)>>
  OBVIOUS
<1>6. ChatMessages(m) = e \o s
  BY <1>1, <1>2, <1>3, <1>5, Zenon DEF ChatMessages
<1>7. <<>> \o s = s
  BY <1>5
<1> QED
  BY <1>4, <1>5, <1>6, <1>7, Zenon

LEMMA ChatAnswers ==
    ASSUME NEW r \in Seq(ResultBlock), NEW m, m = [role |-> "user", content |-> r]
    PROVE  ChatMessages(m) = [k \in DOMAIN r |-> ToolMessage(r[k])]
<1>1. m.role # "assistant" /\ m.content = r
  OBVIOUS
<1>2. Select(r, IsText) = <<>> /\ Select(r, IsResult) = r
  BY ResultsOnly
<1>3. PICK e : e = [k \in DOMAIN r |->
                 [ChatMessage("tool", <<>>, <<>>, r[k].tool_use_id)
                      EXCEPT !.content = IF r[k].is_error THEN <<"ERROR">> ELSE <<>>]]
  OBVIOUS
<1>4. e = [k \in DOMAIN r |-> ToolMessage(r[k])]
  BY <1>3 DEF ToolMessage, ChatMessage
<1>5. ChatMessages(m) = e \o <<>>
  BY <1>1, <1>2, <1>3, Zenon DEF ChatMessages
<1>6. e \o <<>> = e
  <2>1. PICK S : S = {e[k] : k \in DOMAIN e}
    OBVIOUS
  <2>2. PICK n \in Nat : DOMAIN r = 1 .. n
    OBVIOUS
  <2>3. e \in [1 .. n -> S]
    BY <1>3, <2>1, <2>2
  <2>4. e \in Seq(S)
    BY <2>3
  <2> QED
    BY <2>4
<1> QED
  BY <1>4, <1>5, <1>6

LEMMA ToolMessageIs ==
    ASSUME NEW r \in ResultBlock
    PROVE  ToolMessage(r) \in WireMessage /\ ChatSaid(ToolMessage(r)) = <<Answered(r)>>
<1>1. r.tool_use_id \in STRING /\ r.is_error \in BOOLEAN
  BY DEF ResultBlock
<1>2. ToolMessage(r) \in AnsweringMessage
  BY <1>1 DEF ToolMessage, ChatMessage, AnsweringMessage
<1>3. <<"ERROR">> # <<>>
  OBVIOUS
<1>4. ChatSaid(ToolMessage(r)) = <<Answered(r)>>
  BY <1>1, <1>3 DEF ToolMessage, ChatMessage, ChatSaid, Answered
<1> QED
  BY <1>2, <1>4 DEF WireMessage

\* What it says there.
LEMMA ChatTold ==
    ASSUME NEW t \in Seq(TextBlock), NEW c \in Seq(CallBlock), NEW role \in {"assistant", "user"},
           NEW w, w = IF t = <<>> /\ c = <<>> THEN <<>> ELSE <<ChatMessage(role, TextOf(t), c, NoCall)>>
    PROVE  w \in Seq(WireMessage) /\ FlatMap(ChatOf, w) = FlatMap(BlockAtoms, t \o c)
<1>1. CASE t = <<>> /\ c = <<>>
  <2>1. w = <<>> /\ t \o c = <<>>
    BY <1>1
  <2>2. <<>> \in Seq(WireMessage)
    OBVIOUS
  <2> QED
    BY <2>1, <2>2, FlatMapNone
<1>2. CASE ~(t = <<>> /\ c = <<>>)
  <2>1. PICK e : e = ChatMessage(role, TextOf(t), c, NoCall)
    OBVIOUS
  <2>2. w = <<e>>
    BY <1>2, <2>1
  <2>3. e \in SpokenMessage
    BY <2>1, TextsOnly DEF ChatMessage, SpokenMessage
  <2>4. e \in WireMessage /\ e.role # "tool" /\ e.content = TextOf(t) /\ e.tool_calls = c
    BY <2>1, <2>3 DEF ChatMessage, WireMessage
  <2>5. ChatOf[e] = FlatMap(BlockAtoms, t \o c)
    <3>1. ChatOf[e] = ChatSaid(e)
      BY <2>4 DEF ChatOf
    <3>2. ChatSaid(e) = Atoms("text", TextOf(t)) \o [k \in DOMAIN c |-> <<"call", c[k].id>>]
      BY <2>4 DEF ChatSaid
    <3>3. FlatMap(BlockAtoms, t \o c) = Atoms("text", TextOf(t)) \o [k \in DOMAIN c |-> <<"call", c[k].id>>]
      BY TextThenCalls
    <3> QED
      BY <3>1, <3>2, <3>3, Zenon
  <2>6. FlatMap(BlockAtoms, t \o c) \in Seq(Atom)
    <3>1. t \in Seq(AnyBlock) /\ c \in Seq(AnyBlock)
      BY BlockKinds, SeqWider
    <3>2. t \o c \in Seq(AnyBlock)
      BY <3>1
    <3> QED
      BY <3>2, BlockAtomsConvert, FlatMapIs
  <2>7. ChatOf[e] \in Seq(Atom)
    BY <2>5, <2>6
  <2>8. FlatMap(ChatOf, <<e>>) = ChatOf[e]
    BY <2>7, FlatMapSingle
  <2>9. <<e>> \in Seq(WireMessage)
    BY <2>4
  <2> QED
    BY <2>2, <2>5, <2>8, <2>9, Zenon
<1> QED
  BY <1>1, <1>2

LEMMA ChatSays == \A e \in WireMessage : ChatOf[e] \in Seq(Atom)
<1>1. ASSUME NEW e \in SpokenMessage PROVE ChatOf[e] \in Seq(Atom)
  <2>1. e \in WireMessage /\ e.role # "tool" /\ e.content \in Seq(Fragment) /\ e.tool_calls \in Seq(CallBlock)
    BY DEF SpokenMessage, WireMessage
  <2>2. PICK t, c : t = e.content /\ c = e.tool_calls
    OBVIOUS
  <2>3. c \in Seq(CallBlock) /\ t \in Seq(Fragment)
    BY <2>1, <2>2
  <2>4. ChatOf[e] = Atoms("text", t) \o [k \in DOMAIN c |-> <<"call", c[k].id>>]
    BY <2>1, <2>2 DEF ChatOf, ChatSaid
  <2>5. FlatMap(BlockAtoms, c) = [k \in DOMAIN c |-> <<"call", c[k].id>>]
    BY <2>3, CallsSay
  <2>6. FlatMap(BlockAtoms, c) \in Seq(Atom)
    <3>1. c \in Seq(AnyBlock)
      BY <2>3, BlockKinds, SeqWider
    <3> QED
      BY <3>1, BlockAtomsConvert, FlatMapIs
  <2>7. Atoms("text", t) \in Seq(Atom)
    BY <2>3, AtomsAre
  <2>8. PICK a, d : a = Atoms("text", t) /\ d = FlatMap(BlockAtoms, c)
    OBVIOUS
  <2>9. a \o d \in Seq(Atom)
    BY <2>6, <2>7, <2>8
  <2> QED
    BY <2>4, <2>5, <2>8, <2>9, Zenon
<1>2. ASSUME NEW e \in AnsweringMessage PROVE ChatOf[e] \in Seq(Atom)
  <2>1. e \in WireMessage /\ e.role = "tool" /\ e.tool_call_id \in STRING
    BY DEF AnsweringMessage, WireMessage
  <2>2. e.tool_call_id \in Fragment
    BY <2>1 DEF Fragment
  <2>3. PICK a : a = <<IF e.content = <<>> THEN "result" ELSE "error", e.tool_call_id>>
    OBVIOUS
  <2>4. a \in Atom
    BY <2>2, <2>3 DEF Atom
  <2>5. ChatOf[e] = <<a>>
    BY <2>1, <2>3 DEF ChatOf, ChatSaid
  <2>6. <<a>> \in Seq(Atom)
    BY <2>4
  <2> QED
    BY <2>5, <2>6
<1> QED
  BY <1>1, <1>2 DEF WireMessage

LEMMA ChatAnswered ==
    ASSUME NEW r \in Seq(ResultBlock), NEW w, w = [k \in DOMAIN r |-> ToolMessage(r[k])]
    PROVE  w \in Seq(WireMessage) /\ FlatMap(ChatOf, w) = FlatMap(BlockAtoms, r)
<1>1. PICK F : F = [b \in ResultBlock |-> ToolMessage(b)]
  OBVIOUS
<1>2. PICK f : f = [b \in ResultBlock |-> <<ToolMessage(b)>>]
  OBVIOUS
<1>3. \A b \in ResultBlock : F[b] = ToolMessage(b) /\ f[b] = <<F[b]>> /\ F[b] \in WireMessage
  BY <1>1, <1>2, ToolMessageIs
<1>4. Each(ResultBlock, F, f)
  BY <1>3 DEF Each
<1>5. FlatMap(f, r) = [k \in DOMAIN r |-> F[r[k]]]
  BY <1>4, FlatMapEach
<1>6. \A k \in DOMAIN r : r[k] \in ResultBlock
  OBVIOUS
<1>7. [k \in DOMAIN r |-> F[r[k]]] = w
  BY <1>3, <1>6
<1>8. ASSUME NEW b \in ResultBlock
      PROVE  /\ f[b] \in Seq(WireMessage)
             /\ BlockAtoms[b] = FlatMap(ChatOf, f[b])
  <2>1. PICK e \in WireMessage : e = ToolMessage(b)
    BY ToolMessageIs
  <2>2. f[b] = <<e>> /\ <<e>> \in Seq(WireMessage)
    BY <1>3, <2>1
  <2>3. ChatOf[e] = <<Answered(b)>>
    BY <2>1, ToolMessageIs DEF ChatOf
  <2>4. BlockAtoms[b] = <<Answered(b)>> /\ BlockAtoms[b] \in Seq(Atom)
    BY BlockAtomsOf, BlockAtomsConvert, BlockKinds DEF Conversion
  <2>5. FlatMap(ChatOf, <<e>>) = ChatOf[e]
    <3>1. ChatOf[e] \in Seq(Atom)
      BY <2>3, <2>4
    <3> QED
      BY <3>1, FlatMapSingle
  <2> QED
    BY <2>2, <2>3, <2>4, <2>5
<1>9. \A e \in WireMessage : ChatOf[e] \in Seq(Atom)
  BY ChatSays
<1>10. FlatMap(ChatOf, FlatMap(f, r)) = FlatMap(BlockAtoms, r)
  <2>1. Through(ResultBlock, WireMessage, Atom, f, ChatOf, BlockAtoms)
    BY <1>8, <1>9 DEF Through
  <2> QED
    BY <2>1, FlatMapThrough
<1>11. w \in Seq(WireMessage)
  <2>1. F \in [ResultBlock -> WireMessage]
    BY <1>1, <1>3
  <2>2. [k \in DOMAIN r |-> F[r[k]]] \in Seq(WireMessage)
    BY <2>1, MapIs
  <2> QED
    BY <1>7, <2>2
<1> QED
  BY <1>5, <1>7, <1>10, <1>11

-----------------------------------------------------------------------------
LEMMA ChatMessageSays ==
    ASSUME NEW m \in Fitting("openrouter")
    PROVE  ChatMessages(m) \in Seq(WireMessage) /\ FlatMap(ChatOf, ChatMessages(m)) = MessageAtoms[m]
<1>1. MessageAtoms[m] = FlatMap(BlockAtoms, m.content)
  BY MessageAtomsAre
<1>2. CASE m \in UserMessage
  <2>1. m = [role |-> "user", content |-> m.content] /\ m.content \in Seq(TextBlock) \union Seq(ResultBlock)
    BY <1>2 DEF UserMessage
  <2>2. CASE m.content \in Seq(TextBlock)
    <3>1. PICK t \in Seq(TextBlock) : t = m.content
      BY <2>2
    <3>2. PICK c : c = <<>>
      OBVIOUS
    <3>3. c \in Seq(CallBlock) /\ t \o c = t
      BY <3>2
    <3>4. PICK w : w = IF t = <<>> /\ c = <<>> THEN <<>> ELSE <<ChatMessage("user", TextOf(t), c, NoCall)>>
      OBVIOUS
    <3>5. w \in Seq(WireMessage) /\ FlatMap(ChatOf, w) = FlatMap(BlockAtoms, t \o c)
      BY <3>3, <3>4, ChatTold
    <3>6. m = [role |-> "user", content |-> t]
      BY <2>1, <3>1
    <3>7. ChatMessages(m) = w
      BY <3>2, <3>4, <3>6, ChatPrompts
    <3> QED
      BY <1>1, <3>1, <3>3, <3>5, <3>7
  <2>3. CASE m.content \in Seq(ResultBlock)
    <3>1. PICK r \in Seq(ResultBlock) : r = m.content
      BY <2>3
    <3>2. PICK w : w = [k \in DOMAIN r |-> ToolMessage(r[k])]
      OBVIOUS
    <3>3. w \in Seq(WireMessage) /\ FlatMap(ChatOf, w) = FlatMap(BlockAtoms, r)
      BY <3>2, ChatAnswered
    <3>4. m = [role |-> "user", content |-> r]
      BY <2>1, <3>1
    <3>5. ChatMessages(m) = w
      BY <3>2, <3>4, ChatAnswers
    <3> QED
      BY <1>1, <3>1, <3>3, <3>5
  <2> QED
    BY <2>1, <2>2, <2>3
<1>3. CASE m \in [role : {"assistant"}, content : ResponseContent("openrouter")]
  <2>1. m = [role |-> "assistant", content |-> m.content] /\ m.content \in TextsThenCalls
    BY <1>3 DEF ResponseContent
  <2>2. PICK t \in Seq(TextBlock), c \in Seq(CallBlock) : m.content = t \o c
    BY <2>1 DEF TextsThenCalls
  <2>3. PICK w : w = IF t = <<>> /\ c = <<>> THEN <<>> ELSE <<ChatMessage("assistant", TextOf(t), c, NoCall)>>
    OBVIOUS
  <2>4. w \in Seq(WireMessage) /\ FlatMap(ChatOf, w) = FlatMap(BlockAtoms, t \o c)
    BY <2>3, ChatTold
  <2>5. m = [role |-> "assistant", content |-> t \o c]
    BY <2>1, <2>2
  <2>6. ChatMessages(m) = w
    BY <2>3, <2>5, ChatTells
  <2> QED
    BY <1>1, <2>2, <2>4, <2>6
<1> QED
  BY <1>2, <1>3 DEF Fitting

LEMMA ChatWireIs ==
    ASSUME NEW ms \in Seq(Fitting("openrouter")),
           NEW g, g = [m \in Fitting("openrouter") |-> ChatMessages(m)]
    PROVE  /\ ChatWire(ms) = FlatMap(g, ms)
           /\ g \in Conversion(Fitting("openrouter"), WireMessage)
<1>1. PICK C : C = Fitting("openrouter")
  OBVIOUS
<1>2. ms \in Seq(C) /\ g = [m \in C |-> ChatMessages(m)]
  BY <1>1
<1>3. \A k \in DOMAIN ms : ms[k] \in C
  BY <1>2
<1>4. [k \in DOMAIN ms |-> ChatMessages(ms[k])] = [k \in DOMAIN ms |-> g[ms[k]]]
  BY <1>2, <1>3
<1>5. \A m \in C : ChatMessages(m) \in Seq(WireMessage)
  BY <1>1, ChatMessageSays
<1>6. g \in Conversion(C, WireMessage)
  BY <1>2, <1>5 DEF Conversion
<1> QED
  BY <1>1, <1>4, <1>6 DEF ChatWire, FlatMap

LEMMA ChatRepeats ==
    ASSUME NEW ms \in Seq(Fitting("openrouter"))
    PROVE  ChatAtoms(ChatWire(ms)) = Spoken(ms)
<1>1. PICK C : C = Fitting("openrouter")
  OBVIOUS
<1>2. PICK g : g = [m \in C |-> ChatMessages(m)]
  OBVIOUS
<1>3. ChatWire(ms) = FlatMap(g, ms) /\ g \in Conversion(C, WireMessage)
  BY <1>1, <1>2, ChatWireIs
<1>4. ms \in Seq(C)
  BY <1>1
<1>5. PICK w : w = FlatMap(g, ms)
  OBVIOUS
<1>6. w \in Seq(WireMessage)
  BY <1>3, <1>4, <1>5, FlatMapIs
<1>7. ChatAtoms(w) = FlatMap(ChatOf, w)
  BY <1>6, ChatAtomsAre
<1>8. \A m \in C : g[m] = ChatMessages(m) /\ g[m] \in Seq(WireMessage)
  BY <1>1, <1>2, ChatMessageSays
<1>9. \A m \in C : MessageAtoms[m] = FlatMap(ChatOf, g[m])
  BY <1>1, <1>8, ChatMessageSays
<1>10. FlatMap(ChatOf, FlatMap(g, ms)) = FlatMap(MessageAtoms, ms)
  <2>1. Through(C, WireMessage, Atom, g, ChatOf, MessageAtoms)
    BY <1>8, <1>9, ChatSays DEF Through
  <2> QED
    BY <1>4, <2>1, FlatMapThrough
<1> QED
  BY <1>3, <1>5, <1>7, <1>10 DEF Spoken

-----------------------------------------------------------------------------
\* A function defined by recursion over the positions of a sequence.
Steps(X, n) == [X \X (1 .. n) -> X]

Recurs(X, n, x0, P) ==
    \E f \in [0 .. n -> X] : f[0] = x0 /\ \A i \in 1 .. n : f[i] = P[<<f[i - 1], i>>]

LEMMA Recursion ==
    ASSUME NEW X, NEW n \in Nat, NEW x0 \in X, NEW P \in Steps(X, n)
    PROVE  Recurs(X, n, x0, P)
<1> DEFINE Built(m) == \E f \in [0 .. m -> X] : f[0] = x0 /\ \A i \in 1 .. m : f[i] = P[<<f[i - 1], i>>]
           T == {m \in 0 .. n : ~Built(m)}
<1>1. T = {}
  <2> SUFFICES ASSUME T # {} PROVE FALSE
    OBVIOUS
  <2>1. PICK m \in T : \A k \in T : m <= k
    <3>1. T \subseteq Nat
      OBVIOUS
    <3> HIDE DEF T
    <3> QED
      BY <3>1, NatLeast
  <2>2. m \in 0 .. n /\ ~Built(m)
    OBVIOUS
  <2>3. Built(0)
    <3>1. PICK f : f = [i \in 0 .. 0 |-> x0]
      OBVIOUS
    <3>2. f \in [0 .. 0 -> X] /\ f[0] = x0 /\ 1 .. 0 = {}
      BY <3>1
    <3> QED
      BY <3>2
  <2>4. m # 0
    BY <2>2, <2>3
  <2>5. PICK l \in 0 .. n : l + 1 = m
    <3>1. m - 1 \in 0 .. n /\ (m - 1) + 1 = m
      BY <2>2, <2>4
    <3> QED
      BY <3>1
  <2>6. l \notin T
    <3>1. ~(m <= l)
      BY <2>5
    <3> HIDE DEF T
    <3> QED
      BY <2>1, <3>1
  <2>7. PICK f \in [0 .. l -> X] : f[0] = x0 /\ \A i \in 1 .. l : f[i] = P[<<f[i - 1], i>>]
    BY <2>6
  <2>8. PICK last : last = P[<<f[l], m>>]
    OBVIOUS
  <2>9. last \in X
    <3>1. <<f[l], m>> \in X \X (1 .. n)
      BY <2>2, <2>4
    <3> QED
      BY <2>8, <3>1 DEF Steps
  <2>10. PICK g : g = [i \in 0 .. m |-> IF i = m THEN last ELSE f[i]]
    OBVIOUS
  <2>11. g \in [0 .. m -> X]
    <3> SUFFICES ASSUME NEW i \in 0 .. m PROVE (IF i = m THEN last ELSE f[i]) \in X
      BY <2>10
    <3>1. CASE i = m
      BY <2>9, <3>1
    <3>2. CASE i # m
      <4>1. i \in 0 .. l
        BY <2>5, <3>2
      <4> QED
        BY <3>2, <4>1
    <3> QED
      BY <3>1, <3>2
  <2>12. g[0] = x0
    BY <2>4, <2>5, <2>7, <2>10
  <2>13. ASSUME NEW i \in 1 .. m PROVE g[i] = P[<<g[i - 1], i>>]
    <3>1. i - 1 \in 0 .. m /\ i - 1 # m /\ i \in 0 .. m
      BY <2>2
    <3>2. g[i - 1] = f[i - 1]
      BY <2>10, <3>1
    <3>3. CASE i = m
      <4>1. i - 1 = l /\ g[i] = last
        BY <2>5, <2>10, <3>1, <3>3
      <4> QED
        BY <2>8, <3>2, <3>3, <4>1
    <3>4. CASE i # m
      <4>1. i \in 1 .. l /\ g[i] = f[i]
        BY <2>5, <2>10, <3>1, <3>4
      <4> QED
        BY <2>7, <3>2, <4>1
    <3> QED
      BY <3>3, <3>4
  <2>14. Built(m)
    BY <2>11, <2>12, <2>13
  <2> QED
    BY <2>2, <2>14
<1>2. n \notin T /\ n \in 0 .. n
  <2> HIDE DEF T
  <2> QED
    BY <1>1
<1>3. Built(n)
  <2> HIDE DEF Built
  <2> QED
    BY <1>2
<1> QED
  BY <1>3 DEF Recurs

-----------------------------------------------------------------------------
(* The Codex backend: text is gathered until something else comes.         *)

Parts == Seq(Seq(Fragment))

TextItem == [type : {"message"}, role : {"assistant", "user"}, content : Parts]
FunctionItem == [type : {"function_call"}, call_id : STRING, name : Names, arguments : Seq(Fragment)]
OutputOfCall == [type : {"function_call_output"}, call_id : STRING, error : BOOLEAN]

InputItem == TextItem \union FunctionItem \union OutputOfCall \union ReasoningItem

\* Q takes something from each item, h from each block: as much from the items
\* made of a block as from the block.
Carries(T, Q, tq, h) ==
    /\ \A i \in InputItem : Q[i] \in Seq(T)
    /\ tq \in Conversion(Seq(Fragment), T) /\ tq[<<>>] = <<>>
    /\ \A role \in {"assistant", "user"} : \A parts \in Parts :
          Q[MessageItem(role, parts)] = FlatMap(tq, parts)
    /\ \A b \in TextBlock : h[b] = tq[b.text]
    /\ \A b \in CallBlock : h[b] = Q[CallItem(b)]
    /\ \A b \in ResultBlock : h[b] = Q[ResultItem(b)]
    /\ \A b \in OpaqueBlock : h[b] = IF b.data.encrypted THEN Q[b.data] ELSE <<>>

LEMMA ItemsAre ==
    /\ \A role \in {"assistant", "user"} : \A parts \in Parts : MessageItem(role, parts) \in InputItem
    /\ \A b \in CallBlock : CallItem(b) \in InputItem
    /\ \A b \in ResultBlock : ResultItem(b) \in InputItem
    /\ \A b \in OpaqueBlock : b.data \in InputItem
<1>1. \A role \in {"assistant", "user"} : \A parts \in Parts : MessageItem(role, parts) \in TextItem
  <2> HIDE DEF Parts
  <2> QED
    BY DEF MessageItem, TextItem
<1>2. \A b \in CallBlock : CallItem(b) \in FunctionItem
  BY DEF CallItem, FunctionItem, CallBlock
<1>3. \A b \in ResultBlock : ResultItem(b) \in OutputOfCall
  BY DEF ResultItem, OutputOfCall, ResultBlock
<1>4. \A b \in OpaqueBlock : b.data \in ReasoningItem
  BY DEF OpaqueBlock
<1> QED
  BY <1>1, <1>2, <1>3, <1>4 DEF InputItem

\* What has been put out, and what waits to be.
Gathered == [out : Seq(InputItem), parts : Parts]

LEMMA FlushHolds ==
    ASSUME NEW T, NEW Q, NEW tq, NEW h, Carries(T, Q, tq, h), NEW role \in {"assistant", "user"},
           NEW out \in Seq(InputItem), NEW parts \in Parts,
           NEW s, s = [out |-> out, parts |-> parts]
    PROVE  /\ Flush(role, s) \in Seq(InputItem)
           /\ FlatMap(Q, Flush(role, s)) = FlatMap(Q, out) \o FlatMap(tq, parts)
<1>1. s.out = out /\ s.parts = parts
  OBVIOUS
<1>2. \A i \in InputItem : Q[i] \in Seq(T)
  BY DEF Carries
<1>3. PICK f : f = [i \in InputItem |-> Q[i]]
  OBVIOUS
<1>4. f \in Conversion(InputItem, T)
  BY <1>2, <1>3 DEF Conversion
<1>5. \A i \in InputItem : Q[i] = f[i]
  BY <1>3
<1>6. \A t \in Seq(InputItem) : FlatMap(Q, t) = FlatMap(f, t)
  BY <1>5, FlatMapAlike
<1>7. FlatMap(f, out) \in Seq(T)
  BY <1>4, FlatMapIs
<1>8. CASE parts = <<>>
  <2>1. Flush(role, s) = out
    BY <1>1, <1>8 DEF Flush
  <2>2. FlatMap(tq, parts) = <<>>
    BY <1>8, FlatMapNone
  <2>3. FlatMap(Q, out) \in Seq(T)
    BY <1>6, <1>7
  <2>4. FlatMap(Q, out) \o <<>> = FlatMap(Q, out)
    BY <2>3
  <2> QED
    BY <2>1, <2>2, <2>4
<1>9. CASE parts # <<>>
  <2>1. PICK item : item = MessageItem(role, parts)
    OBVIOUS
  <2>2. Flush(role, s) = Append(out, item)
    BY <1>1, <1>9, <2>1 DEF Flush
  <2>3. item \in InputItem
    BY <2>1, ItemsAre
  <2>4. Append(out, item) \in Seq(InputItem)
    BY <2>3
  <2>5. FlatMap(f, Append(out, item)) = FlatMap(f, out) \o f[item]
    BY <1>4, <2>3, FlatMapMore
  <2>6. f[item] = FlatMap(tq, parts)
    <3>1. f[item] = Q[item]
      BY <1>5, <2>3
    <3>2. Q[MessageItem(role, parts)] = FlatMap(tq, parts)
      BY DEF Carries
    <3> QED
      BY <2>1, <3>1, <3>2
  <2>7. FlatMap(Q, Append(out, item)) = FlatMap(f, Append(out, item)) /\ FlatMap(Q, out) = FlatMap(f, out)
    BY <1>6, <2>4
  <2> QED
    BY <2>2, <2>4, <2>5, <2>6, <2>7
<1> QED
  BY <1>8, <1>9

Worth(Q, tq, s) == FlatMap(Q, s.out) \o FlatMap(tq, s.parts)

Taken(s, item) == [out |-> Append(Flush("assistant", s), item), parts |-> <<>>]

LEMMA GatheredMore ==
    ASSUME NEW T, NEW Q, NEW tq, NEW h, Carries(T, Q, tq, h),
           NEW s \in Gathered, NEW item \in InputItem,
           NEW t, t = Taken(s, item)
    PROVE  t \in Gathered /\ Worth(Q, tq, t) = Worth(Q, tq, s) \o Q[item]
<1>1. PICK out \in Seq(InputItem), parts \in Parts : s = [out |-> out, parts |-> parts]
  BY DEF Gathered
<1>2. PICK o : o = Flush("assistant", s)
  OBVIOUS
<1>3. o \in Seq(InputItem) /\ FlatMap(Q, o) = FlatMap(Q, out) \o FlatMap(tq, parts)
  BY <1>1, <1>2, FlushHolds
<1>4. Worth(Q, tq, s) = FlatMap(Q, o)
  BY <1>1, <1>3 DEF Worth
<1>5. \A i \in InputItem : Q[i] \in Seq(T)
  BY DEF Carries
<1>6. PICK f : f = [i \in InputItem |-> Q[i]]
  OBVIOUS
<1>7. f \in Conversion(InputItem, T)
  BY <1>5, <1>6 DEF Conversion
<1>8. \A i \in InputItem : Q[i] = f[i]
  BY <1>6
<1>9. \A u \in Seq(InputItem) : FlatMap(Q, u) = FlatMap(f, u)
  BY <1>8, FlatMapAlike
<1>10. FlatMap(f, Append(o, item)) = FlatMap(f, o) \o f[item]
  BY <1>3, <1>7, FlatMapMore
<1>11. Append(o, item) \in Seq(InputItem)
  BY <1>3
<1>12. FlatMap(Q, Append(o, item)) = FlatMap(Q, o) \o Q[item]
  BY <1>3, <1>8, <1>9, <1>10, <1>11
<1>13. t.out = Append(o, item) /\ t.parts = <<>>
  BY <1>2 DEF Taken
<1>14. t \in Gathered
  <2>1. <<>> \in Parts
    BY DEF Parts
  <2> QED
    BY <1>2, <1>11, <2>1 DEF Gathered, Taken
<1>15. FlatMap(tq, <<>>) = <<>>
  BY FlatMapNone
<1>16. FlatMap(Q, Append(o, item)) \in Seq(T)
  <2>1. FlatMap(f, Append(o, item)) \in Seq(T)
    BY <1>7, <1>11, FlatMapIs
  <2> QED
    BY <1>9, <1>11, <2>1
<1>17. PICK w \in Seq(T) : w = FlatMap(Q, Append(o, item))
  BY <1>16
<1>18. Worth(Q, tq, t) = w \o <<>>
  BY <1>13, <1>15, <1>17 DEF Worth
<1>19. w \o <<>> = w
  OBVIOUS
<1> QED
  BY <1>4, <1>12, <1>14, <1>17, <1>18, <1>19

LEMMA GatherHolds ==
    ASSUME NEW T, NEW Q, NEW tq, NEW h, Carries(T, Q, tq, h),
           NEW s \in Gathered, NEW b \in ContentBlock
    PROVE  Gather(s, b) \in Gathered /\ Worth(Q, tq, Gather(s, b)) = Worth(Q, tq, s) \o h[b]
<1>1. PICK out \in Seq(InputItem), parts \in Parts : s = [out |-> out, parts |-> parts]
  BY DEF Gathered
<1>2. tq \in Conversion(Seq(Fragment), T) /\ tq[<<>>] = <<>>
  BY DEF Carries
<1>3. FlatMap(Q, out) \in Seq(T) /\ FlatMap(tq, parts) \in Seq(T)
  <2>1. \A i \in InputItem : Q[i] \in Seq(T)
    BY DEF Carries
  <2>2. PICK f : f = [i \in InputItem |-> Q[i]]
    OBVIOUS
  <2>3. f \in Conversion(InputItem, T)
    BY <2>1, <2>2 DEF Conversion
  <2>4. \A i \in InputItem : Q[i] = f[i]
    BY <2>2
  <2>5. FlatMap(Q, out) = FlatMap(f, out)
    BY <2>4, FlatMapAlike
  <2>6. FlatMap(f, out) \in Seq(T)
    BY <2>3, FlatMapIs
  <2>7. FlatMap(tq, parts) \in Seq(T)
    <3>1. parts \in Seq(Seq(Fragment))
      BY DEF Parts
    <3> QED
      BY <1>2, <3>1, FlatMapIs
  <2> QED
    BY <2>5, <2>6, <2>7
<1>4. PICK a \in Seq(T), c \in Seq(T) : a = FlatMap(Q, out) /\ c = FlatMap(tq, parts)
  BY <1>3
<1>5. Worth(Q, tq, s) = a \o c
  BY <1>1, <1>4 DEF Worth
<1>6. (a \o c) \o <<>> = a \o c
  OBVIOUS
<1>7. CASE b \in TextBlock
  <2>1. IsText(b) /\ ~IsCall(b) /\ b.type # "opaque" /\ b.text \in Seq(Fragment) /\ h[b] = tq[b.text]
    BY <1>7, KindsDiffer DEF TextBlock, Carries
  <2>2. ~Replayable(b)
    BY <2>1 DEF Replayable
  <2>3. CASE b.text = <<>>
    <3>1. Gather(s, b) = s
      BY <2>1, <2>2, <2>3 DEF Gather, Taken
    <3>2. h[b] = <<>>
      BY <1>2, <2>1, <2>3
    <3> QED
      BY <1>5, <1>6, <3>1, <3>2
  <2>4. CASE b.text # <<>>
    <3>1. PICK t \in Seq(Fragment) : t = b.text
      BY <2>1
    <3>2. PICK more : more = Append(parts, t)
      OBVIOUS
    <3>3. Gather(s, b) = [out |-> out, parts |-> more]
      BY <1>1, <2>1, <2>2, <2>4, <3>1, <3>2 DEF Gather, Taken
    <3>4. parts \in Seq(Seq(Fragment)) /\ more \in Parts
      BY <3>2 DEF Parts
    <3>5. FlatMap(tq, more) = c \o tq[t]
      BY <1>2, <1>4, <3>2, <3>4, FlatMapMore
    <3>6. PICK d \in Seq(T) : d = tq[t]
      BY <1>2 DEF Conversion
    <3>7. a \o (c \o d) = (a \o c) \o d
      OBVIOUS
    <3>8. Worth(Q, tq, Gather(s, b)) = a \o (c \o d)
      <4>1. PICK p : p = Gather(s, b)
        OBVIOUS
      <4>2. p.out = out /\ p.parts = more
        BY <3>3, <4>1
      <4>3. Worth(Q, tq, p) = a \o (c \o d)
        BY <1>4, <3>5, <3>6, <4>2, Zenon DEF Worth
      <4> QED
        BY <4>1, <4>3
    <3>9. h[b] = d
      BY <2>1, <3>1, <3>6
    <3>10. Gather(s, b) \in Gathered
      BY <3>3, <3>4 DEF Gathered
    <3> QED
      BY <1>5, <3>7, <3>8, <3>9, <3>10
  <2> QED
    BY <2>3, <2>4
<1>8. CASE b \in CallBlock
  <2>1. ~IsText(b) /\ IsCall(b) /\ b.type # "opaque" /\ h[b] = Q[CallItem(b)]
    BY <1>8, KindsDiffer DEF Carries
  <2>2. ~Replayable(b)
    BY <2>1 DEF Replayable
  <2>3. PICK item \in InputItem : item = CallItem(b)
    BY <1>8, ItemsAre
  <2>4. Gather(s, b) = Taken(s, item)
    BY <2>1, <2>2, <2>3 DEF Gather, Taken
  <2>5. Gather(s, b) \in Gathered /\ Worth(Q, tq, Gather(s, b)) = Worth(Q, tq, s) \o Q[item]
    <3>1. PICK p : p = Gather(s, b)
      OBVIOUS
    <3>2. p = Taken(s, item)
      BY <2>4, <3>1
    <3>3. p \in Gathered /\ Worth(Q, tq, p) = Worth(Q, tq, s) \o Q[item]
      BY <3>2, GatheredMore
    <3> QED
      BY <3>1, <3>3
  <2> QED
    BY <2>1, <2>3, <2>5
<1>9. CASE b \in OpaqueBlock
  <2>1. /\ ~IsText(b) /\ ~IsCall(b) /\ b.type = "opaque" /\ b.provider = "codex"
        /\ h[b] = IF b.data.encrypted THEN Q[b.data] ELSE <<>>
    BY <1>9, KindsDiffer DEF Carries, OpaqueBlock
  <2>2. CASE b.data.encrypted
    <3>1. Replayable(b)
      BY <2>1, <2>2 DEF Replayable
    <3>2. PICK item \in InputItem : item = b.data
      BY <1>9, ItemsAre
    <3>3. Gather(s, b) = Taken(s, item)
      BY <2>1, <3>1, <3>2 DEF Gather, Taken
    <3>4. Gather(s, b) \in Gathered /\ Worth(Q, tq, Gather(s, b)) = Worth(Q, tq, s) \o Q[item]
      <4>1. PICK p : p = Gather(s, b)
        OBVIOUS
      <4>2. p = Taken(s, item)
        BY <3>3, <4>1
      <4>3. p \in Gathered /\ Worth(Q, tq, p) = Worth(Q, tq, s) \o Q[item]
        BY <4>2, GatheredMore
      <4> QED
        BY <4>1, <4>3
    <3> QED
      BY <2>1, <2>2, <3>2, <3>4
  <2>3. CASE ~b.data.encrypted
    <3>1. ~Replayable(b)
      BY <2>3 DEF Replayable
    <3>2. Gather(s, b) = s
      BY <2>1, <3>1 DEF Gather
    <3>3. h[b] = <<>>
      BY <2>1, <2>3
    <3> QED
      BY <1>5, <1>6, <3>2, <3>3
  <2> QED
    BY <2>2, <2>3
<1> QED
  BY <1>7, <1>8, <1>9 DEF ContentBlock

-----------------------------------------------------------------------------
LEMMA AssistantCarries ==
    ASSUME NEW T, NEW Q, NEW tq, NEW h, Carries(T, Q, tq, h), NEW content \in Seq(ContentBlock)
    PROVE  /\ AssistantItems(content) \in Seq(InputItem)
           /\ FlatMap(Q, AssistantItems(content)) = FlatMap(h, content)
<1>1. PICK n \in Nat : n = Len(content) /\ DOMAIN content = 1 .. n
  OBVIOUS
<1>2. \A k \in 1 .. n : content[k] \in ContentBlock
  BY <1>1
<1>3. PICK s0 : s0 = [out |-> <<>>, parts |-> <<>>]
  OBVIOUS
<1>4. s0 \in Gathered /\ Worth(Q, tq, s0) = <<>>
  <2>1. <<>> \in Parts /\ <<>> \in Seq(InputItem)
    BY DEF Parts
  <2>2. s0 \in Gathered
    BY <1>3, <2>1 DEF Gathered
  <2>3. FlatMap(Q, <<>>) = <<>> /\ FlatMap(tq, <<>>) = <<>>
    BY FlatMapNone
  <2>4. s0.out = <<>> /\ s0.parts = <<>>
    BY <1>3
  <2>5. Worth(Q, tq, s0) = <<>> \o <<>>
    BY <2>3, <2>4, Zenon DEF Worth
  <2>6. <<>> \o <<>> = <<>>
    OBVIOUS
  <2> QED
    BY <2>2, <2>5, <2>6
<1>5. \A s \in Gathered : \A b \in ContentBlock :
         Gather(s, b) \in Gathered /\ Worth(Q, tq, Gather(s, b)) = Worth(Q, tq, s) \o h[b]
  BY GatherHolds
<1>6. PICK P : P = [p \in Gathered \X (1 .. n) |-> Gather(p[1], content[p[2]])]
  OBVIOUS
<1>7. P \in [Gathered \X (1 .. n) -> Gathered]
  <2>1. ASSUME NEW p \in Gathered \X (1 .. n) PROVE Gather(p[1], content[p[2]]) \in Gathered
    <3>1. p[1] \in Gathered /\ content[p[2]] \in ContentBlock
      BY <1>2
    <3> QED
      BY <1>5, <3>1
  <2> QED
    BY <1>6, <2>1
<1>8. PICK f \in [0 .. n -> Gathered] : f[0] = s0 /\ \A i \in 1 .. n : f[i] = P[<<f[i - 1], i>>]
  <2>1. P \in Steps(Gathered, n)
    BY <1>7 DEF Steps
  <2>2. Recurs(Gathered, n, s0, P)
    BY <1>4, <2>1, Recursion
  <2> QED
    BY <2>2 DEF Recurs
<1>9. \A i \in 1 .. n : f[i] = Gather(f[i - 1], content[i])
  <2> SUFFICES ASSUME NEW i \in 1 .. n PROVE f[i] = Gather(f[i - 1], content[i])
    OBVIOUS
  <2>1. f[i - 1] \in Gathered
    BY <1>8
  <2>2. <<f[i - 1], i>> \in Gathered \X (1 .. n)
    BY <2>1
  <2>3. PICK p \in Gathered \X (1 .. n) : p = <<f[i - 1], i>>
    BY <2>2
  <2>4. P[p] = Gather(p[1], content[p[2]])
    BY <1>6
  <2>5. p[1] = f[i - 1] /\ p[2] = i
    BY <2>3
  <2> QED
    BY <1>8, <2>3, <2>4, <2>5
<1> DEFINE Body(g) == [k \in 0 .. Len(content) |-> IF k = 0 THEN s0 ELSE Gather(g[k - 1], content[k])]
           upTo == CHOOSE g : g = Body(g)
<1>10. f = Body(f)
  <2>1. \A k \in 0 .. n : f[k] = IF k = 0 THEN s0 ELSE Gather(f[k - 1], content[k])
    <3> SUFFICES ASSUME NEW k \in 0 .. n PROVE f[k] = IF k = 0 THEN s0 ELSE Gather(f[k - 1], content[k])
      OBVIOUS
    <3>1. CASE k = 0
      BY <1>8, <3>1
    <3>2. CASE k # 0
      <4>1. k \in 1 .. n
        BY <3>2
      <4> QED
        BY <1>9, <3>2, <4>1
    <3> QED
      BY <3>1, <3>2
  <2>2. f = [k \in 0 .. n |-> f[k]]
    OBVIOUS
  <2> QED
    BY <1>1, <2>1, <2>2
<1>11. upTo = Body(upTo)
  <2> HIDE DEF Body
  <2> QED
    BY <1>10
<1>12. AssistantItems(content) = Flush("assistant", upTo[n])
  <2>1. AssistantItems(content) = Flush("assistant", upTo[Len(content)])
    BY <1>3 DEF AssistantItems
  <2> QED
    BY <1>1, <2>1
<1> HIDE DEF upTo
<1>13. upTo[0] = s0 /\ \A k \in 1 .. n : upTo[k] = Gather(upTo[k - 1], content[k])
  <2>1. \A k \in 0 .. n : upTo[k] = IF k = 0 THEN s0 ELSE Gather(upTo[k - 1], content[k])
    BY <1>1, <1>11
  <2>2. 0 \in 0 .. n /\ \A k \in 1 .. n : k \in 0 .. n /\ k # 0
    OBVIOUS
  <2> QED
    BY <2>1, <2>2
<1>14. PICK u : u = upTo
  OBVIOUS
<1> DEFINE Good(k) == u[k] \in Gathered /\ Worth(Q, tq, u[k]) = FlatMap(h, SubSeq(content, 1, k))
           U == {k \in 0 .. n : ~Good(k)}
<1>15. \A b \in ContentBlock : h[b] \in Seq(T)
  <2>1. /\ \A b \in TextBlock : h[b] = tq[b.text]
        /\ \A b \in CallBlock : h[b] = Q[CallItem(b)]
        /\ \A b \in OpaqueBlock : h[b] = IF b.data.encrypted THEN Q[b.data] ELSE <<>>
        /\ \A i \in InputItem : Q[i] \in Seq(T)
        /\ tq \in [Seq(Fragment) -> Seq(T)]
    BY DEF Carries, Conversion
  <2>2. \A b \in TextBlock : h[b] \in Seq(T)
    <3>1. \A b \in TextBlock : b.text \in Seq(Fragment)
      BY DEF TextBlock
    <3> QED
      BY <2>1, <3>1
  <2>3. \A b \in CallBlock : h[b] \in Seq(T)
    BY <2>1, ItemsAre
  <2>4. \A b \in OpaqueBlock : h[b] \in Seq(T)
    <3>1. <<>> \in Seq(T)
      OBVIOUS
    <3>2. \A b \in OpaqueBlock : b.data \in InputItem
      BY ItemsAre
    <3> QED
      BY <2>1, <3>1, <3>2, Zenon
  <2> QED
    BY <2>2, <2>3, <2>4 DEF ContentBlock
<1>16. PICK h1 : h1 = [b \in ContentBlock |-> h[b]]
  OBVIOUS
<1>17. h1 \in Conversion(ContentBlock, T)
  BY <1>15, <1>16 DEF Conversion
<1>18. \A b \in ContentBlock : h[b] = h1[b]
  BY <1>16
<1>19. \A s \in Seq(ContentBlock) : FlatMap(h, s) = FlatMap(h1, s)
  BY <1>18, FlatMapAlike
<1>20. Good(0)
  <2>1. SubSeq(content, 1, 0) = <<>>
    OBVIOUS
  <2>2. FlatMap(h, <<>>) = <<>>
    BY FlatMapNone
  <2> QED
    BY <1>4, <1>13, <1>14, <2>1, <2>2
<1>21. ASSUME NEW k \in 1 .. n, Good(k - 1) PROVE Good(k)
  <2>1. PICK l \in 0 .. n : l = k - 1
    BY <1>1
  <2>2. PICK s \in Gathered, b \in ContentBlock : s = u[l] /\ b = content[k]
    BY <1>2, <1>21, <2>1
  <2>3. u[k] = Gather(s, b)
    BY <1>13, <1>14, <2>1, <2>2
  <2>4. PICK t : t = SubSeq(content, 1, l)
    OBVIOUS
  <2>5. t \in Seq(ContentBlock) /\ SubSeq(content, 1, k) = Append(t, b)
    BY <1>1, <2>1, <2>2, <2>4
  <2>6. Worth(Q, tq, s) = FlatMap(h, t)
    BY <1>21, <2>1, <2>2, <2>4
  <2>7. FlatMap(h1, Append(t, b)) = FlatMap(h1, t) \o h1[b]
    BY <1>17, <2>5, FlatMapMore
  <2>8. Append(t, b) \in Seq(ContentBlock)
    BY <2>5
  <2>9. FlatMap(h, Append(t, b)) = FlatMap(h, t) \o h[b]
    BY <1>18, <1>19, <2>5, <2>7, <2>8
  <2>10. Gather(s, b) \in Gathered /\ Worth(Q, tq, Gather(s, b)) = Worth(Q, tq, s) \o h[b]
    BY <1>5
  <2> QED
    BY <2>3, <2>5, <2>6, <2>9, <2>10
<1> HIDE DEF Good
<1>22. U = {}
  <2> SUFFICES ASSUME U # {} PROVE FALSE
    OBVIOUS
  <2>1. PICK k \in U : \A j \in U : k <= j
    <3>1. U \subseteq Nat
      OBVIOUS
    <3> HIDE DEF U
    <3> QED
      BY <3>1, NatLeast
  <2>2. k \in 0 .. n /\ ~Good(k)
    OBVIOUS
  <2>3. k # 0
    BY <1>20, <2>2
  <2>4. k \in 1 .. n /\ k - 1 \in 0 .. n /\ ~(k <= k - 1)
    BY <2>2, <2>3
  <2>5. k - 1 \notin U
    <3> HIDE DEF U
    <3> QED
      BY <2>1, <2>4
  <2>6. Good(k - 1)
    BY <2>4, <2>5
  <2> QED
    BY <1>21, <2>2, <2>4, <2>6
<1>23. n \in 0 .. n /\ n \notin U
  <2> HIDE DEF U
  <2> QED
    BY <1>22
<1>24. Good(n)
  BY <1>23
<1>25. PICK last : last = u[n]
  OBVIOUS
<1>26. last \in Gathered /\ Worth(Q, tq, last) = FlatMap(h, content)
  <2>1. SubSeq(content, 1, n) = content
    BY <1>1
  <2> QED
    BY <1>24, <1>25, <2>1 DEF Good
<1>27. PICK out \in Seq(InputItem), parts \in Parts : last = [out |-> out, parts |-> parts]
  BY <1>26 DEF Gathered
<1>28. /\ Flush("assistant", last) \in Seq(InputItem)
       /\ FlatMap(Q, Flush("assistant", last)) = FlatMap(Q, out) \o FlatMap(tq, parts)
  BY <1>27, FlushHolds
<1>29. Worth(Q, tq, last) = FlatMap(Q, out) \o FlatMap(tq, parts)
  BY <1>27 DEF Worth
<1> QED
  BY <1>12, <1>14, <1>25, <1>26, <1>28, <1>29

-----------------------------------------------------------------------------
\* What Carries says of the functions it is about.
LEMMA CarriedAre ==
    ASSUME NEW T, NEW Q, NEW tq, NEW h, Carries(T, Q, tq, h)
    PROVE  /\ \A i \in InputItem : Q[i] \in Seq(T)
           /\ \A t \in Seq(Fragment) : tq[t] \in Seq(T)
           /\ \A b \in TextBlock : h[b] = tq[b.text] /\ h[b] \in Seq(T)
           /\ \A b \in ResultBlock : h[b] = Q[ResultItem(b)] /\ h[b] \in Seq(T)
<1>1. /\ \A b \in TextBlock : h[b] = tq[b.text]
      /\ \A b \in ResultBlock : h[b] = Q[ResultItem(b)]
      /\ \A i \in InputItem : Q[i] \in Seq(T)
  BY DEF Carries
<1>2. \A t \in Seq(Fragment) : tq[t] \in Seq(T)
  BY DEF Carries, Conversion
<1>3. \A b \in TextBlock : h[b] \in Seq(T)
  <2>1. \A b \in TextBlock : b.text \in Seq(Fragment)
    BY DEF TextBlock
  <2> QED
    BY <1>1, <1>2, <2>1
<1>4. \A b \in ResultBlock : h[b] \in Seq(T)
  BY <1>1, ItemsAre
<1> QED
  BY <1>1, <1>2, <1>3, <1>4

LEMMA PromptCarries ==
    ASSUME NEW T, NEW Q, NEW tq, NEW h, Carries(T, Q, tq, h), NEW t \in Seq(TextBlock)
    PROVE  UserItems(t) \in Seq(InputItem) /\ FlatMap(Q, UserItems(t)) = FlatMap(h, t)
<1>1. PICK full : full = [b \in TextBlock |-> IF IsText(b) /\ b.text # <<>> THEN <<b>> ELSE <<>>]
  OBVIOUS
<1>2. PICK texts : texts = FlatMap(full, t)
  OBVIOUS
<1>3. PICK parts : parts = [k \in DOMAIN texts |-> texts[k].text]
  OBVIOUS
<1>4. \A b \in TextBlock : full[b] \in Seq(TextBlock)
  <2>1. \A b \in TextBlock : <<b>> \in Seq(TextBlock) /\ <<>> \in Seq(TextBlock)
    OBVIOUS
  <2> QED
    BY <1>1, <2>1
<1>5. texts \in Seq(TextBlock)
  <2>1. full \in Conversion(TextBlock, TextBlock)
    BY <1>1, <1>4 DEF Conversion
  <2> QED
    BY <1>2, <2>1, FlatMapIs
<1>6. PICK F : F = [b \in TextBlock |-> b.text]
  OBVIOUS
<1>7. PICK part : part = [b \in TextBlock |-> <<b.text>>]
  OBVIOUS
<1>8. \A b \in TextBlock : b.text \in Seq(Fragment) /\ F[b] = b.text /\ part[b] = <<b.text>>
  <2>1. \A b \in TextBlock : b.text \in Seq(Fragment)
    BY DEF TextBlock
  <2> QED
    BY <1>6, <1>7, <2>1
<1>9. parts = FlatMap(part, texts)
  <2>1. Each(TextBlock, F, part)
    BY <1>8 DEF Each
  <2>2. FlatMap(part, texts) = [k \in DOMAIN texts |-> F[texts[k]]]
    BY <1>5, <2>1, FlatMapEach
  <2>3. \A k \in DOMAIN texts : texts[k] \in TextBlock
    BY <1>5
  <2>4. \A k \in DOMAIN texts : F[texts[k]] = texts[k].text
    BY <1>8, <2>3
  <2> QED
    BY <1>3, <2>2, <2>4
<1>10. parts \in Parts
  <2>1. part \in Conversion(TextBlock, Seq(Fragment))
    <3>1. \A b \in TextBlock : <<b.text>> \in Seq(Seq(Fragment))
      BY <1>8
    <3> QED
      BY <1>7, <3>1 DEF Conversion
  <2> QED
    BY <1>5, <1>9, <2>1, FlatMapIs DEF Parts
<1>11. PICK told : told = [b \in TextBlock |-> tq[b.text]]
  OBVIOUS
<1>12. \A b \in TextBlock : told[b] = h[b] /\ told[b] = tq[b.text] /\ told[b] \in Seq(T)
  BY <1>11, CarriedAre
<1>13. FlatMap(tq, FlatMap(part, texts)) = FlatMap(told, texts)
  <2>1. ASSUME NEW b \in TextBlock PROVE part[b] \in Seq(Seq(Fragment))
    <3>1. PICK X : X = Seq(Fragment)
      OBVIOUS
    <3>2. PICK x \in X : x = b.text
      BY <1>8, <3>1
    <3>3. <<x>> \in Seq(X)
      OBVIOUS
    <3>4. part[b] = <<x>>
      BY <1>8, <3>2
    <3> QED
      BY <3>1, <3>3, <3>4
  <2>2. ASSUME NEW b \in TextBlock PROVE told[b] = FlatMap(tq, part[b])
    <3>1. PICK x : x = b.text
      OBVIOUS
    <3>2. tq[x] \in Seq(T) /\ part[b] = <<x>> /\ told[b] = tq[x]
      BY <1>8, <1>12, <3>1
    <3>3. FlatMap(tq, <<x>>) = tq[x]
      BY <3>2, FlatMapSingle
    <3> QED
      BY <3>2, <3>3
  <2>3. \A x \in Seq(Fragment) : tq[x] \in Seq(T)
    BY CarriedAre
  <2>4. Through(TextBlock, Seq(Fragment), T, part, tq, told)
    BY <2>1, <2>2, <2>3 DEF Through
  <2> QED
    BY <1>5, <2>4, FlatMapThrough
<1>14. FlatMap(told, FlatMap(full, t)) = FlatMap(h, t)
  <2>1. ASSUME NEW b \in TextBlock PROVE h[b] = FlatMap(told, full[b])
    <3>1. CASE b.text = <<>>
      <4>1. full[b] = <<>>
        BY <1>1, <3>1
      <4>2. h[b] = <<>>
        BY <1>12, <3>1 DEF Carries
      <4> QED
        BY <4>1, <4>2, FlatMapNone
    <3>2. CASE b.text # <<>>
      <4>1. full[b] = <<b>>
        BY <1>1, <3>2, KindsDiffer
      <4>2. told[b] \in Seq(T)
        BY <1>12
      <4>3. FlatMap(told, <<b>>) = told[b]
        BY <4>2, FlatMapSingle
      <4> QED
        BY <1>12, <4>1, <4>3
    <3> QED
      BY <3>1, <3>2
  <2>2. Through(TextBlock, TextBlock, T, full, told, h)
    BY <1>4, <1>12, <2>1 DEF Through
  <2> QED
    BY <2>2, FlatMapThrough
<1>15. FlatMap(tq, parts) = FlatMap(h, t)
  BY <1>2, <1>9, <1>13, <1>14
<1>16. Select(t, IsResult) = <<>>
  BY TextsOnly
<1>17. Select(t, LAMBDA b : IsText(b) /\ b.text # <<>>) = texts
  <2>1. \A k \in DOMAIN t : t[k] \in TextBlock
    OBVIOUS
  <2>2. [k \in DOMAIN t |-> IF IsText(t[k]) /\ t[k].text # <<>> THEN <<t[k]>> ELSE <<>>]
        = [k \in DOMAIN t |-> full[t[k]]]
    BY <1>1, <2>1
  <2> QED
    BY <1>2, <2>2 DEF Select, FlatMap
<1>18. PICK s : s = [out |-> <<>>, parts |-> parts]
  OBVIOUS
<1>19. UserItems(t) = Flush("user", s)
  <2>1. PICK o : o = [k \in DOMAIN <<>> |-> ResultItem(<<>>[k])]
    OBVIOUS
  <2>2. o = <<>>
    BY <2>1
  <2>3. UserItems(t) = Flush("user", [out |-> o, parts |-> parts])
    BY <1>3, <1>16, <1>17, <2>1, Zenon DEF UserItems
  <2> QED
    BY <1>18, <2>2, <2>3
<1>20. <<>> \in Seq(InputItem)
  OBVIOUS
<1>21. /\ Flush("user", s) \in Seq(InputItem)
       /\ FlatMap(Q, Flush("user", s)) = FlatMap(Q, <<>>) \o FlatMap(tq, parts)
  <2>1. PICK role \in {"assistant", "user"} : role = "user"
    OBVIOUS
  <2>2. PICK none \in Seq(InputItem) : none = <<>>
    BY <1>20
  <2>3. s = [out |-> none, parts |-> parts]
    BY <1>18, <2>2
  <2>4. /\ Flush(role, s) \in Seq(InputItem)
        /\ FlatMap(Q, Flush(role, s)) = FlatMap(Q, none) \o FlatMap(tq, parts)
    BY <1>10, <2>3, FlushHolds
  <2> QED
    BY <2>1, <2>2, <2>4
<1>22. <<>> \o FlatMap(tq, parts) = FlatMap(tq, parts)
  <2>1. FlatMap(tq, parts) \in Seq(T)
    <3>1. tq \in Conversion(Seq(Fragment), T) /\ parts \in Seq(Seq(Fragment))
      BY <1>10 DEF Carries, Parts
    <3> QED
      BY <3>1, FlatMapIs
  <2> QED
    BY <2>1
<1>23. FlatMap(Q, <<>>) = <<>>
  BY FlatMapNone
<1> QED
  BY <1>15, <1>19, <1>21, <1>22, <1>23

LEMMA AnswersCarry ==
    ASSUME NEW T, NEW Q, NEW tq, NEW h, Carries(T, Q, tq, h), NEW r \in Seq(ResultBlock)
    PROVE  UserItems(r) \in Seq(InputItem) /\ FlatMap(Q, UserItems(r)) = FlatMap(h, r)
<1>1. PICK F : F = [b \in ResultBlock |-> ResultItem(b)]
  OBVIOUS
<1>2. PICK f : f = [b \in ResultBlock |-> <<ResultItem(b)>>]
  OBVIOUS
<1>3. PICK w : w = [k \in DOMAIN r |-> ResultItem(r[k])]
  OBVIOUS
<1>4. \A b \in ResultBlock : F[b] = ResultItem(b) /\ f[b] = <<F[b]>> /\ F[b] \in InputItem
  BY <1>1, <1>2, ItemsAre
<1>5. FlatMap(f, r) = w
  <2>1. Each(ResultBlock, F, f)
    BY <1>4 DEF Each
  <2>2. FlatMap(f, r) = [k \in DOMAIN r |-> F[r[k]]]
    BY <2>1, FlatMapEach
  <2>3. \A k \in DOMAIN r : r[k] \in ResultBlock
    OBVIOUS
  <2> QED
    BY <1>3, <1>4, <2>2, <2>3
<1>6. ASSUME NEW b \in ResultBlock PROVE f[b] \in Seq(InputItem)
  <2>1. PICK i \in InputItem : i = F[b]
    BY <1>4
  <2>2. <<i>> \in Seq(InputItem)
    OBVIOUS
  <2>3. f[b] = <<i>>
    BY <1>4, <2>1
  <2> QED
    BY <2>2, <2>3
<1>7. w \in Seq(InputItem)
  <2>1. f \in Conversion(ResultBlock, InputItem)
    BY <1>2, <1>6 DEF Conversion
  <2> QED
    BY <1>5, <2>1, FlatMapIs
<1>8. FlatMap(Q, FlatMap(f, r)) = FlatMap(h, r)
  <2>1. ASSUME NEW b \in ResultBlock PROVE h[b] = FlatMap(Q, f[b])
    <3>1. PICK i \in InputItem : i = ResultItem(b)
      BY ItemsAre
    <3>2. Q[i] \in Seq(T) /\ f[b] = <<i>> /\ h[b] = Q[i]
      BY <1>2, <3>1, CarriedAre
    <3>3. FlatMap(Q, <<i>>) = Q[i]
      BY <3>2, FlatMapSingle
    <3> QED
      BY <3>2, <3>3
  <2>2. Through(ResultBlock, InputItem, T, f, Q, h)
    <3>1. \A i \in InputItem : Q[i] \in Seq(T)
      BY CarriedAre
    <3> QED
      BY <1>6, <2>1, <3>1 DEF Through
  <2> QED
    BY <2>2, FlatMapThrough
<1>9. Select(r, IsResult) = r
  BY ResultsOnly
<1>10. Select(r, LAMBDA b : IsText(b) /\ b.text # <<>>) = <<>>
  <2>1. PICK none : none = [b \in ResultBlock |-> <<>>]
    OBVIOUS
  <2>2. \A k \in DOMAIN r : r[k] \in ResultBlock /\ ~IsText(r[k])
    <3>1. \A k \in DOMAIN r : r[k] \in ResultBlock
      OBVIOUS
    <3> QED
      BY <3>1, KindsDiffer
  <2>3. [k \in DOMAIN r |-> IF IsText(r[k]) /\ r[k].text # <<>> THEN <<r[k]>> ELSE <<>>]
        = [k \in DOMAIN r |-> none[r[k]]]
    BY <2>1, <2>2
  <2>4. FlatMap(none, r) = <<>>
    BY <2>1, FlatMapNothing
  <2> QED
    BY <2>3, <2>4 DEF Select, FlatMap
<1>11. UserItems(r) = w
  <2>1. PICK e : e = [k \in DOMAIN <<>> |-> <<>>[k].text]
    OBVIOUS
  <2>2. e = <<>>
    BY <2>1
  <2>3. UserItems(r) = Flush("user", [out |-> w, parts |-> e])
    BY <1>3, <1>9, <1>10, <2>1, Zenon DEF UserItems
  <2>4. Flush("user", [out |-> w, parts |-> <<>>]) = w
    BY DEF Flush
  <2> QED
    BY <2>2, <2>3, <2>4
<1> QED
  BY <1>5, <1>7, <1>8, <1>11

-----------------------------------------------------------------------------
\* The items of a message.
ItemsOf == [m \in Fitting("codex") |->
               IF m.role = "assistant" THEN AssistantItems(m.content) ELSE UserItems(m.content)]

LEMMA ItemsCarry ==
    ASSUME NEW T, NEW Q, NEW tq, NEW h, Carries(T, Q, tq, h), NEW m \in Fitting("codex")
    PROVE  ItemsOf[m] \in Seq(InputItem) /\ FlatMap(Q, ItemsOf[m]) = FlatMap(h, m.content)
<1>1. CASE m \in UserMessage
  <2>1. m.role = "user" /\ m.content \in Seq(TextBlock) \union Seq(ResultBlock)
    BY <1>1 DEF UserMessage
  <2>2. ItemsOf[m] = UserItems(m.content)
    BY <2>1 DEF ItemsOf
  <2>3. PICK c : c = m.content
    OBVIOUS
  <2>4. CASE c \in Seq(TextBlock)
    BY <2>2, <2>3, <2>4, PromptCarries
  <2>5. CASE c \in Seq(ResultBlock)
    BY <2>2, <2>3, <2>5, AnswersCarry
  <2> QED
    BY <2>1, <2>3, <2>4, <2>5
<1>2. CASE m \in [role : {"assistant"}, content : ResponseContent("codex")]
  <2>1. PICK c : c = m.content
    OBVIOUS
  <2>2. m.role = "assistant" /\ c \in Seq(ContentBlock)
    BY <1>2, <2>1 DEF ResponseContent
  <2>3. ItemsOf[m] = AssistantItems(c)
    BY <2>1, <2>2 DEF ItemsOf
  <2> QED
    BY <2>1, <2>2, <2>3, AssistantCarries
<1> QED
  BY <1>1, <1>2 DEF Fitting

LEMMA CodexInputIs ==
    ASSUME NEW ms \in Seq(Fitting("codex")) PROVE CodexInput(ms) = FlatMap(ItemsOf, ms)
<1>1. PICK C : C = Fitting("codex")
  OBVIOUS
<1>2. \A k \in DOMAIN ms : ms[k] \in C
  <2>1. ms \in Seq(C)
    BY <1>1
  <2> QED
    BY <2>1
<1>3. [k \in DOMAIN ms |-> IF ms[k].role = "assistant" THEN AssistantItems(ms[k].content)
                                                       ELSE UserItems(ms[k].content)]
      = [k \in DOMAIN ms |-> ItemsOf[ms[k]]]
  BY <1>1, <1>2 DEF ItemsOf
<1> QED
  BY <1>3, Zenon DEF CodexInput, FlatMap

\* What is taken of the input is what is taken of the blocks, message by message.
LEMMA CodexCarries ==
    ASSUME NEW T, NEW Q, NEW tq, NEW h, Carries(T, Q, tq, h), NEW ms \in Seq(Fitting("codex")),
           NEW of, of = [m \in Fitting("codex") |-> FlatMap(h, m.content)]
    PROVE  /\ CodexInput(ms) \in Seq(InputItem)
           /\ FlatMap(Q, CodexInput(ms)) = FlatMap(of, ms)
<1>1. PICK C : C = Fitting("codex")
  OBVIOUS
<1>2. \A m \in C : /\ ItemsOf[m] \in Seq(InputItem)
                   /\ of[m] = FlatMap(Q, ItemsOf[m])
  BY <1>1, ItemsCarry
<1>3. ms \in Seq(C)
  BY <1>1
<1>4. Through(C, InputItem, T, ItemsOf, Q, of)
  <2>1. \A i \in InputItem : Q[i] \in Seq(T)
    BY CarriedAre
  <2> QED
    BY <1>2, <2>1 DEF Through
<1>5. FlatMap(Q, FlatMap(ItemsOf, ms)) = FlatMap(of, ms)
  BY <1>3, <1>4, FlatMapThrough
<1>6. FlatMap(ItemsOf, ms) \in Seq(InputItem)
  <2>1. ItemsOf \in Conversion(C, InputItem)
    BY <1>1, <1>2 DEF ItemsOf, Conversion
  <2> QED
    BY <1>3, <2>1, FlatMapIs
<1> QED
  BY <1>5, <1>6, CodexInputIs

-----------------------------------------------------------------------------
CodexSaid(item) ==
    CASE item.type = "message" -> Atoms("text", FlattenSeq(item.content))
      [] item.type = "function_call" -> <<<<"call", item.call_id>>>>
      [] item.type = "function_call_output" ->
             <<<<IF item.error THEN "error" ELSE "result", item.call_id>>>>
      [] item.type = "reasoning" -> <<<<"reasoning", item.id>>>>

CodexOf == [i \in InputItem |-> CodexSaid(i)]

TextSaid == [t \in Seq(Fragment) |-> Atoms("text", t)]

LEMMA CodexAtomsAre ==
    ASSUME NEW w \in Seq(InputItem) PROVE CodexAtoms(w) = FlatMap(CodexOf, w)
<1>1. \A k \in DOMAIN w : w[k] \in InputItem
  OBVIOUS
<1>2. \A i \in InputItem : CodexOf[i] = CodexSaid(i)
  BY DEF CodexOf
<1>3. [k \in DOMAIN w |->
          CASE w[k].type = "message" -> Atoms("text", FlattenSeq(w[k].content))
            [] w[k].type = "function_call" -> <<<<"call", w[k].call_id>>>>
            [] w[k].type = "function_call_output" ->
                   <<<<IF w[k].error THEN "error" ELSE "result", w[k].call_id>>>>
            [] w[k].type = "reasoning" -> <<<<"reasoning", w[k].id>>>>]
      = [k \in DOMAIN w |-> CodexOf[w[k]]]
  <2>1. ASSUME NEW k \in DOMAIN w
        PROVE  (CASE w[k].type = "message" -> Atoms("text", FlattenSeq(w[k].content))
            [] w[k].type = "function_call" -> <<<<"call", w[k].call_id>>>>
            [] w[k].type = "function_call_output" ->
                   <<<<IF w[k].error THEN "error" ELSE "result", w[k].call_id>>>>
            [] w[k].type = "reasoning" -> <<<<"reasoning", w[k].id>>>>)
               = CodexOf[w[k]]
    BY <1>1, <1>2, Zenon DEF CodexSaid
  <2> QED
    BY <2>1, Zenon
<1> QED
  BY <1>3, Zenon DEF CodexAtoms, FlatMap

\* The fragments of a message's parts, all or part by part.
LEMMA PartsSay ==
    ASSUME NEW parts \in Parts
    PROVE  /\ FlattenSeq(parts) \in Seq(Fragment)
           /\ Atoms("text", FlattenSeq(parts)) = FlatMap(TextSaid, parts)
<1>1. PICK X : X = Seq(Fragment)
  OBVIOUS
<1>2. PICK id : id = [t \in X |-> t]
  OBVIOUS
<1>3. parts \in Seq(X)
  BY <1>1 DEF Parts
<1>4. FlattenSeq(parts) = FlatMap(id, parts)
  <2>1. \A k \in DOMAIN parts : parts[k] \in X
    BY <1>3
  <2>2. [k \in DOMAIN parts |-> id[parts[k]]] = parts
    BY <1>2, <1>3, <2>1
  <2> QED
    BY <2>2 DEF FlatMap
<1>5. id \in Conversion(X, Fragment)
  BY <1>1, <1>2 DEF Conversion
<1>6. FlatMap(id, parts) \in Seq(Fragment)
  BY <1>3, <1>5, FlatMapIs
<1>7. PICK t \in Seq(Fragment) : t = FlatMap(id, parts)
  BY <1>6
<1>8. Atoms("text", t) = FlatMap(TextAtom, t)
  BY TextAtomsAre
<1>9. FlatMap(TextAtom, FlatMap(id, parts)) = FlatMap(TextSaid, parts)
  <2>1. \A x \in X : id[x] \in Seq(Fragment)
    BY <1>1, <1>2
  <2>2. ASSUME NEW x \in Fragment PROVE TextAtom[x] \in Seq(Atom)
    <3>1. TextAtom[x] = <<<<"text", x>>>>
      BY DEF TextAtom
    <3>2. <<"text", x>> \in Atom
      BY DEF Atom
    <3>3. PICK a \in Atom : a = <<"text", x>>
      BY <3>2
    <3>4. <<a>> \in Seq(Atom)
      OBVIOUS
    <3> QED
      BY <3>1, <3>3, <3>4
  <2>3. ASSUME NEW x \in X PROVE TextSaid[x] = FlatMap(TextAtom, id[x])
    <3>1. x \in Seq(Fragment) /\ id[x] = x
      BY <1>1, <1>2
    <3>2. TextSaid[x] = Atoms("text", x)
      BY <3>1 DEF TextSaid
    <3>3. Atoms("text", x) = FlatMap(TextAtom, x)
      BY <3>1, TextAtomsAre
    <3> QED
      BY <3>1, <3>2, <3>3
  <2>4. Through(X, Fragment, Atom, id, TextAtom, TextSaid)
    BY <2>1, <2>2, <2>3 DEF Through
  <2> QED
    BY <1>3, <2>4, FlatMapThrough
<1> QED
  BY <1>4, <1>6, <1>7, <1>8, <1>9

\* The kinds of items apart.
LEMMA ItemKinds ==
    /\ \A i \in TextItem : i.type = "message" /\ i.content \in Parts
    /\ \A i \in FunctionItem : i.type = "function_call" /\ i.call_id \in STRING
    /\ \A i \in OutputOfCall : i.type = "function_call_output" /\ i.call_id \in STRING /\ i.error \in BOOLEAN
    /\ \A i \in ReasoningItem : i.type = "reasoning" /\ i.id \in STRING
<1>1. \A i \in TextItem : i.type = "message" /\ i.content \in Parts
  BY DEF TextItem
<1>2. \A i \in FunctionItem : i.type = "function_call" /\ i.call_id \in STRING
  BY DEF FunctionItem
<1>3. \A i \in OutputOfCall : i.type = "function_call_output" /\ i.call_id \in STRING /\ i.error \in BOOLEAN
  BY DEF OutputOfCall
<1>4. \A i \in ReasoningItem : i.type = "reasoning" /\ i.id \in STRING
  BY DEF ReasoningItem
<1> QED
  BY <1>1, <1>2, <1>3, <1>4

LEMMA CodexOfIs ==
    /\ \A i \in TextItem : CodexOf[i] = Atoms("text", FlattenSeq(i.content))
    /\ \A i \in FunctionItem : CodexOf[i] = <<<<"call", i.call_id>>>>
    /\ \A i \in OutputOfCall : CodexOf[i] = <<<<IF i.error THEN "error" ELSE "result", i.call_id>>>>
    /\ \A i \in ReasoningItem : CodexOf[i] = <<<<"reasoning", i.id>>>>
<1>1. \A i \in InputItem : CodexOf[i] = CodexSaid(i)
  BY DEF CodexOf
<1>2. TextItem \subseteq InputItem /\ FunctionItem \subseteq InputItem
      /\ OutputOfCall \subseteq InputItem /\ ReasoningItem \subseteq InputItem
  BY DEF InputItem
<1>3. \A i \in TextItem : CodexSaid(i) = Atoms("text", FlattenSeq(i.content))
  BY ItemKinds DEF CodexSaid
<1>4. \A i \in FunctionItem : CodexSaid(i) = <<<<"call", i.call_id>>>>
  BY ItemKinds DEF CodexSaid
<1>5. \A i \in OutputOfCall : CodexSaid(i) = <<<<IF i.error THEN "error" ELSE "result", i.call_id>>>>
  BY ItemKinds DEF CodexSaid
<1>6. \A i \in ReasoningItem : CodexSaid(i) = <<<<"reasoning", i.id>>>>
  BY ItemKinds DEF CodexSaid
<1> QED
  BY <1>1, <1>2, <1>3, <1>4, <1>5, <1>6

LEMMA CodexOfConverts ==
    ASSUME NEW i \in InputItem PROVE CodexOf[i] \in Seq(Atom)
<1>1. \A x \in Fragment : \A kind \in {"text", "call", "result", "error", "reasoning"} :
         <<<<kind, x>>>> \in Seq(Atom)
  <2> SUFFICES ASSUME NEW x \in Fragment, NEW kind \in {"text", "call", "result", "error", "reasoning"}
               PROVE  <<<<kind, x>>>> \in Seq(Atom)
    OBVIOUS
  <2>1. PICK a \in Atom : a = <<kind, x>>
    BY DEF Atom
  <2>2. <<a>> \in Seq(Atom)
    OBVIOUS
  <2> QED
    BY <2>1, <2>2
<1>2. \A x \in STRING : x \in Fragment
  BY DEF Fragment
<1>3. CASE i \in TextItem
  <2>1. PICK p \in Parts : p = i.content
    BY <1>3, ItemKinds
  <2>2. FlattenSeq(p) \in Seq(Fragment)
    BY PartsSay
  <2>3. Atoms("text", FlattenSeq(p)) \in Seq(Atom)
    BY <2>2, AtomsAre
  <2> QED
    BY <1>3, <2>1, <2>3, CodexOfIs
<1>4. CASE i \in FunctionItem
  BY <1>1, <1>2, <1>4, ItemKinds, CodexOfIs
<1>5. CASE i \in OutputOfCall
  <2>1. CodexOf[i] = <<<<"error", i.call_id>>>> \/ CodexOf[i] = <<<<"result", i.call_id>>>>
    BY <1>5, CodexOfIs
  <2>2. i.call_id \in Fragment
    BY <1>2, <1>5, ItemKinds
  <2> QED
    BY <1>1, <2>1, <2>2
<1>6. CASE i \in ReasoningItem
  BY <1>1, <1>2, <1>6, ItemKinds, CodexOfIs
<1> QED
  BY <1>3, <1>4, <1>5, <1>6 DEF InputItem

LEMMA CodexTells == Carries(Atom, CodexOf, TextSaid, BlockAtoms)
<1>1. \A i \in InputItem : CodexOf[i] \in Seq(Atom)
  BY CodexOfConverts
<1>2. TextSaid \in Conversion(Seq(Fragment), Atom)
  <2>1. \A t \in Seq(Fragment) : Atoms("text", t) \in Seq(Atom)
    BY AtomsAre
  <2> QED
    BY <2>1 DEF TextSaid, Conversion
<1>3. TextSaid[<<>>] = <<>>
  <2>1. <<>> \in Seq(Fragment)
    OBVIOUS
  <2>2. Atoms("text", <<>>) = <<>>
    BY DEF Atoms
  <2> QED
    BY <2>1, <2>2 DEF TextSaid
<1>4. ASSUME NEW role \in {"assistant", "user"}, NEW parts \in Parts
      PROVE  CodexOf[MessageItem(role, parts)] = FlatMap(TextSaid, parts)
  <2>1. MessageItem(role, parts) \in TextItem
    BY DEF MessageItem, TextItem
  <2>2. MessageItem(role, parts).content = parts
    BY DEF MessageItem
  <2>3. CodexOf[MessageItem(role, parts)] = Atoms("text", FlattenSeq(parts))
    BY <2>1, <2>2, CodexOfIs
  <2> QED
    BY <2>3, PartsSay
<1>5. ASSUME NEW b \in TextBlock PROVE BlockAtoms[b] = TextSaid[b.text]
  <2>1. b.text \in Seq(Fragment)
    BY DEF TextBlock
  <2> QED
    BY <2>1, BlockAtomsOf DEF TextSaid
<1>6. ASSUME NEW b \in CallBlock PROVE BlockAtoms[b] = CodexOf[CallItem(b)]
  <2>1. CallItem(b) \in FunctionItem /\ CallItem(b).call_id = b.id
    BY DEF CallItem, FunctionItem, CallBlock
  <2> QED
    BY <2>1, BlockAtomsOf, CodexOfIs
<1>7. ASSUME NEW b \in ResultBlock PROVE BlockAtoms[b] = CodexOf[ResultItem(b)]
  <2>1. PICK i : i = ResultItem(b)
    OBVIOUS
  <2>2. i \in OutputOfCall /\ i.call_id = b.tool_use_id /\ i.error = b.is_error
    BY <2>1 DEF ResultItem, OutputOfCall, ResultBlock
  <2>3. BlockAtoms[b] = <<Answered(b)>>
    BY BlockAtomsOf
  <2>4. CodexOf[i] = <<<<IF i.error THEN "error" ELSE "result", i.call_id>>>>
    BY <2>2, CodexOfIs
  <2>5. Answered(b) = <<IF i.error THEN "error" ELSE "result", i.call_id>>
    BY <2>2, Zenon DEF Answered
  <2> QED
    BY <2>1, <2>3, <2>4, <2>5
<1>8. ASSUME NEW b \in OpaqueBlock
      PROVE  BlockAtoms[b] = IF b.data.encrypted THEN CodexOf[b.data] ELSE <<>>
  <2>1. b.data \in ReasoningItem
    BY DEF OpaqueBlock
  <2>2. BlockAtoms[b] = IF b.data.encrypted THEN <<<<"reasoning", b.data.id>>>> ELSE <<>>
    BY BlockAtomsOf
  <2> QED
    BY <2>1, <2>2, CodexOfIs, Zenon
<1> QED
  BY <1>1, <1>2, <1>3, <1>4, <1>5, <1>6, <1>7, <1>8 DEF Carries

LEMMA CodexRepeats ==
    ASSUME NEW ms \in Seq(Fitting("codex"))
    PROVE  CodexAtoms(CodexInput(ms)) = Spoken(ms)
<1>1. PICK C : C = Fitting("codex")
  OBVIOUS
<1>2. PICK of : of = [m \in C |-> FlatMap(BlockAtoms, m.content)]
  OBVIOUS
<1>3. /\ CodexInput(ms) \in Seq(InputItem)
      /\ FlatMap(CodexOf, CodexInput(ms)) = FlatMap(of, ms)
  BY <1>1, <1>2, CodexTells, CodexCarries
<1>4. \A m \in C : MessageAtoms[m] = of[m]
  BY <1>1, <1>2, MessageAtomsAre
<1>5. ms \in Seq(C)
  BY <1>1
<1>6. FlatMap(MessageAtoms, ms) = FlatMap(of, ms)
  BY <1>4, <1>5, FlatMapAlike
<1> QED
  BY <1>3, <1>6, CodexAtomsAre DEF Spoken

-----------------------------------------------------------------------------
\* The adapters together.
LEMMA RequestRepeats ==
    ASSUME adapter \in {"anthropic", "compatible", "codex", "openrouter"},
           NEW ms \in Seq(Fitting(adapter))
    PROVE  RequestAtoms(adapter, ToWire(ms)) = Spoken(ms)
<1>1. PICK ad : ad = adapter
  OBVIOUS
<1>2. CASE ad \in {"anthropic", "compatible"}
  <2>1. ms \in Seq(Fitting(ad))
    BY <1>1
  <2>2. AnthropicAtoms(AnthropicWire(ms)) = Spoken(ms)
    BY <1>2, <2>1, AnthropicRepeats
  <2>3. ToWire(ms) = AnthropicWire(ms)
    BY <1>1, <1>2 DEF ToWire
  <2>4. RequestAtoms(ad, AnthropicWire(ms)) = AnthropicAtoms(AnthropicWire(ms))
    BY <1>2 DEF RequestAtoms
  <2> QED
    BY <1>1, <2>2, <2>3, <2>4
<1>3. CASE ad = "codex"
  <2>1. ms \in Seq(Fitting("codex"))
    BY <1>1, <1>3
  <2>2. CodexAtoms(CodexInput(ms)) = Spoken(ms)
    BY <2>1, CodexRepeats
  <2>3. ToWire(ms) = CodexInput(ms)
    BY <1>1, <1>3 DEF ToWire
  <2>4. RequestAtoms(ad, CodexInput(ms)) = CodexAtoms(CodexInput(ms))
    BY <1>3 DEF RequestAtoms
  <2> QED
    BY <1>1, <2>2, <2>3, <2>4
<1>4. CASE ad = "openrouter"
  <2>1. ms \in Seq(Fitting("openrouter"))
    BY <1>1, <1>4
  <2>2. ChatAtoms(ChatWire(ms)) = Spoken(ms)
    BY <2>1, ChatRepeats
  <2>3. ToWire(ms) = ChatWire(ms)
    BY <1>1, <1>4 DEF ToWire
  <2>4. RequestAtoms(ad, ChatWire(ms)) = ChatAtoms(ChatWire(ms))
    BY <1>4 DEF RequestAtoms
  <2> QED
    BY <1>1, <2>2, <2>3, <2>4
<1> QED
  BY <1>1, <1>2, <1>3, <1>4

-----------------------------------------------------------------------------
(* Each call next to its results, on the wire.                             *)

\* c takes the calls of an element, r its results.
NextHas(c, r, s) ==
    \A k \in DOMAIN s : c[s[k]] # <<>> => k < Len(s) /\ r[s[k + 1]] = c[s[k]]

FollowedBy(c, r, s) ==
    \A k \in DOMAIN s :
        c[s[k]] # <<>> =>
            /\ k + Len(c[s[k]]) <= Len(s)
            /\ \A n \in DOMAIN c[s[k]] : r[s[k + n]] = c[s[k]][n]

LEMMA NextHasMore ==
    ASSUME NEW X, NEW c, NEW r, NEW s \in Seq(X), NEW t \in Seq(X),
           NextHas(c, r, s), NextHas(c, r, t)
    PROVE  NextHas(c, r, s \o t)
<1>1. PICK u : u = s \o t
  OBVIOUS
<1>2. PICK m \in Nat, n \in Nat : m = Len(s) /\ DOMAIN s = 1 .. m /\ n = Len(t) /\ DOMAIN t = 1 .. n
  OBVIOUS
<1>3. Len(u) = m + n /\ DOMAIN u = 1 .. m + n
  BY <1>1, <1>2
<1>4. /\ \A k \in 1 .. m : u[k] = s[k]
      /\ \A k \in 1 .. n : u[m + k] = t[k]
  BY <1>1, <1>2
<1>5. ASSUME NEW k \in 1 .. m + n, c[u[k]] # <<>>
      PROVE  k < m + n /\ r[u[k + 1]] = c[u[k]]
  <2>1. CASE k <= m
    <3>1. k \in 1 .. m
      BY <2>1
    <3>2. u[k] = s[k] /\ c[s[k]] # <<>>
      BY <1>4, <1>5, <3>1
    <3>3. k < m /\ r[s[k + 1]] = c[s[k]]
      BY <1>2, <3>1, <3>2 DEF NextHas
    <3>4. k + 1 \in 1 .. m
      BY <3>1, <3>3
    <3> QED
      BY <1>4, <3>2, <3>3, <3>4
  <2>2. CASE ~(k <= m)
    <3>1. PICK j \in 1 .. n : k = m + j
      <4>1. k - m \in 1 .. n /\ k = m + (k - m)
        BY <2>2
      <4> QED
        BY <4>1
    <3>2. u[k] = t[j] /\ c[t[j]] # <<>>
      BY <1>4, <1>5, <3>1
    <3>3. j < n /\ r[t[j + 1]] = c[t[j]]
      BY <1>2, <3>1, <3>2 DEF NextHas
    <3>4. j + 1 \in 1 .. n /\ k + 1 = m + (j + 1)
      BY <3>1, <3>3
    <3>5. u[k + 1] = t[j + 1]
      BY <1>4, <3>4
    <3> QED
      BY <3>1, <3>2, <3>3, <3>5
  <2> QED
    BY <2>1, <2>2
<1> QED
  BY <1>1, <1>3, <1>5 DEF NextHas

LEMMA FollowedByMore ==
    ASSUME NEW X, NEW c, NEW r, NEW s \in Seq(X), NEW t \in Seq(X),
           \A x \in X : c[x] \in Seq(STRING),
           FollowedBy(c, r, s), FollowedBy(c, r, t)
    PROVE  FollowedBy(c, r, s \o t)
<1>1. PICK u : u = s \o t
  OBVIOUS
<1>2. PICK m \in Nat, n \in Nat : m = Len(s) /\ DOMAIN s = 1 .. m /\ n = Len(t) /\ DOMAIN t = 1 .. n
  OBVIOUS
<1>3. Len(u) = m + n /\ DOMAIN u = 1 .. m + n
  BY <1>1, <1>2
<1>4. /\ \A k \in 1 .. m : u[k] = s[k]
      /\ \A k \in 1 .. n : u[m + k] = t[k]
  BY <1>1, <1>2
<1>5. ASSUME NEW k \in 1 .. m + n, c[u[k]] # <<>>
      PROVE  /\ k + Len(c[u[k]]) <= m + n
             /\ \A i \in DOMAIN c[u[k]] : r[u[k + i]] = c[u[k]][i]
  <2>0. (\A i \in 1 .. m : s[i] \in X) /\ (\A i \in 1 .. n : t[i] \in X)
    BY <1>2
  <2>1. u[k] \in X
    <3>1. CASE k <= m
      <4>1. k \in 1 .. m
        BY <3>1
      <4> QED
        BY <1>4, <2>0, <4>1
    <3>2. CASE ~(k <= m)
      <4>1. k - m \in 1 .. n /\ k = m + (k - m)
        BY <3>2
      <4> QED
        BY <1>4, <2>0, <4>1
    <3> QED
      BY <3>1, <3>2
  <2>2. PICK calls \in Seq(STRING) : calls = c[u[k]]
    BY <2>1
  <2>3. PICK l \in Nat : l = Len(calls) /\ DOMAIN calls = 1 .. l
    BY <2>2
  <2>4. CASE k <= m
    <3>1. k \in 1 .. m
      BY <2>4
    <3>2. u[k] = s[k] /\ c[s[k]] # <<>> /\ c[s[k]] = calls
      BY <1>4, <1>5, <2>2, <3>1
    <3>3. k + l <= m /\ \A i \in 1 .. l : r[s[k + i]] = calls[i]
      <4>1. k \in DOMAIN s
        BY <1>2, <3>1
      <4>2. k + Len(c[s[k]]) <= Len(s) /\ \A i \in DOMAIN c[s[k]] : r[s[k + i]] = c[s[k]][i]
        BY <3>2, <4>1 DEF FollowedBy
      <4> QED
        BY <1>2, <2>3, <3>2, <4>2
    <3>4. \A i \in 1 .. l : k + i \in 1 .. m
      BY <3>1, <3>3
    <3>5. \A i \in 1 .. l : u[k + i] = s[k + i]
      BY <1>4, <3>4
    <3>6. \A i \in 1 .. l : r[u[k + i]] = calls[i]
      BY <3>3, <3>5
    <3>7. k + l <= m + n
      BY <3>3
    <3> QED
      BY <2>2, <2>3, <3>6, <3>7
  <2>5. CASE ~(k <= m)
    <3>1. PICK j \in 1 .. n : k = m + j
      <4>1. k - m \in 1 .. n /\ k = m + (k - m)
        BY <2>5
      <4> QED
        BY <4>1
    <3>2. u[k] = t[j] /\ c[t[j]] # <<>> /\ c[t[j]] = calls
      BY <1>4, <1>5, <2>2, <3>1
    <3>3. j + l <= n /\ \A i \in 1 .. l : r[t[j + i]] = calls[i]
      BY <1>2, <2>3, <3>1, <3>2 DEF FollowedBy
    <3>4. \A i \in 1 .. l : j + i \in 1 .. n /\ k + i = m + (j + i)
      BY <3>1, <3>3
    <3>5. \A i \in 1 .. l : u[k + i] = t[j + i]
      BY <1>4, <3>4
    <3>6. \A i \in 1 .. l : r[u[k + i]] = calls[i]
      BY <3>3, <3>5
    <3>7. k + l <= m + n
      BY <3>1, <3>3
    <3> QED
      BY <2>2, <2>3, <3>6, <3>7
  <2> QED
    BY <2>4, <2>5
<1> QED
  BY <1>1, <1>3, <1>5 DEF FollowedBy

-----------------------------------------------------------------------------
ResultIds(s) == [k \in DOMAIN s |-> s[k].tool_use_id]

\* What the functions take of a message on the wire, by adapter.
AnthropicCalls == [m \in Message |-> Ids(ToolUses(m.content))]
AnthropicResults == [m \in Message |-> ResultIds(Select(m.content, IsResult))]
ChatCalls == [m \in WireMessage |-> Ids(m.tool_calls)]
ChatResults == [m \in WireMessage |-> m.tool_call_id]
CodexCall == [i \in InputItem |-> IF IsCallItem(i) THEN <<i.call_id>> ELSE <<>>]
CodexResult == [i \in InputItem |-> IF i.type = "function_call_output" THEN <<i.call_id>> ELSE <<>>]

LEMMA AnthropicNext ==
    ASSUME adapter \in {"anthropic", "compatible"}, NEW w \in Seq(Message)
    PROVE  CallsAnsweredNext(w) <=> NextHas(AnthropicCalls, AnthropicResults, w)
<1>1. PICK n \in Nat : n = Len(w) /\ DOMAIN w = 1 .. n
  OBVIOUS
<1>2. \A k \in 1 .. n : w[k] \in Message
  BY <1>1
<1>3. \A k \in 1 .. n : AnthropicCalls[w[k]] = Ids(ToolUses(w[k].content))
  BY <1>2 DEF AnthropicCalls
<1>4. \A k \in 1 .. n : AnthropicResults[w[k]] = ResultIds(Select(w[k].content, IsResult))
  BY <1>2 DEF AnthropicResults
<1>5. \A k \in 1 .. n :
         (k < n /\ ResultIds(Select(w[k + 1].content, IsResult)) = Ids(ToolUses(w[k].content)))
         <=> (k < n /\ AnthropicResults[w[k + 1]] = AnthropicCalls[w[k]])
  <2> SUFFICES ASSUME NEW k \in 1 .. n, k < n
               PROVE  ResultIds(Select(w[k + 1].content, IsResult)) = Ids(ToolUses(w[k].content))
                      <=> AnthropicResults[w[k + 1]] = AnthropicCalls[w[k]]
    OBVIOUS
  <2>1. k + 1 \in 1 .. n
    OBVIOUS
  <2> QED
    BY <1>3, <1>4, <2>1
<1>6. CallsAnsweredNext(w)
      <=> \A k \in 1 .. n : Ids(ToolUses(w[k].content)) # <<>> =>
             k < n /\ ResultIds(Select(w[k + 1].content, IsResult)) = Ids(ToolUses(w[k].content))
  BY <1>1 DEF CallsAnsweredNext, ResultIds
<1>7. NextHas(AnthropicCalls, AnthropicResults, w)
      <=> \A k \in 1 .. n : AnthropicCalls[w[k]] # <<>> =>
             k < n /\ AnthropicResults[w[k + 1]] = AnthropicCalls[w[k]]
  BY <1>1 DEF NextHas
<1> QED
  BY <1>3, <1>5, <1>6, <1>7

LEMMA ChatCallsAre == \A m \in WireMessage : ChatCalls[m] \in Seq(STRING)
<1>3. \A m \in WireMessage : ChatCalls[m] = Ids(m.tool_calls)
  BY DEF ChatCalls
<1>4. \A m \in WireMessage : ChatCalls[m] \in Seq(STRING)
  <2> SUFFICES ASSUME NEW m \in WireMessage PROVE ChatCalls[m] \in Seq(STRING)
    OBVIOUS
  <2>1. m.tool_calls \in Seq(CallBlock)
    <3>1. \A x \in SpokenMessage : x.tool_calls \in Seq(CallBlock)
      BY DEF SpokenMessage
    <3>2. \A x \in AnsweringMessage : x.tool_calls = <<>>
      BY DEF AnsweringMessage
    <3>3. <<>> \in Seq(CallBlock)
      OBVIOUS
    <3> QED
      BY <3>1, <3>2, <3>3 DEF WireMessage
  <2>2. PICK calls \in Seq(CallBlock) : calls = m.tool_calls
    BY <2>1
  <2>3. \A k \in DOMAIN calls : calls[k].id \in STRING
    <3>1. \A k \in DOMAIN calls : calls[k] \in CallBlock
      OBVIOUS
    <3> QED
      BY <3>1 DEF CallBlock
  <2>4. [k \in DOMAIN calls |-> calls[k].id] \in Seq(STRING)
    BY <2>3
  <2> QED
    BY <1>3, <2>2, <2>4 DEF Ids
<1> QED
  BY <1>4

LEMMA ChatNext ==
    ASSUME adapter = "openrouter", NEW w \in Seq(WireMessage)
    PROVE  CallsAnsweredNext(w) <=> FollowedBy(ChatCalls, ChatResults, w)
<1>1. PICK n \in Nat : n = Len(w) /\ DOMAIN w = 1 .. n
  OBVIOUS
<1>2. \A k \in 1 .. n : w[k] \in WireMessage
  BY <1>1
<1>3. \A m \in WireMessage : ChatCalls[m] = Ids(m.tool_calls) /\ ChatResults[m] = m.tool_call_id
  BY DEF ChatCalls, ChatResults
<1>4. \A m \in WireMessage : ChatCalls[m] \in Seq(STRING)
  BY ChatCallsAre
<1>5. \A k \in 1 .. n : /\ Ids(w[k].tool_calls) = ChatCalls[w[k]]
                        /\ ChatCalls[w[k]] \in Seq(STRING)
                        /\ w[k].tool_call_id = ChatResults[w[k]]
  BY <1>2, <1>3, <1>4
<1>6. ASSUME NEW k \in 1 .. n
      PROVE  (Ids(w[k].tool_calls) # <<>> =>
                  /\ k + Len(Ids(w[k].tool_calls)) <= n
                  /\ \A i \in DOMAIN Ids(w[k].tool_calls) : w[k + i].tool_call_id = Ids(w[k].tool_calls)[i])
             <=> (ChatCalls[w[k]] # <<>> =>
                  /\ k + Len(ChatCalls[w[k]]) <= n
                  /\ \A i \in DOMAIN ChatCalls[w[k]] : ChatResults[w[k + i]] = ChatCalls[w[k]][i])
  <2>1. PICK calls \in Seq(STRING) : calls = ChatCalls[w[k]] /\ calls = Ids(w[k].tool_calls)
    BY <1>5
  <2>2. CASE k + Len(calls) <= n
    <3>1. \A i \in DOMAIN calls : k + i \in 1 .. n
      BY <2>2
    <3>2. \A i \in DOMAIN calls : w[k + i].tool_call_id = ChatResults[w[k + i]]
      BY <1>5, <3>1
    <3> QED
      BY <2>1, <3>2
  <2>3. CASE ~(k + Len(calls) <= n)
    BY <2>1, <2>3
  <2> QED
    BY <2>2, <2>3
<1>7. CallsAnsweredNext(w)
      <=> \A k \in 1 .. n : Ids(w[k].tool_calls) # <<>> =>
                  /\ k + Len(Ids(w[k].tool_calls)) <= n
                  /\ \A i \in DOMAIN Ids(w[k].tool_calls) : w[k + i].tool_call_id = Ids(w[k].tool_calls)[i]
  BY <1>1 DEF CallsAnsweredNext, AnsweredByMessages
<1>8. FollowedBy(ChatCalls, ChatResults, w)
      <=> \A k \in 1 .. n : ChatCalls[w[k]] # <<>> =>
                  /\ k + Len(ChatCalls[w[k]]) <= n
                  /\ \A i \in DOMAIN ChatCalls[w[k]] : ChatResults[w[k + i]] = ChatCalls[w[k]][i]
  BY <1>1 DEF FollowedBy
<1> QED
  BY <1>6, <1>7, <1>8

LEMMA CodexNext ==
    ASSUME adapter = "codex", NEW w \in Seq(InputItem)
    PROVE  CallsAnsweredNext(w) <=> FlatMap(CodexCall, w) = FlatMap(CodexResult, w)
<1>1. \A k \in DOMAIN w : w[k] \in InputItem
  OBVIOUS
<1>2. PICK one : one = [i \in InputItem |-> IF IsCallItem(i) THEN <<i>> ELSE <<>>]
  OBVIOUS
<1>3. PICK two : two = [i \in InputItem |-> IF i.type = "function_call_output" THEN <<i>> ELSE <<>>]
  OBVIOUS
<1>4. Select(w, IsCallItem) = FlatMap(one, w)
  <2>1. [k \in DOMAIN w |-> IF IsCallItem(w[k]) THEN <<w[k]>> ELSE <<>>] = [k \in DOMAIN w |-> one[w[k]]]
    BY <1>1, <1>2
  <2> QED
    BY <2>1 DEF Select, FlatMap
<1>5. Select(w, LAMBDA i : i.type = "function_call_output") = FlatMap(two, w)
  <2>1. [k \in DOMAIN w |-> IF w[k].type = "function_call_output" THEN <<w[k]>> ELSE <<>>]
        = [k \in DOMAIN w |-> two[w[k]]]
    BY <1>1, <1>3
  <2> QED
    BY <2>1 DEF Select, FlatMap
<1> DEFINE Some == FunctionItem \union OutputOfCall
<1>6. PICK F : F = [i \in Some |-> i.call_id]
  OBVIOUS
<1>7. PICK id : id = [i \in Some |-> <<i.call_id>>]
  OBVIOUS
<1>8. \A i \in Some : id[i] = <<F[i]>> /\ F[i] = i.call_id /\ F[i] \in STRING
  BY <1>6, <1>7, ItemKinds
<1>9. Each(Some, F, id)
  BY <1>8 DEF Each
<1>10. ASSUME NEW i \in InputItem
       PROVE  /\ one[i] \in Seq(Some) /\ two[i] \in Seq(Some)
              /\ CodexCall[i] = FlatMap(id, one[i])
              /\ CodexResult[i] = FlatMap(id, two[i])
  <2>1. FlatMap(id, <<>>) = <<>> /\ <<>> \in Seq(Some)
    BY FlatMapNone
  <2>2. ASSUME i \in Some PROVE FlatMap(id, <<i>>) = <<i.call_id>> /\ <<i>> \in Seq(Some)
    <3>1. PICK x \in STRING : x = i.call_id
      BY <1>8, <2>2
    <3>2. id[i] = <<x>> /\ <<x>> \in Seq(STRING)
      BY <1>7, <2>2, <3>1
    <3>3. FlatMap(id, <<i>>) = id[i]
      BY <3>2, FlatMapSingle
    <3> HIDE DEF Some
    <3> QED
      BY <2>2, <3>1, <3>2, <3>3
  <2>3. IsCallItem(i) => i \in Some
    BY ItemKinds DEF InputItem, IsCallItem
  <2>4. i.type = "function_call_output" => i \in Some
    BY ItemKinds DEF InputItem
  <2>5. /\ one[i] = IF IsCallItem(i) THEN <<i>> ELSE <<>>
        /\ two[i] = IF i.type = "function_call_output" THEN <<i>> ELSE <<>>
        /\ CodexCall[i] = IF IsCallItem(i) THEN <<i.call_id>> ELSE <<>>
        /\ CodexResult[i] = IF i.type = "function_call_output" THEN <<i.call_id>> ELSE <<>>
    BY <1>2, <1>3 DEF CodexCall, CodexResult
  <2> HIDE DEF Some
  <2> QED
    BY <2>1, <2>2, <2>3, <2>4, <2>5
<1> HIDE DEF Some
<1>11. ASSUME NEW i \in Some PROVE id[i] \in Seq(STRING)
  <2>1. PICK x \in STRING : x = F[i]
    BY <1>8
  <2>2. <<x>> \in Seq(STRING)
    OBVIOUS
  <2>3. id[i] = <<x>>
    BY <1>8, <2>1
  <2> QED
    BY <2>2, <2>3
<1>12. FlatMap(id, FlatMap(one, w)) = FlatMap(CodexCall, w)
  <2>1. Through(InputItem, Some, STRING, one, id, CodexCall)
    BY <1>10, <1>11 DEF Through
  <2> QED
    BY <2>1, FlatMapThrough
<1>13. FlatMap(id, FlatMap(two, w)) = FlatMap(CodexResult, w)
  <2>1. Through(InputItem, Some, STRING, two, id, CodexResult)
    BY <1>10, <1>11 DEF Through
  <2> QED
    BY <2>1, FlatMapThrough
<1>14. PICK calls \in Seq(Some), results \in Seq(Some) :
          calls = FlatMap(one, w) /\ results = FlatMap(two, w)
  <2>1. one \in Conversion(InputItem, Some) /\ two \in Conversion(InputItem, Some)
    BY <1>2, <1>3, <1>10 DEF Conversion
  <2>2. FlatMap(one, w) \in Seq(Some) /\ FlatMap(two, w) \in Seq(Some)
    BY <2>1, FlatMapIs
  <2> QED
    BY <2>2
<1>15. ASSUME NEW s \in Seq(Some)
       PROVE  [k \in DOMAIN s |-> s[k].call_id] = FlatMap(id, s)
  <2>1. FlatMap(id, s) = [k \in DOMAIN s |-> F[s[k]]]
    BY <1>9, FlatMapEach
  <2>2. \A k \in DOMAIN s : s[k] \in Some
    OBVIOUS
  <2>3. \A k \in DOMAIN s : F[s[k]] = s[k].call_id
    BY <1>8, <2>2
  <2> QED
    BY <2>1, <2>3
<1>16. CallsAnsweredNext(w)
       <=> [k \in DOMAIN calls |-> calls[k].call_id] = [k \in DOMAIN results |-> results[k].call_id]
  BY <1>4, <1>5, <1>14 DEF CallsAnsweredNext
<1>17. /\ [k \in DOMAIN calls |-> calls[k].call_id] = FlatMap(id, calls)
       /\ [k \in DOMAIN results |-> results[k].call_id] = FlatMap(id, results)
  BY <1>15
<1> QED
  BY <1>12, <1>13, <1>14, <1>16, <1>17

-----------------------------------------------------------------------------
CallId == [b \in AnyBlock |-> IF IsCall(b) THEN <<b.id>> ELSE <<>>]
ResultId == [b \in AnyBlock |-> IF IsResult(b) THEN <<b.tool_use_id>> ELSE <<>>]
NoText == [t \in Seq(Fragment) |-> <<>>]

LEMMA OneOf == ASSUME NEW S, NEW x \in S PROVE <<x>> \in Seq(S)
OBVIOUS

\* The ids, taken block by block.
LEMMA IdsAre ==
    ASSUME NEW s \in Seq(AnyBlock)
    PROVE  /\ Ids(ToolUses(s)) = FlatMap(CallId, s)
           /\ ResultIds(Select(s, IsResult)) = FlatMap(ResultId, s)
<1>1. PICK F : F = [b \in CallBlock |-> b.id]
  OBVIOUS
<1>2. PICK f : f = [b \in CallBlock |-> <<b.id>>]
  OBVIOUS
<1>3. PICK G : G = [b \in ResultBlock |-> b.tool_use_id]
  OBVIOUS
<1>4. PICK g : g = [b \in ResultBlock |-> <<b.tool_use_id>>]
  OBVIOUS
<1>5. /\ \A b \in CallBlock : f[b] = <<F[b]>> /\ F[b] = b.id /\ b.id \in STRING
      /\ \A b \in ResultBlock : g[b] = <<G[b]>> /\ G[b] = b.tool_use_id /\ b.tool_use_id \in STRING
  BY <1>1, <1>2, <1>3, <1>4 DEF CallBlock, ResultBlock
<1>6. ASSUME NEW b \in CallBlock PROVE f[b] \in Seq(STRING) /\ FlatMap(f, <<b>>) = <<b.id>>
  <2>1. PICK x \in STRING : x = b.id
    BY <1>5
  <2>2. f[b] = <<x>> /\ <<x>> \in Seq(STRING)
    BY <1>5, <2>1
  <2>3. FlatMap(f, <<b>>) = f[b]
    BY <2>2, FlatMapSingle
  <2> QED
    BY <2>1, <2>2, <2>3
<1>7. ASSUME NEW b \in ResultBlock PROVE g[b] \in Seq(STRING) /\ FlatMap(g, <<b>>) = <<b.tool_use_id>>
  <2>1. PICK x \in STRING : x = b.tool_use_id
    BY <1>5
  <2>2. g[b] = <<x>> /\ <<x>> \in Seq(STRING)
    BY <1>5, <2>1
  <2>3. FlatMap(g, <<b>>) = g[b]
    BY <2>2, FlatMapSingle
  <2> QED
    BY <2>1, <2>2, <2>3
<1>8. /\ \A b \in AnyBlock : IsCall(b) => b \in CallBlock
      /\ \A b \in AnyBlock : IsResult(b) => b \in ResultBlock
  BY KindsDiffer DEF AnyBlock
<1>9. FlatMap(f, <<>>) = <<>> /\ FlatMap(g, <<>>) = <<>>
  BY FlatMapNone
<1>10. \A b \in AnyBlock : CallId[b] = FlatMap(f, IfCall[b])
  <2> SUFFICES ASSUME NEW b \in AnyBlock PROVE CallId[b] = FlatMap(f, IfCall[b])
    OBVIOUS
  <2>1. CallId[b] = (IF IsCall(b) THEN <<b.id>> ELSE <<>>) /\ IfCall[b] = IF IsCall(b) THEN <<b>> ELSE <<>>
    BY DEF CallId, IfCall
  <2>2. CASE IsCall(b)
    BY <1>6, <1>8, <2>1, <2>2
  <2>3. CASE ~IsCall(b)
    BY <1>9, <2>1, <2>3
  <2> QED
    BY <2>2, <2>3
<1>11. \A b \in AnyBlock : ResultId[b] = FlatMap(g, IfResult[b])
  <2> SUFFICES ASSUME NEW b \in AnyBlock PROVE ResultId[b] = FlatMap(g, IfResult[b])
    OBVIOUS
  <2>1. ResultId[b] = (IF IsResult(b) THEN <<b.tool_use_id>> ELSE <<>>)
        /\ IfResult[b] = IF IsResult(b) THEN <<b>> ELSE <<>>
    BY DEF ResultId, IfResult
  <2>2. CASE IsResult(b)
    BY <1>7, <1>8, <2>1, <2>2
  <2>3. CASE ~IsResult(b)
    BY <1>9, <2>1, <2>3
  <2> QED
    BY <2>2, <2>3
<1>12. PICK calls, results : calls = FlatMap(IfCall, s) /\ results = FlatMap(IfResult, s)
  OBVIOUS
<1>13. calls \in Seq(CallBlock) /\ results \in Seq(ResultBlock)
  BY <1>12, SelectionsConvert, FlatMapIs
<1>14. \A b \in AnyBlock : IfCall[b] \in Seq(CallBlock)
  BY SelectionsConvert DEF Conversion
<1>15. \A b \in AnyBlock : IfResult[b] \in Seq(ResultBlock)
  BY SelectionsConvert DEF Conversion
<1>16. FlatMap(f, FlatMap(IfCall, s)) = FlatMap(CallId, s)
  <2>1. Through(AnyBlock, CallBlock, STRING, IfCall, f, CallId)
    BY <1>6, <1>10, <1>14 DEF Through
  <2> QED
    BY <2>1, FlatMapThrough
<1>17. FlatMap(g, FlatMap(IfResult, s)) = FlatMap(ResultId, s)
  <2>1. Through(AnyBlock, ResultBlock, STRING, IfResult, g, ResultId)
    BY <1>7, <1>11, <1>15 DEF Through
  <2> QED
    BY <2>1, FlatMapThrough
<1>18. FlatMap(f, calls) = Ids(calls)
  <2>1. Each(CallBlock, F, f)
    BY <1>5 DEF Each
  <2>2. FlatMap(f, calls) = [k \in DOMAIN calls |-> F[calls[k]]]
    BY <1>13, <2>1, FlatMapEach
  <2>3. \A k \in DOMAIN calls : calls[k] \in CallBlock
    BY <1>13
  <2> QED
    BY <1>5, <2>2, <2>3 DEF Ids
<1>19. FlatMap(g, results) = ResultIds(results)
  <2>1. Each(ResultBlock, G, g)
    BY <1>5 DEF Each
  <2>2. FlatMap(g, results) = [k \in DOMAIN results |-> G[results[k]]]
    BY <1>13, <2>1, FlatMapEach
  <2>3. \A k \in DOMAIN results : results[k] \in ResultBlock
    BY <1>13
  <2> QED
    BY <1>5, <2>2, <2>3 DEF ResultIds
<1>20. ToolUses(s) = calls /\ Select(s, IsResult) = results
  BY <1>12, SelectionsAre
<1> QED
  BY <1>12, <1>16, <1>17, <1>18, <1>19, <1>20

LEMMA NoIds == Ids(<<>>) = <<>> /\ ResultIds(<<>>) = <<>>
BY DEF Ids, ResultIds

\* The ids of the calls, and of the results, through the items of Codex.
LEMMA CallIdsCarry == Carries(STRING, CodexCall, NoText, CallId)
<1>0. ASSUME NEW x \in STRING PROVE <<x>> \in Seq(STRING)
  BY OneOf
<1>1. /\ \A i \in TextItem \union OutputOfCall \union ReasoningItem : i \in InputItem /\ ~IsCallItem(i)
      /\ \A i \in FunctionItem : i \in InputItem /\ IsCallItem(i) /\ i.call_id \in STRING
  BY ItemKinds DEF InputItem, IsCallItem
<1>2. \A i \in TextItem \union OutputOfCall \union ReasoningItem : CodexCall[i] = <<>>
  BY <1>1 DEF CodexCall
<1>3. \A i \in FunctionItem : CodexCall[i] = <<i.call_id>>
  BY <1>1 DEF CodexCall
<1>4. ASSUME NEW i \in InputItem PROVE CodexCall[i] \in Seq(STRING)
  <2>1. CASE i \in FunctionItem
    <3>1. PICK x \in STRING : x = i.call_id
      BY <1>1, <2>1
    <3> QED
      BY <1>0, <1>3, <2>1, <3>1
  <2>2. CASE i \notin FunctionItem
    <3>1. CodexCall[i] = <<>>
      BY <1>2, <2>2 DEF InputItem
    <3>2. <<>> \in Seq(STRING)
      OBVIOUS
    <3> QED
      BY <3>1, <3>2
  <2> QED
    BY <2>1, <2>2
<1>5. NoText \in Conversion(Seq(Fragment), STRING) /\ \A t \in Seq(Fragment) : NoText[t] = <<>>
  <2>1. <<>> \in Seq(STRING)
    OBVIOUS
  <2> QED
    BY <2>1 DEF NoText, Conversion
<1>6. <<>> \in Seq(Fragment)
  OBVIOUS
<1>7. ASSUME NEW role \in {"assistant", "user"}, NEW parts \in Parts
      PROVE  CodexCall[MessageItem(role, parts)] = FlatMap(NoText, parts)
  <2>1. MessageItem(role, parts) \in TextItem
    BY DEF MessageItem, TextItem
  <2>2. parts \in Seq(Seq(Fragment))
    BY DEF Parts
  <2>3. \A t \in Seq(Fragment) : NoText[t] = <<>>
    BY <1>5
  <2>4. FlatMap(NoText, parts) = <<>>
    BY <2>2, <2>3, FlatMapNothing
  <2> QED
    BY <1>2, <2>1, <2>4
<1>8. \A b \in TextBlock : CallId[b] = <<>> /\ b.text \in Seq(Fragment)
  <2>1. \A b \in TextBlock : b \in AnyBlock /\ ~IsCall(b)
    BY KindsDiffer, BlockKinds
  <2>2. \A b \in TextBlock : b.text \in Seq(Fragment)
    BY DEF TextBlock
  <2> QED
    BY <2>1, <2>2 DEF CallId
<1>9. ASSUME NEW b \in CallBlock PROVE CallId[b] = CodexCall[CallItem(b)]
  <2>1. CallItem(b) \in FunctionItem /\ CallItem(b).call_id = b.id
    BY DEF CallItem, FunctionItem, CallBlock
  <2>2. b \in AnyBlock /\ IsCall(b)
    BY KindsDiffer, BlockKinds
  <2> QED
    BY <1>3, <2>1, <2>2 DEF CallId
<1>10. ASSUME NEW b \in ResultBlock PROVE CallId[b] = CodexCall[ResultItem(b)]
  <2>1. ResultItem(b) \in OutputOfCall
    BY DEF ResultItem, OutputOfCall, ResultBlock
  <2>2. b \in AnyBlock /\ ~IsCall(b)
    BY KindsDiffer, BlockKinds
  <2> QED
    BY <1>2, <2>1, <2>2 DEF CallId
<1>11. ASSUME NEW b \in OpaqueBlock
       PROVE  CallId[b] = IF b.data.encrypted THEN CodexCall[b.data] ELSE <<>>
  <2>1. b.data \in ReasoningItem
    BY DEF OpaqueBlock
  <2>2. b \in AnyBlock /\ ~IsCall(b)
    BY KindsDiffer, BlockKinds
  <2> QED
    BY <1>2, <2>1, <2>2 DEF CallId
<1>12. \A b \in TextBlock : CallId[b] = NoText[b.text]
  BY <1>5, <1>8
<1> QED
  BY <1>4, <1>5, <1>6, <1>7, <1>9, <1>10, <1>11, <1>12 DEF Carries

LEMMA ResultIdsCarry == Carries(STRING, CodexResult, NoText, ResultId)
<1>0. ASSUME NEW x \in STRING PROVE <<x>> \in Seq(STRING)
  BY OneOf
<1>1. /\ \A i \in TextItem \union FunctionItem \union ReasoningItem :
            i \in InputItem /\ i.type # "function_call_output"
      /\ \A i \in OutputOfCall : i \in InputItem /\ i.type = "function_call_output" /\ i.call_id \in STRING
  BY ItemKinds DEF InputItem
<1>2. \A i \in TextItem \union FunctionItem \union ReasoningItem : CodexResult[i] = <<>>
  BY <1>1 DEF CodexResult
<1>3. \A i \in OutputOfCall : CodexResult[i] = <<i.call_id>>
  BY <1>1 DEF CodexResult
<1>4. ASSUME NEW i \in InputItem PROVE CodexResult[i] \in Seq(STRING)
  <2>1. CASE i \in OutputOfCall
    <3>1. PICK x \in STRING : x = i.call_id
      BY <1>1, <2>1
    <3> QED
      BY <1>0, <1>3, <2>1, <3>1
  <2>2. CASE i \notin OutputOfCall
    <3>1. CodexResult[i] = <<>>
      BY <1>2, <2>2 DEF InputItem
    <3>2. <<>> \in Seq(STRING)
      OBVIOUS
    <3> QED
      BY <3>1, <3>2
  <2> QED
    BY <2>1, <2>2
<1>5. NoText \in Conversion(Seq(Fragment), STRING) /\ \A t \in Seq(Fragment) : NoText[t] = <<>>
  <2>1. <<>> \in Seq(STRING)
    OBVIOUS
  <2> QED
    BY <2>1 DEF NoText, Conversion
<1>6. <<>> \in Seq(Fragment)
  OBVIOUS
<1>7. ASSUME NEW role \in {"assistant", "user"}, NEW parts \in Parts
      PROVE  CodexResult[MessageItem(role, parts)] = FlatMap(NoText, parts)
  <2>1. MessageItem(role, parts) \in TextItem
    BY DEF MessageItem, TextItem
  <2>2. parts \in Seq(Seq(Fragment))
    BY DEF Parts
  <2>3. \A t \in Seq(Fragment) : NoText[t] = <<>>
    BY <1>5
  <2>4. FlatMap(NoText, parts) = <<>>
    BY <2>2, <2>3, FlatMapNothing
  <2> QED
    BY <1>2, <2>1, <2>4
<1>8. \A b \in TextBlock : ResultId[b] = <<>> /\ b.text \in Seq(Fragment)
  <2>1. \A b \in TextBlock : b \in AnyBlock /\ ~IsResult(b)
    BY KindsDiffer, BlockKinds
  <2>2. \A b \in TextBlock : b.text \in Seq(Fragment)
    BY DEF TextBlock
  <2> QED
    BY <2>1, <2>2 DEF ResultId
<1>9. ASSUME NEW b \in CallBlock PROVE ResultId[b] = CodexResult[CallItem(b)]
  <2>1. CallItem(b) \in FunctionItem
    BY DEF CallItem, FunctionItem, CallBlock
  <2>2. b \in AnyBlock /\ ~IsResult(b)
    BY KindsDiffer, BlockKinds
  <2> QED
    BY <1>2, <2>1, <2>2 DEF ResultId
<1>10. ASSUME NEW b \in ResultBlock PROVE ResultId[b] = CodexResult[ResultItem(b)]
  <2>1. ResultItem(b) \in OutputOfCall /\ ResultItem(b).call_id = b.tool_use_id
    BY DEF ResultItem, OutputOfCall, ResultBlock
  <2>2. b \in AnyBlock /\ IsResult(b)
    BY KindsDiffer, BlockKinds
  <2> QED
    BY <1>3, <2>1, <2>2 DEF ResultId
<1>11. ASSUME NEW b \in OpaqueBlock
       PROVE  ResultId[b] = IF b.data.encrypted THEN CodexResult[b.data] ELSE <<>>
  <2>1. b.data \in ReasoningItem
    BY DEF OpaqueBlock
  <2>2. b \in AnyBlock /\ ~IsResult(b)
    BY KindsDiffer, BlockKinds
  <2> QED
    BY <1>2, <2>1, <2>2 DEF ResultId
<1>12. \A b \in TextBlock : ResultId[b] = NoText[b.text]
  BY <1>5, <1>8
<1> QED
  BY <1>4, <1>5, <1>6, <1>7, <1>9, <1>10, <1>11, <1>12 DEF Carries

\* What Codex is sent has the ids the transcript has.
LEMMA CodexIds ==
    ASSUME NEW ms \in Seq(Fitting("codex")),
           NEW calls, calls = [m \in Fitting("codex") |-> Ids(ToolUses(m.content))],
           NEW results, results = [m \in Fitting("codex") |-> ResultIds(Select(m.content, IsResult))]
    PROVE  /\ CodexInput(ms) \in Seq(InputItem)
           /\ FlatMap(CodexCall, CodexInput(ms)) = FlatMap(calls, ms)
           /\ FlatMap(CodexResult, CodexInput(ms)) = FlatMap(results, ms)
<1>1. PICK C : C = Fitting("codex")
  OBVIOUS
<1>2. \A m \in C : m.content \in Seq(AnyBlock)
  BY <1>1, FittingIs
<1>3. PICK c : c = [m \in C |-> FlatMap(CallId, m.content)]
  OBVIOUS
<1>4. PICK r : r = [m \in C |-> FlatMap(ResultId, m.content)]
  OBVIOUS
<1>5. \A m \in C : c[m] = calls[m] /\ r[m] = results[m]
  BY <1>1, <1>2, <1>3, <1>4, IdsAre
<1>6. c = calls /\ r = results
  BY <1>1, <1>3, <1>4, <1>5
<1>7. /\ CodexInput(ms) \in Seq(InputItem)
      /\ FlatMap(CodexCall, CodexInput(ms)) = FlatMap(c, ms)
  BY <1>1, <1>3, CallIdsCarry, CodexCarries
<1>8. FlatMap(CodexResult, CodexInput(ms)) = FlatMap(r, ms)
  BY <1>1, <1>4, ResultIdsCarry, CodexCarries
<1> QED
  BY <1>6, <1>7, <1>8

-----------------------------------------------------------------------------
\* What Codex is sent has the same ids of calls and results.
CodexPaired(ms) ==
    FlatMap([m \in Fitting("codex") |-> Ids(ToolUses(m.content))], ms)
    = FlatMap([m \in Fitting("codex") |-> ResultIds(Select(m.content, IsResult))], ms)

LEMMA CodexPairedIs ==
    ASSUME adapter = "codex", NEW ms \in Seq(Fitting("codex"))
    PROVE  CallsAnsweredNext(ToWire(ms)) <=> CodexPaired(ms)
<1>1. PICK calls : calls = [m \in Fitting("codex") |-> Ids(ToolUses(m.content))]
  OBVIOUS
<1>2. PICK results : results = [m \in Fitting("codex") |-> ResultIds(Select(m.content, IsResult))]
  OBVIOUS
<1>3. PICK w : w = CodexInput(ms)
  OBVIOUS
<1>4. /\ w \in Seq(InputItem)
      /\ FlatMap(CodexCall, w) = FlatMap(calls, ms)
      /\ FlatMap(CodexResult, w) = FlatMap(results, ms)
  BY <1>1, <1>2, <1>3, CodexIds
<1>5. ToWire(ms) = w
  BY <1>3 DEF ToWire
<1>6. CallsAnsweredNext(w) <=> FlatMap(CodexCall, w) = FlatMap(CodexResult, w)
  BY <1>4, CodexNext
<1> QED
  BY <1>1, <1>2, <1>4, <1>5, <1>6 DEF CodexPaired

LEMMA IdsConvert ==
    ASSUME NEW ad
    PROVE  /\ [m \in Fitting(ad) |-> Ids(ToolUses(m.content))] \in Conversion(Fitting(ad), STRING)
           /\ [m \in Fitting(ad) |-> ResultIds(Select(m.content, IsResult))] \in Conversion(Fitting(ad), STRING)
<1>1. PICK C : C = Fitting(ad)
  OBVIOUS
<1>2. ASSUME NEW m \in C
      PROVE  Ids(ToolUses(m.content)) \in Seq(STRING) /\ ResultIds(Select(m.content, IsResult)) \in Seq(STRING)
  <2>1. PICK s \in Seq(AnyBlock) : s = m.content
    BY <1>1, FittingIs
  <2>2. CallId \in Conversion(AnyBlock, STRING) /\ ResultId \in Conversion(AnyBlock, STRING)
    <3>1. /\ \A b \in AnyBlock : IsCall(b) => b.id \in STRING
          /\ \A b \in AnyBlock : IsResult(b) => b.tool_use_id \in STRING
      <4>1. /\ \A b \in AnyBlock : IsCall(b) => b \in CallBlock
            /\ \A b \in AnyBlock : IsResult(b) => b \in ResultBlock
        BY KindsDiffer DEF AnyBlock
      <4> QED
        BY <4>1 DEF CallBlock, ResultBlock
    <3>2. ASSUME NEW b \in AnyBlock
          PROVE  (IF IsCall(b) THEN <<b.id>> ELSE <<>>) \in Seq(STRING)
      <4>1. IsCall(b) => <<b.id>> \in Seq(STRING)
        BY <3>1, OneOf
      <4>2. <<>> \in Seq(STRING)
        OBVIOUS
      <4> QED
        BY <4>1, <4>2
    <3>3. ASSUME NEW b \in AnyBlock
          PROVE  (IF IsResult(b) THEN <<b.tool_use_id>> ELSE <<>>) \in Seq(STRING)
      <4>1. IsResult(b) => <<b.tool_use_id>> \in Seq(STRING)
        BY <3>1, OneOf
      <4>2. <<>> \in Seq(STRING)
        OBVIOUS
      <4> QED
        BY <4>1, <4>2
    <3> QED
      BY <3>2, <3>3 DEF CallId, ResultId, Conversion
  <2>3. FlatMap(CallId, s) \in Seq(STRING) /\ FlatMap(ResultId, s) \in Seq(STRING)
    BY <2>2, FlatMapIs
  <2> QED
    BY <2>1, <2>3, IdsAre
<1>3. [m \in C |-> Ids(ToolUses(m.content))] \in [C -> Seq(STRING)]
  BY <1>2
<1>4. [m \in C |-> ResultIds(Select(m.content, IsResult))] \in [C -> Seq(STRING)]
  BY <1>2
<1> QED
  BY <1>1, <1>3, <1>4 DEF Conversion

-----------------------------------------------------------------------------
\* One transcript after the other.
LEMMA AnsweredMore ==
    ASSUME adapter \in {"anthropic", "compatible", "codex", "openrouter"},
           NEW ms \in Seq(Fitting(adapter)), NEW xs \in Seq(Fitting(adapter)),
           CallsAnsweredNext(ToWire(ms)), CallsAnsweredNext(ToWire(xs))
    PROVE  CallsAnsweredNext(ToWire(ms \o xs))
<1>1. PICK ad, C : ad = adapter /\ C = Fitting(adapter)
  OBVIOUS
<1>2. ms \in Seq(C) /\ xs \in Seq(C)
  BY <1>1
<1>3. PICK both : both = ms \o xs
  OBVIOUS
<1>4. both \in Seq(C)
  BY <1>2, <1>3
<1>5. CASE ad \in {"anthropic", "compatible"}
  <2>1. PICK g : g = [m \in C |-> AnthropicSent(m)]
    OBVIOUS
  <2>2. g \in Conversion(C, C)
    BY <1>1, <1>2, <1>5, <2>1, AnthropicWireIs
  <2>3. ASSUME NEW s \in Seq(C) PROVE ToWire(s) = FlatMap(g, s)
    <3>1. AnthropicWire(s) = FlatMap(g, s)
      BY <1>1, <1>5, <2>1, AnthropicWireIs
    <3> QED
      BY <1>1, <1>5, <3>1 DEF ToWire
  <2>4. PICK v, w : v = FlatMap(g, ms) /\ w = FlatMap(g, xs)
    OBVIOUS
  <2>5. v \in Seq(C) /\ w \in Seq(C)
    BY <1>2, <2>2, <2>4, FlatMapIs
  <2>6. FlatMap(g, both) = v \o w
    <3>1. FlatMap(g, ms \o xs) = FlatMap(g, ms) \o FlatMap(g, xs)
      BY <1>2, <2>2, FlatMapBoth
    <3> QED
      BY <1>3, <2>4, <3>1, Zenon
  <2>7. C \subseteq Message
    BY <1>1, FittingIs
  <2>8. v \in Seq(Message) /\ w \in Seq(Message)
    BY <2>5, <2>7, SeqWider
  <2>9. NextHas(AnthropicCalls, AnthropicResults, v) /\ NextHas(AnthropicCalls, AnthropicResults, w)
    <3>1. CallsAnsweredNext(v) /\ CallsAnsweredNext(w)
      BY <1>2, <2>3, <2>4
    <3> QED
      BY <1>1, <1>5, <2>8, <3>1, AnthropicNext
  <2>10. NextHas(AnthropicCalls, AnthropicResults, v \o w)
    BY <2>8, <2>9, NextHasMore
  <2>11. v \o w \in Seq(Message)
    BY <2>8
  <2>12. CallsAnsweredNext(v \o w)
    BY <1>1, <1>5, <2>10, <2>11, AnthropicNext
  <2> QED
    BY <1>3, <1>4, <2>3, <2>6, <2>12
<1>6. CASE ad = "openrouter"
  <2>1. PICK g : g = [m \in C |-> ChatMessages(m)]
    OBVIOUS
  <2>2. g \in Conversion(C, WireMessage)
    BY <1>1, <1>2, <1>6, <2>1, ChatWireIs
  <2>3. ASSUME NEW s \in Seq(C) PROVE ToWire(s) = FlatMap(g, s)
    <3>1. ChatWire(s) = FlatMap(g, s)
      BY <1>1, <1>6, <2>1, ChatWireIs
    <3> QED
      BY <1>1, <1>6, <3>1 DEF ToWire
  <2>4. PICK v, w : v = FlatMap(g, ms) /\ w = FlatMap(g, xs)
    OBVIOUS
  <2>5. v \in Seq(WireMessage) /\ w \in Seq(WireMessage)
    BY <1>2, <2>2, <2>4, FlatMapIs
  <2>6. FlatMap(g, both) = v \o w
    <3>1. FlatMap(g, ms \o xs) = FlatMap(g, ms) \o FlatMap(g, xs)
      BY <1>2, <2>2, FlatMapBoth
    <3> QED
      BY <1>3, <2>4, <3>1, Zenon
  <2>9. FollowedBy(ChatCalls, ChatResults, v) /\ FollowedBy(ChatCalls, ChatResults, w)
    <3>1. CallsAnsweredNext(v) /\ CallsAnsweredNext(w)
      BY <1>2, <2>3, <2>4
    <3> QED
      BY <1>1, <1>6, <2>5, <3>1, ChatNext
  <2>10. FollowedBy(ChatCalls, ChatResults, v \o w)
    <3>1. \A m \in WireMessage : ChatCalls[m] \in Seq(STRING)
      BY ChatCallsAre
    <3> QED
      BY <2>5, <2>9, <3>1, FollowedByMore
  <2>11. v \o w \in Seq(WireMessage)
    BY <2>5
  <2>12. CallsAnsweredNext(v \o w)
    BY <1>1, <1>6, <2>10, <2>11, ChatNext
  <2> QED
    BY <1>3, <1>4, <2>3, <2>6, <2>12
<1>7. CASE ad = "codex"
  <2>1. C = Fitting("codex") /\ adapter = "codex"
    BY <1>1, <1>7
  <2>2. PICK c : c = [m \in C |-> Ids(ToolUses(m.content))]
    OBVIOUS
  <2>3. PICK r : r = [m \in C |-> ResultIds(Select(m.content, IsResult))]
    OBVIOUS
  <2>4. c \in Conversion(C, STRING) /\ r \in Conversion(C, STRING)
    BY <1>1, <2>2, <2>3, IdsConvert
  <2>5. ASSUME NEW s \in Seq(C) PROVE CallsAnsweredNext(ToWire(s)) <=> FlatMap(c, s) = FlatMap(r, s)
    BY <2>1, <2>2, <2>3, CodexPairedIs DEF CodexPaired
  <2>6. FlatMap(c, ms) = FlatMap(r, ms) /\ FlatMap(c, xs) = FlatMap(r, xs)
    BY <1>2, <2>5
  <2>7. FlatMap(c, both) = FlatMap(c, ms) \o FlatMap(c, xs)
    BY <1>2, <1>3, <2>4, FlatMapBoth
  <2>8. FlatMap(r, both) = FlatMap(r, ms) \o FlatMap(r, xs)
    BY <1>2, <1>3, <2>4, FlatMapBoth
  <2> QED
    BY <1>3, <1>4, <2>5, <2>6, <2>7, <2>8
<1> QED
  BY <1>1, <1>5, <1>6, <1>7

-----------------------------------------------------------------------------
\* What the loop appends: a message without calls and results, or a response
\* with calls and their results.
Quiet(ad, m) ==
    /\ m \in Fitting(ad)
    /\ ToolUses(m.content) = <<>> /\ Select(m.content, IsResult) = <<>>

Exchange(ad, a, r) ==
    /\ a \in [role : {"assistant"}, content : ResponseContent(ad)]
    /\ r \in [role : {"user"}, content : Seq(ResultBlock)]
    /\ ToolUses(a.content) # <<>>
    /\ Ids(ToolUses(a.content)) = ResultIds(r.content)

LEMMA ExchangeIs ==
    ASSUME NEW ad, NEW a, NEW r, Exchange(ad, a, r)
    PROVE  /\ a \in Fitting(ad) /\ r \in Fitting(ad)
           /\ Select(a.content, IsResult) = <<>>
           /\ Select(r.content, IsResult) = r.content /\ ToolUses(r.content) = <<>>
           /\ a.content # <<>> /\ r.content # <<>>
           /\ Ids(ToolUses(a.content)) # <<>>
<1>1. PICK ac, rc : ac = a.content /\ rc = r.content
  OBVIOUS
<1>2. ac \in ResponseContent(ad) /\ rc \in Seq(ResultBlock)
  BY <1>1 DEF Exchange
<1>3. ac \in Seq(ContentBlock)
  BY <1>2, ResponseContentIs
<1>4. a \in Fitting(ad) /\ r \in Fitting(ad)
  BY DEF Exchange, Fitting, UserMessage
<1>5. Select(ac, IsResult) = <<>>
  <2>1. ac \in Seq(AnyBlock)
    BY <1>3, BlockKinds, SeqWider
  <2>2. \A b \in ContentBlock : IfResult[b] = <<>>
    BY SelectionsOf DEF ContentBlock
  <2>3. FlatMap(IfResult, ac) = <<>>
    BY <1>3, <2>2, FlatMapNothing
  <2> QED
    BY <2>1, <2>3, SelectionsAre
<1>6. Select(rc, IsResult) = rc /\ ToolUses(rc) = <<>>
  BY <1>2, ResultsOnly
<1>7. PICK calls : calls = ToolUses(ac)
  OBVIOUS
<1>8. calls \in Seq(CallBlock) /\ calls # <<>> /\ Ids(calls) = ResultIds(rc)
  <2>1. \A b \in ContentBlock : IsCall(b) => b \in CallBlock
    BY KindsDiffer DEF ContentBlock
  <2>2. calls \in Seq(CallBlock)
    BY <1>3, <1>7, <2>1, CallsOf
  <2> QED
    BY <1>1, <1>7, <2>2 DEF Exchange
<1>9. Ids(calls) # <<>>
  <2>1. DOMAIN calls # {}
    <3>1. PICK n \in Nat : n = Len(calls) /\ DOMAIN calls = 1 .. n
      BY <1>8
    <3>2. n # 0
      BY <1>8, <3>1
    <3>3. 1 \in 1 .. n
      BY <3>2
    <3> QED
      BY <3>1, <3>3
  <2>2. DOMAIN Ids(calls) = DOMAIN calls
    BY DEF Ids
  <2>3. DOMAIN <<>> = {}
    OBVIOUS
  <2> QED
    BY <2>1, <2>2, <2>3
<1>10. rc # <<>>
  BY <1>8, <1>9, NoIds
<1>11. ac # <<>>
  <2>1. ToolUses(<<>>) = <<>>
    <3>1. <<>> \in Seq(TextBlock)
      OBVIOUS
    <3> QED
      BY <3>1, TextsOnly
  <2> QED
    BY <1>7, <1>8, <2>1
<1> QED
  BY <1>1, <1>4, <1>5, <1>6, <1>7, <1>9, <1>10, <1>11

LEMMA AppendedOne ==
    ASSUME NEW S, NEW a \in S, NEW b \in S PROVE Append(<<a>>, b) = <<a, b>>
<1>1. PICK s, v : s = <<a>> /\ v = <<a, b>>
  OBVIOUS
<1>2. s \in Seq(S) /\ Len(s) = 1 /\ s[1] = a
  BY <1>1
<1>3. v \in Seq(S) /\ Len(v) = 2 /\ v[1] = a /\ v[2] = b
  BY <1>1
<1>4. Append(s, b) \in Seq(S)
  BY <1>2
<1>5. PICK u : u = Append(s, b)
  OBVIOUS
<1>6. u \in Seq(S) /\ Len(u) = 2 /\ u[1] = a /\ u[2] = b
  <2>1. s \in Seq(S)
    BY <1>2
  <2>2. Len(Append(s, b)) = Len(s) + 1
    BY <2>1
  <2>3. \A i \in 1 .. Len(s) : Append(s, b)[i] = s[i]
    BY <2>1
  <2>4. Append(s, b)[Len(s) + 1] = b
    BY <2>1
  <2>5. 1 \in 1 .. Len(s) /\ Len(s) + 1 = 2
    BY <1>2
  <2> QED
    BY <1>2, <1>4, <1>5, <2>2, <2>3, <2>4, <2>5
<1>7. u[1] = a /\ u[2] = b
  BY <1>6
<1>8. DOMAIN u = 1 .. 2 /\ DOMAIN v = 1 .. 2
  BY <1>3, <1>6
<1>9. u = [k \in 1 .. 2 |-> u[k]] /\ v = [k \in 1 .. 2 |-> v[k]]
  BY <1>3, <1>6, <1>8
<1>10. \A k \in 1 .. 2 : u[k] = v[k]
  BY <1>3, <1>7
<1>11. u = v
  BY <1>9, <1>10
<1> QED
  BY <1>1, <1>5, <1>11

\* Two messages, one after the other.
LEMMA FlatMapTwo ==
    ASSUME NEW S, NEW T, NEW f \in Conversion(S, T), NEW a \in S, NEW b \in S
    PROVE  FlatMap(f, <<a, b>>) = f[a] \o f[b]
<1>1. PICK s : s = <<a>>
  OBVIOUS
<1>2. s \in Seq(S)
  BY <1>1
<1>3. Append(s, b) = <<a, b>>
  BY <1>1, AppendedOne
<1>4. FlatMap(f, s) = f[a]
  BY <1>1, FlatMapOne
<1>5. FlatMap(f, Append(s, b)) = FlatMap(f, s) \o f[b]
  BY <1>2, FlatMapMore
<1> QED
  BY <1>3, <1>4, <1>5

LEMMA JoinedOnes ==
    ASSUME NEW S, NEW a \in S, NEW b \in S, NEW w, w = <<a>> \o <<b>>
    PROVE  w \in Seq(S) /\ Len(w) = 2 /\ DOMAIN w = 1 .. 2 /\ w[1] = a /\ w[2] = b
<1>1. PICK s, t : s = <<a>> /\ t = <<b>>
  OBVIOUS
<1>2. s \in Seq(S) /\ Len(s) = 1 /\ s[1] = a
  BY <1>1
<1>3. t \in Seq(S) /\ Len(t) = 1 /\ t[1] = b
  BY <1>1
<1>4. w = s \o t
  BY <1>1
<1>5. s \in Seq(S)
  BY <1>2
<1>6. t \in Seq(S)
  BY <1>3
<1>7. s \o t \in Seq(S)
  BY <1>5, <1>6
<1>8. Len(s \o t) = Len(s) + Len(t)
  BY <1>5, <1>6
<1>9. \A i \in 1 .. Len(s) : (s \o t)[i] = s[i]
  BY <1>5, <1>6
<1>10. \A i \in 1 .. Len(t) : (s \o t)[Len(s) + i] = t[i]
  BY <1>5, <1>6
<1>11. 1 \in 1 .. Len(s) /\ 1 \in 1 .. Len(t) /\ Len(s) + 1 = 2 /\ Len(s) + Len(t) = 2
  BY <1>2, <1>3
<1>12. Len(w) = 2 /\ w[1] = a /\ w[2] = b
  BY <1>2, <1>3, <1>4, <1>8, <1>9, <1>10, <1>11
<1> QED
  BY <1>4, <1>7, <1>12

-----------------------------------------------------------------------------
LEMMA QuietAnthropic ==
    ASSUME adapter \in {"anthropic", "compatible"}, NEW m, Quiet(adapter, m)
    PROVE  CallsAnsweredNext(ToWire(<<m>>))
<1>1. PICK ad, C : ad = adapter /\ C = Fitting(adapter)
  OBVIOUS
<1>2. PICK ms : ms = <<m>>
  OBVIOUS
<1>3. m \in C /\ ToolUses(m.content) = <<>>
  BY <1>1 DEF Quiet
<1>4. ms \in Seq(C)
  BY <1>2, <1>3, OneOf
<1>5. PICK g : g = [x \in C |-> AnthropicSent(x)]
  OBVIOUS
<1>6. AnthropicWire(ms) = FlatMap(g, ms) /\ g \in Conversion(C, C)
  BY <1>1, <1>4, <1>5, AnthropicWireIs
<1>7. FlatMap(g, ms) = g[m]
  BY <1>2, <1>3, <1>6, FlatMapOne
<1>8. PICK w : w = g[m]
  OBVIOUS
<1>9. w = AnthropicSent(m)
  BY <1>3, <1>5, <1>8
<1>10. ToWire(ms) = w
  BY <1>6, <1>7, <1>8 DEF ToWire
<1>11. m \in Message
  BY <1>1, <1>3, FittingIs
<1>12. AnthropicCalls[m] = <<>>
  BY <1>3, <1>11, NoIds DEF AnthropicCalls
<1>13. CASE m.content = <<>>
  <2>1. w = <<>>
    BY <1>9, <1>13 DEF AnthropicSent
  <2>2. w \in Seq(Message) /\ DOMAIN w = {}
    BY <2>1
  <2>3. NextHas(AnthropicCalls, AnthropicResults, w)
    BY <2>2 DEF NextHas
  <2> QED
    BY <1>2, <1>10, <2>2, <2>3, AnthropicNext
<1>14. CASE m.content # <<>>
  <2>1. w = <<[role |-> m.role, content |-> m.content]>>
    BY <1>9, <1>14 DEF AnthropicSent
  <2>2. [role |-> m.role, content |-> m.content] = m
    BY <1>11 DEF Message
  <2>3. w = <<m>>
    BY <2>1, <2>2
  <2>4. w \in Seq(Message)
    BY <1>11, <2>3, OneOf
  <2>5. DOMAIN w = {1} /\ w[1] = m
    BY <2>3
  <2>6. NextHas(AnthropicCalls, AnthropicResults, w)
    BY <1>12, <2>5 DEF NextHas
  <2> QED
    BY <1>2, <1>10, <2>4, <2>6, AnthropicNext
<1> QED
  BY <1>13, <1>14

\* A quiet message is one of texts, or a response without calls.
LEMMA QuietChat ==
    ASSUME adapter = "openrouter", NEW m, Quiet("openrouter", m)
    PROVE  CallsAnsweredNext(ToWire(<<m>>))
<1>1. PICK C : C = Fitting("openrouter")
  OBVIOUS
<1>2. PICK ms : ms = <<m>>
  OBVIOUS
<1>3. m \in C /\ ToolUses(m.content) = <<>> /\ Select(m.content, IsResult) = <<>>
  BY <1>1 DEF Quiet
<1>4. ms \in Seq(C)
  BY <1>2, <1>3, OneOf
<1>5. PICK g : g = [x \in C |-> ChatMessages(x)]
  OBVIOUS
<1>6. ChatWire(ms) = FlatMap(g, ms) /\ g \in Conversion(C, WireMessage)
  BY <1>1, <1>4, <1>5, ChatWireIs
<1>7. FlatMap(g, ms) = g[m]
  BY <1>2, <1>3, <1>6, FlatMapOne
<1>8. PICK w : w = g[m]
  OBVIOUS
<1>9. w = ChatMessages(m)
  BY <1>3, <1>5, <1>8
<1>10. ToWire(ms) = w
  BY <1>6, <1>7, <1>8 DEF ToWire
<1>11. w \in Seq(WireMessage)
  BY <1>1, <1>3, <1>9, ChatMessageSays
<1>12. \E role, text : w = <<>> \/ w = <<ChatMessage(role, text, <<>>, NoCall)>>
  <2>1. CASE m \in UserMessage
    <3>1. PICK c : c = m.content
      OBVIOUS
    <3>2. m = [role |-> "user", content |-> c] /\ (c \in Seq(TextBlock) \/ c \in Seq(ResultBlock))
      BY <2>1, <3>1 DEF UserMessage
    <3>3. CASE c \in Seq(TextBlock)
      <4>1. ChatMessages(m) = IF c = <<>> THEN <<>> ELSE <<ChatMessage("user", TextOf(c), <<>>, NoCall)>>
        BY <3>2, <3>3, ChatPrompts
      <4> QED
        BY <1>9, <4>1
    <3>4. CASE c \in Seq(ResultBlock)
      <4>1. c = <<>>
        BY <1>3, <3>1, <3>4, ResultsOnly
      <4>2. c \in Seq(TextBlock)
        BY <4>1
      <4>3. ChatMessages(m) = IF c = <<>> THEN <<>> ELSE <<ChatMessage("user", TextOf(c), <<>>, NoCall)>>
        BY <3>2, <4>2, ChatPrompts
      <4> QED
        BY <1>9, <4>3
    <3> QED
      BY <3>2, <3>3, <3>4
  <2>2. CASE m \in [role : {"assistant"}, content : ResponseContent("openrouter")]
    <3>1. m = [role |-> "assistant", content |-> m.content] /\ m.content \in TextsThenCalls
      BY <2>2 DEF ResponseContent
    <3>2. PICK t \in Seq(TextBlock), c \in Seq(CallBlock) : m.content = t \o c
      BY <3>1 DEF TextsThenCalls
    <3>3. c = <<>>
      <4>1. ToolUses(t \o c) = c
        BY <3>2, TextThenCalls
      <4> QED
        BY <1>3, <3>2, <4>1
    <3>4. m = [role |-> "assistant", content |-> t \o c]
      BY <3>1, <3>2
    <3>5. ChatMessages(m) = IF t = <<>> /\ c = <<>> THEN <<>>
                            ELSE <<ChatMessage("assistant", TextOf(t), c, NoCall)>>
      BY <3>4, ChatTells
    <3> QED
      BY <1>9, <3>3, <3>5
  <2> QED
    BY <1>1, <1>3, <2>1, <2>2 DEF Fitting
<1>13. FollowedBy(ChatCalls, ChatResults, w)
  <2>1. ASSUME NEW k \in DOMAIN w PROVE ChatCalls[w[k]] = <<>>
    <3>1. w[k] \in WireMessage
      BY <1>11
    <3>2. PICK role, text : w = <<>> \/ w = <<ChatMessage(role, text, <<>>, NoCall)>>
      BY <1>12
    <3>3. w[k] = ChatMessage(role, text, <<>>, NoCall)
      BY <3>2
    <3>4. w[k].tool_calls = <<>>
      BY <3>3 DEF ChatMessage
    <3> QED
      BY <3>1, <3>4, NoIds DEF ChatCalls
  <2> QED
    BY <2>1 DEF FollowedBy
<1> QED
  BY <1>2, <1>10, <1>11, <1>13, ChatNext

LEMMA QuietCodex ==
    ASSUME adapter = "codex", NEW m, Quiet("codex", m)
    PROVE  CallsAnsweredNext(ToWire(<<m>>))
<1>1. PICK C : C = Fitting("codex")
  OBVIOUS
<1>2. PICK ms : ms = <<m>>
  OBVIOUS
<1>3. m \in C /\ ToolUses(m.content) = <<>> /\ Select(m.content, IsResult) = <<>>
  BY <1>1 DEF Quiet
<1>4. ms \in Seq(C)
  BY <1>2, <1>3, OneOf
<1>5. PICK c : c = [x \in C |-> Ids(ToolUses(x.content))]
  OBVIOUS
<1>6. PICK r : r = [x \in C |-> ResultIds(Select(x.content, IsResult))]
  OBVIOUS
<1>7. c \in Conversion(C, STRING) /\ r \in Conversion(C, STRING)
  BY <1>1, <1>5, <1>6, IdsConvert
<1>8. FlatMap(c, ms) = c[m] /\ FlatMap(r, ms) = r[m]
  BY <1>2, <1>3, <1>7, FlatMapOne
<1>9. c[m] = <<>> /\ r[m] = <<>>
  BY <1>3, <1>5, <1>6, NoIds
<1>10. CodexPaired(ms)
  BY <1>1, <1>5, <1>6, <1>8, <1>9 DEF CodexPaired
<1> QED
  BY <1>1, <1>2, <1>4, <1>10, CodexPairedIs

-----------------------------------------------------------------------------
LEMMA ExchangeAnthropic ==
    ASSUME adapter \in {"anthropic", "compatible"}, NEW a, NEW r, Exchange(adapter, a, r)
    PROVE  CallsAnsweredNext(ToWire(<<a, r>>))
<1>1. PICK ad, C : ad = adapter /\ C = Fitting(adapter)
  OBVIOUS
<1>2. PICK ms : ms = <<a, r>>
  OBVIOUS
<1>3. /\ a \in C /\ r \in C
      /\ Select(r.content, IsResult) = r.content /\ ToolUses(r.content) = <<>>
      /\ a.content # <<>> /\ r.content # <<>>
      /\ Ids(ToolUses(a.content)) = ResultIds(r.content)
  BY <1>1, ExchangeIs DEF Exchange
<1>4. ms \in Seq(C)
  BY <1>2, <1>3
<1>5. PICK g : g = [x \in C |-> AnthropicSent(x)]
  OBVIOUS
<1>6. AnthropicWire(ms) = FlatMap(g, ms) /\ g \in Conversion(C, C)
  BY <1>1, <1>4, <1>5, AnthropicWireIs
<1>7. FlatMap(g, ms) = g[a] \o g[r]
  BY <1>2, <1>3, <1>6, FlatMapTwo
<1>8. a \in Message /\ r \in Message
  BY <1>1, <1>3, FittingIs
<1>9. g[a] = <<a>> /\ g[r] = <<r>>
  <2>1. \A x \in Message : [role |-> x.role, content |-> x.content] = x
    BY DEF Message
  <2>2. g[a] = <<[role |-> a.role, content |-> a.content]>>
    BY <1>3, <1>5 DEF AnthropicSent
  <2>3. g[r] = <<[role |-> r.role, content |-> r.content]>>
    BY <1>3, <1>5 DEF AnthropicSent
  <2> QED
    BY <1>8, <2>1, <2>2, <2>3
<1>10. PICK w : w = <<a>> \o <<r>>
  OBVIOUS
<1>11. ToWire(ms) = w
  BY <1>6, <1>7, <1>9, <1>10 DEF ToWire
<1>12. w \in Seq(Message) /\ Len(w) = 2 /\ DOMAIN w = 1 .. 2 /\ w[1] = a /\ w[2] = r
  BY <1>8, <1>10, JoinedOnes
<1>13. AnthropicResults[r] = ResultIds(r.content) /\ AnthropicCalls[r] = <<>>
       /\ AnthropicCalls[a] = Ids(ToolUses(a.content))
  BY <1>3, <1>8, NoIds DEF AnthropicResults, AnthropicCalls
<1>14. NextHas(AnthropicCalls, AnthropicResults, w)
  <2>1. ASSUME NEW k \in 1 .. 2, AnthropicCalls[w[k]] # <<>>
        PROVE  k < 2 /\ AnthropicResults[w[k + 1]] = AnthropicCalls[w[k]]
    <3>1. k # 2
      BY <1>12, <1>13, <2>1
    <3>2. k = 1 /\ k + 1 = 2
      BY <3>1
    <3> QED
      BY <1>3, <1>12, <1>13, <3>2
  <2> QED
    BY <1>12, <2>1 DEF NextHas
<1> QED
  BY <1>2, <1>11, <1>12, <1>14, AnthropicNext

LEMMA ExchangeCodex ==
    ASSUME adapter = "codex", NEW a, NEW r, Exchange("codex", a, r)
    PROVE  CallsAnsweredNext(ToWire(<<a, r>>))
<1>1. PICK C : C = Fitting("codex")
  OBVIOUS
<1>2. PICK ms : ms = <<a, r>>
  OBVIOUS
<1>3. /\ a \in C /\ r \in C
      /\ Select(a.content, IsResult) = <<>>
      /\ Select(r.content, IsResult) = r.content /\ ToolUses(r.content) = <<>>
      /\ Ids(ToolUses(a.content)) = ResultIds(r.content)
  BY <1>1, ExchangeIs DEF Exchange
<1>4. ms \in Seq(C)
  BY <1>2, <1>3
<1>5. PICK c : c = [x \in C |-> Ids(ToolUses(x.content))]
  OBVIOUS
<1>6. PICK s : s = [x \in C |-> ResultIds(Select(x.content, IsResult))]
  OBVIOUS
<1>7. c \in Conversion(C, STRING) /\ s \in Conversion(C, STRING)
  BY <1>1, <1>5, <1>6, IdsConvert
<1>8. FlatMap(c, ms) = c[a] \o c[r] /\ FlatMap(s, ms) = s[a] \o s[r]
  BY <1>2, <1>3, <1>7, FlatMapTwo
<1>9. PICK ids \in Seq(STRING) : ids = c[a]
  BY <1>3, <1>7 DEF Conversion
<1>10. c[r] = <<>> /\ s[a] = <<>> /\ s[r] = ids
  BY <1>3, <1>5, <1>6, <1>9, NoIds
<1>11. ids \o <<>> = ids /\ <<>> \o ids = ids
  OBVIOUS
<1>12. CodexPaired(ms)
  BY <1>1, <1>5, <1>6, <1>8, <1>9, <1>10, <1>11 DEF CodexPaired
<1> QED
  BY <1>1, <1>2, <1>4, <1>12, CodexPairedIs

-----------------------------------------------------------------------------
\* The message with the calls is followed by a message for each.
LEMMA ExchangeChat ==
    ASSUME adapter = "openrouter", NEW a, NEW r, Exchange("openrouter", a, r)
    PROVE  CallsAnsweredNext(ToWire(<<a, r>>))
<1>1. PICK C : C = Fitting("openrouter")
  OBVIOUS
<1>2. PICK ms : ms = <<a, r>>
  OBVIOUS
<1>3. a \in C /\ r \in C
  BY <1>1, ExchangeIs
<1>4. ms \in Seq(C)
  BY <1>2, <1>3
<1>5. PICK g : g = [x \in C |-> ChatMessages(x)]
  OBVIOUS
<1>6. ChatWire(ms) = FlatMap(g, ms) /\ g \in Conversion(C, WireMessage)
  BY <1>1, <1>4, <1>5, ChatWireIs
<1>7. FlatMap(g, ms) = g[a] \o g[r]
  BY <1>2, <1>3, <1>6, FlatMapTwo
<1>8. PICK rc \in Seq(ResultBlock) : rc = r.content /\ r = [role |-> "user", content |-> rc]
  BY DEF Exchange
<1>9. a = [role |-> "assistant", content |-> a.content] /\ a.content \in TextsThenCalls
  BY DEF Exchange, ResponseContent
<1>10. PICK t \in Seq(TextBlock), c \in Seq(CallBlock) : a.content = t \o c
  <2>1. PICK ac : ac = a.content
    OBVIOUS
  <2>2. ac \in TextsThenCalls
    BY <1>9, <2>1
  <2>3. \E t \in Seq(TextBlock), c \in Seq(CallBlock) : ac = t \o c
    BY <2>2 DEF TextsThenCalls
  <2> QED
    BY <2>1, <2>3
<1>11. ToolUses(t \o c) = c
  BY TextThenCalls
<1>12. c # <<>> /\ Ids(c) = ResultIds(rc)
  BY <1>8, <1>10, <1>11 DEF Exchange
<1>13. PICK s : s = ChatMessage("assistant", TextOf(t), c, NoCall)
  OBVIOUS
<1>14. ChatMessages(a) = <<s>>
  <2>1. a = [role |-> "assistant", content |-> t \o c]
    BY <1>9, <1>10
  <2>2. ChatMessages(a) = IF t = <<>> /\ c = <<>> THEN <<>>
                          ELSE <<ChatMessage("assistant", TextOf(t), c, NoCall)>>
    BY <2>1, ChatTells
  <2> QED
    BY <1>12, <1>13, <2>2
<1>15. PICK rs : rs = [k \in DOMAIN rc |-> ToolMessage(rc[k])]
  OBVIOUS
<1>16. ChatMessages(r) = rs
  BY <1>8, <1>15, ChatAnswers
<1>17. rs \in Seq(WireMessage) /\ <<s>> \in Seq(WireMessage)
  <2>1. ChatMessages(a) \in Seq(WireMessage) /\ ChatMessages(r) \in Seq(WireMessage)
    BY <1>1, <1>3, ChatMessageSays
  <2> QED
    BY <1>14, <1>16, <2>1
<1>18. PICK first \in Seq(WireMessage) : first = <<s>> /\ Len(first) = 1 /\ first[1] = s
  BY <1>17
<1>19. PICK n \in Nat : n = Len(rc) /\ DOMAIN rc = 1 .. n
  OBVIOUS
<1>20. DOMAIN rs = 1 .. n /\ Len(rs) = n
  BY <1>15, <1>17, <1>19
<1>21. PICK w : w = first \o rs
  OBVIOUS
<1>22. w \in Seq(WireMessage) /\ Len(w) = 1 + n /\ DOMAIN w = 1 .. 1 + n
  <2>1. first \o rs \in Seq(WireMessage) /\ Len(first \o rs) = Len(first) + Len(rs)
    BY <1>17
  <2> QED
    BY <1>18, <1>20, <1>21, <2>1
<1>23. w[1] = s
  <2>1. \A i \in 1 .. Len(first) : (first \o rs)[i] = first[i]
    BY <1>17
  <2>2. 1 \in 1 .. Len(first)
    BY <1>18
  <2> QED
    BY <1>18, <1>21, <2>1, <2>2
<1>24. \A i \in 1 .. n : w[1 + i] = rs[i]
  <2>1. \A i \in 1 .. Len(rs) : (first \o rs)[Len(first) + i] = rs[i]
    BY <1>17
  <2> QED
    BY <1>18, <1>20, <1>21, <2>1
<1>25. ToWire(ms) = w
  BY <1>3, <1>5, <1>6, <1>7, <1>14, <1>16, <1>18, <1>21 DEF ToWire
<1>26. PICK calls \in Seq(STRING) : calls = Ids(c) /\ ChatCalls[s] = calls
  <2>1. s \in WireMessage
    BY <1>18, <1>22, <1>23
  <2>2. ChatCalls[s] \in Seq(STRING)
    BY <2>1, ChatCallsAre
  <2>3. ChatCalls[s] = Ids(c)
    BY <1>13, <2>1 DEF ChatCalls, ChatMessage
  <2> QED
    BY <2>2, <2>3
<1>27. Len(calls) = n /\ DOMAIN calls = 1 .. n /\ \A i \in 1 .. n : calls[i] = rc[i].tool_use_id
  <2>1. calls = ResultIds(rc)
    BY <1>12, <1>26
  <2>2. DOMAIN calls = 1 .. n /\ \A i \in 1 .. n : calls[i] = rc[i].tool_use_id
    BY <1>19, <2>1 DEF ResultIds
  <2>3. Len(calls) = n
    BY <1>26, <2>2
  <2> QED
    BY <2>2, <2>3
<1>28. ASSUME NEW i \in 1 .. n
       PROVE  ChatCalls[w[1 + i]] = <<>> /\ ChatResults[w[1 + i]] = calls[i]
  <2>1. rs[i] \in WireMessage
    BY <1>17, <1>20
  <2>2. rs[i] = ToolMessage(rc[i])
    BY <1>15, <1>19
  <2>3. rs[i].tool_calls = <<>> /\ rs[i].tool_call_id = rc[i].tool_use_id
    BY <2>2 DEF ToolMessage, ChatMessage
  <2>4. ChatCalls[rs[i]] = Ids(<<>>) /\ ChatResults[rs[i]] = rc[i].tool_use_id
    BY <2>1, <2>3 DEF ChatCalls, ChatResults
  <2> QED
    BY <1>24, <1>27, <2>4, NoIds
<1>29. FollowedBy(ChatCalls, ChatResults, w)
  <2>1. ASSUME NEW k \in 1 .. 1 + n, ChatCalls[w[k]] # <<>>
        PROVE  /\ k + Len(ChatCalls[w[k]]) <= Len(w)
               /\ \A i \in DOMAIN ChatCalls[w[k]] : ChatResults[w[k + i]] = ChatCalls[w[k]][i]
    <3>1. k = 1
      <4>1. SUFFICES ASSUME k # 1 PROVE FALSE
        OBVIOUS
      <4>2. k - 1 \in 1 .. n /\ 1 + (k - 1) = k
        BY <4>1
      <4> QED
        BY <1>28, <2>1, <4>2
    <3>2. ChatCalls[w[k]] = calls
      BY <1>23, <1>26, <3>1
    <3> QED
      BY <1>22, <1>27, <1>28, <3>1, <3>2
  <2> QED
    BY <1>22, <2>1 DEF FollowedBy
<1> QED
  BY <1>2, <1>22, <1>25, <1>29, ChatNext

-----------------------------------------------------------------------------
LEMMA QuietNext ==
    ASSUME adapter \in {"anthropic", "compatible", "codex", "openrouter"}, NEW m, Quiet(adapter, m)
    PROVE  CallsAnsweredNext(ToWire(<<m>>))
<1>1. CASE adapter \in {"anthropic", "compatible"}
  BY <1>1, QuietAnthropic
<1>2. CASE adapter = "openrouter"
  BY <1>2, QuietChat
<1>3. CASE adapter = "codex"
  BY <1>3, QuietCodex
<1> QED
  BY <1>1, <1>2, <1>3

LEMMA ExchangeNext ==
    ASSUME adapter \in {"anthropic", "compatible", "codex", "openrouter"},
           NEW a, NEW r, Exchange(adapter, a, r)
    PROVE  CallsAnsweredNext(ToWire(<<a, r>>))
<1>1. CASE adapter \in {"anthropic", "compatible"}
  BY <1>1, ExchangeAnthropic
<1>2. CASE adapter = "openrouter"
  BY <1>2, ExchangeChat
<1>3. CASE adapter = "codex"
  BY <1>3, ExchangeCodex
<1> QED
  BY <1>1, <1>2, <1>3

\* Nothing was asked yet.
LEMMA NothingAsked ==
    ASSUME adapter \in {"anthropic", "compatible", "codex", "openrouter"}
    PROVE  CallsAnsweredNext(ToWire(<<>>)) /\ <<>> \in Seq(Fitting(adapter)) /\ Spoken(<<>>) = <<>>
<1>1. PICK C : C = Fitting(adapter)
  OBVIOUS
<1>2. <<>> \in Seq(C) /\ DOMAIN <<>> = {} /\ <<>> \in Seq(Message) /\ <<>> \in Seq(WireMessage)
  OBVIOUS
<1>3. CASE adapter \in {"anthropic", "compatible"}
  <2>1. PICK g : g = [x \in C |-> AnthropicSent(x)]
    OBVIOUS
  <2>2. AnthropicWire(<<>>) = FlatMap(g, <<>>)
    BY <1>1, <1>2, <1>3, <2>1, AnthropicWireIs
  <2>3. ToWire(<<>>) = <<>>
    BY <1>3, <2>2, FlatMapNone DEF ToWire
  <2>4. NextHas(AnthropicCalls, AnthropicResults, <<>>)
    BY <1>2 DEF NextHas
  <2> QED
    BY <1>1, <1>2, <1>3, <2>3, <2>4, FlatMapNone, AnthropicNext DEF Spoken
<1>4. CASE adapter = "openrouter"
  <2>1. PICK g : g = [x \in C |-> ChatMessages(x)]
    OBVIOUS
  <2>2. ChatWire(<<>>) = FlatMap(g, <<>>)
    BY <1>1, <1>2, <1>4, <2>1, ChatWireIs
  <2>3. ToWire(<<>>) = <<>>
    BY <1>4, <2>2, FlatMapNone DEF ToWire
  <2>4. FollowedBy(ChatCalls, ChatResults, <<>>)
    BY <1>2 DEF FollowedBy
  <2> QED
    BY <1>1, <1>2, <1>4, <2>3, <2>4, FlatMapNone, ChatNext DEF Spoken
<1>5. CASE adapter = "codex"
  <2>1. CodexPaired(<<>>)
    BY FlatMapNone DEF CodexPaired
  <2> QED
    BY <1>1, <1>2, <1>5, <2>1, FlatMapNone, CodexPairedIs DEF Spoken
<1> QED
  BY <1>3, <1>4, <1>5

-----------------------------------------------------------------------------
(* A stream, event by event.                                               *)

ReplyBlock == TextBlock \union CallBlock \union ThinkingBlock

\* A text block is announced empty, and a delta is for the last block, of text
\* only if that is a text.
Fits(a, e) ==
    /\ e.type = "content_block_start" /\ IsText(e.block) => e.block.text = <<>>
    /\ e.type = "content_block_delta" => a.blocks # <<>> /\ e.index = Len(a.blocks)
    /\ e.type = "content_block_delta" /\ e.delta = "text_delta" => IsText(a.blocks[e.index])

\* What the accumulator holds after each event.
Trace(events, F, a) ==
    /\ F \in [0 .. Len(events) -> Accumulator]
    /\ F[0] = NothingYet /\ F[Len(events)] = a
    /\ \A i \in 1 .. Len(events) : F[i] = Handle(F[i - 1], events[i]) /\ Fits(F[i - 1], events[i])

Traced(events, a) == events \in Seq(StreamedEvent) /\ \E F : Trace(events, F, a)

LEMMA TracedNone == Traced(<<>>, NothingYet)
<1>1. PICK F : F = [i \in 0 .. 0 |-> NothingYet]
  OBVIOUS
<1>2. F \in [0 .. 0 -> Accumulator] /\ F[0] = NothingYet
  BY <1>1, InitialValues
<1>3. Len(<<>>) = 0 /\ <<>> \in Seq(StreamedEvent) /\ 1 .. 0 = {}
  OBVIOUS
<1>4. Trace(<<>>, F, NothingYet)
  BY <1>2, <1>3 DEF Trace
<1> QED
  BY <1>3, <1>4 DEF Traced

LEMMA TracedMore ==
    ASSUME NEW events, NEW a \in Accumulator, Traced(events, a), NEW e \in StreamedEvent, Fits(a, e)
    PROVE  Traced(Append(events, e), Handle(a, e))
<1>1. PICK F : Trace(events, F, a)
  BY DEF Traced
<1>2. events \in Seq(StreamedEvent)
  BY DEF Traced
<1>3. PICK n \in Nat : n = Len(events)
  BY <1>2
<1>4. PICK m \in Nat : m = n + 1
  OBVIOUS
<1>5. PICK all : all = Append(events, e)
  OBVIOUS
<1>6. all \in Seq(StreamedEvent) /\ Len(all) = m
  BY <1>2, <1>3, <1>4, <1>5
<1>7. all[m] = e
  BY <1>2, <1>3, <1>4, <1>5
<1>8. \A i \in 1 .. n : all[i] = events[i]
  BY <1>2, <1>3, <1>5
<1>9. PICK b : b = Handle(a, e)
  OBVIOUS
<1>10. b \in Accumulator
  BY <1>9, HandleIs
<1>11. PICK G : G = [i \in 0 .. m |-> IF i = m THEN b ELSE F[i]]
  OBVIOUS
<1>12. F \in [0 .. n -> Accumulator] /\ F[0] = NothingYet /\ F[n] = a
  BY <1>1, <1>3 DEF Trace
<1>13. \A i \in 1 .. n : F[i] = Handle(F[i - 1], events[i]) /\ Fits(F[i - 1], events[i])
  BY <1>1, <1>3 DEF Trace
<1>14. \A i \in 0 .. n : G[i] = F[i]
  BY <1>4, <1>11
<1>15. G[m] = b /\ G[0] = NothingYet
  BY <1>4, <1>11, <1>12, <1>14
<1>16. G \in [0 .. m -> Accumulator]
  <2> SUFFICES ASSUME NEW i \in 0 .. m PROVE (IF i = m THEN b ELSE F[i]) \in Accumulator
    BY <1>11
  <2>1. i = m \/ i \in 0 .. n
    BY <1>4
  <2> QED
    BY <1>10, <1>12, <2>1
<1>17. ASSUME NEW i \in 1 .. m
       PROVE  G[i] = Handle(G[i - 1], all[i]) /\ Fits(G[i - 1], all[i])
  <2>1. CASE i = m
    <3>1. i - 1 = n /\ n \in 0 .. n
      BY <1>4, <2>1
    <3>2. G[i - 1] = a
      BY <1>12, <1>14, <3>1
    <3> QED
      BY <1>7, <1>9, <1>15, <2>1, <3>2
  <2>2. CASE i # m
    <3>1. i \in 1 .. n /\ i \in 0 .. n /\ i - 1 \in 0 .. n
      BY <1>4, <2>2
    <3>2. G[i] = F[i] /\ G[i - 1] = F[i - 1] /\ all[i] = events[i]
      BY <1>8, <1>14, <3>1
    <3> QED
      BY <1>13, <3>1, <3>2
  <2> QED
    BY <2>1, <2>2
<1>18. Trace(all, G, b)
  BY <1>6, <1>15, <1>16, <1>17 DEF Trace
<1> QED
  BY <1>5, <1>6, <1>9, <1>18 DEF Traced

-----------------------------------------------------------------------------
\* The events of one block, and what the accumulator makes of it.
PartsOf(b) == CASE IsText(b) -> b.text [] IsCall(b) -> b.input [] OTHER -> <<"...">>

DeltaOf(b) == CASE IsText(b) -> "text_delta" [] IsCall(b) -> "input_json_delta" [] OTHER -> "thinking_delta"

Opening(b) == IF IsText(b) THEN Text(<<>>) ELSE b

Start(b) == [type |-> "content_block_start", block |-> Opening(b)]

Delta(b, k, part) ==
    [type |-> "content_block_delta", index |-> k, delta |-> DeltaOf(b), part |-> part]

Deltas(b, k, parts) == [n \in DOMAIN parts |-> Delta(b, k, parts[n])]

OfBlock(b, k) == <<Start(b)>> \o Deltas(b, k, PartsOf(b))

SoFar(b, parts) ==
    CASE IsText(b) -> Text(parts)
      [] IsCall(b) -> ToolUse(b.id, b.name, parts)
      [] OTHER -> [type |-> "ignored"]

LEMMA BlockEventsAreThose ==
    ASSUME NEW r, NEW k PROVE BlockEvents(r, k) = OfBlock(r.blocks[k], k)
BY Zenon DEF BlockEvents, OfBlock, Start, Deltas, Delta, Opening, PartsOf, DeltaOf

LEMMA ReplyKinds ==
    ASSUME NEW b \in ReplyBlock
    PROVE  \/ b \in TextBlock /\ IsText(b) /\ ~IsCall(b)
           \/ b \in CallBlock /\ IsCall(b) /\ ~IsText(b)
           \/ b \in ThinkingBlock /\ ~IsCall(b) /\ ~IsText(b)
BY KindsDiffer DEF ReplyBlock

LEMMA SoFarIs ==
    ASSUME NEW b \in ReplyBlock, NEW parts \in Seq(Fragment)
    PROVE  SoFar(b, parts) \in OpenBlock
<1>1. CASE b \in TextBlock /\ IsText(b) /\ ~IsCall(b)
  <2>1. SoFar(b, parts) = Text(parts)
    BY <1>1 DEF SoFar
  <2> QED
    BY <2>1, TextIs DEF OpenBlock
<1>2. CASE b \in CallBlock /\ IsCall(b) /\ ~IsText(b)
  <2>1. SoFar(b, parts) = ToolUse(b.id, b.name, parts)
    BY <1>2 DEF SoFar
  <2>2. b.id \in STRING /\ b.name \in Names
    BY <1>2 DEF CallBlock
  <2> QED
    BY <2>1, <2>2, ToolUseIs DEF OpenBlock
<1>3. CASE ~IsCall(b) /\ ~IsText(b)
  BY <1>3 DEF SoFar, OpenBlock
<1> QED
  BY <1>1, <1>2, <1>3, ReplyKinds

LEMMA StartIs ==
    ASSUME NEW b \in ReplyBlock
    PROVE  /\ Start(b) \in StreamedEvent
           /\ Start(b).type = "content_block_start" /\ Start(b).block = Opening(b)
           /\ IsText(Opening(b)) => Opening(b).text = <<>>
           /\ Opened(Opening(b)) = SoFar(b, <<>>)
<1>0. <<>> \in Seq(Fragment)
  OBVIOUS
<1>1. Opening(b) \in ReplyBlock
  <2>1. Text(<<>>) \in TextBlock
    BY <1>0, TextIs
  <2> QED
    BY <2>1 DEF Opening, ReplyBlock
<1>2. Start(b) \in StreamedEvent
  BY <1>1 DEF Start, StreamedEvent, ReplyBlock
<1>3. CASE b \in TextBlock /\ IsText(b) /\ ~IsCall(b)
  <2>1. Opening(b) = Text(<<>>) /\ SoFar(b, <<>>) = Text(<<>>)
    BY <1>3 DEF Opening, SoFar
  <2>2. Text(<<>>).type = "text" /\ Text(<<>>).text = <<>>
    BY DEF Text
  <2>3. Opened(Text(<<>>)) = Text(<<>>)
    BY <2>2 DEF Opened
  <2> QED
    BY <1>2, <2>1, <2>2, <2>3 DEF Start
<1>4. CASE b \in CallBlock /\ IsCall(b) /\ ~IsText(b)
  <2>1. Opening(b) = b /\ SoFar(b, <<>>) = ToolUse(b.id, b.name, <<>>)
    BY <1>4 DEF Opening, SoFar
  <2>2. b.type = "tool_use"
    BY <1>4 DEF IsCall
  <2>3. Opened(b) = ToolUse(b.id, b.name, <<>>)
    BY <2>2 DEF Opened
  <2> QED
    BY <1>2, <1>4, <2>1, <2>3 DEF Start
<1>5. CASE ~IsCall(b) /\ ~IsText(b)
  <2>1. Opening(b) = b /\ SoFar(b, <<>>) = [type |-> "ignored"]
    BY <1>5 DEF Opening, SoFar
  <2>2. Opened(b) = [type |-> "ignored"]
    BY <1>5 DEF Opened, IsCall, IsText
  <2> QED
    BY <1>2, <1>5, <2>1, <2>2 DEF Start
<1> QED
  BY <1>3, <1>4, <1>5, ReplyKinds

LEMMA DeltaIs ==
    ASSUME NEW b \in ReplyBlock, NEW k \in Nat, NEW part \in Fragment
    PROVE  /\ Delta(b, k, part) \in DeltaEvent /\ Delta(b, k, part) \in StreamedEvent
           /\ Delta(b, k, part).type = "content_block_delta"
           /\ Delta(b, k, part).index = k /\ Delta(b, k, part).part = part
           /\ Delta(b, k, part).delta = DeltaOf(b)
           /\ DeltaOf(b) = "text_delta" <=> IsText(b)
           /\ DeltaOf(b) = "input_json_delta" <=> IsCall(b)
<1>1. DeltaOf(b) \in {"text_delta", "input_json_delta", "thinking_delta"}
  BY DEF DeltaOf
<1>2. (DeltaOf(b) = "text_delta" <=> IsText(b)) /\ (DeltaOf(b) = "input_json_delta" <=> IsCall(b))
  BY ReplyKinds DEF DeltaOf
<1> QED
  BY <1>1, <1>2 DEF Delta, DeltaEvent, StreamedEvent

-----------------------------------------------------------------------------
Acc(blocks) == [blocks |-> blocks, stop_reason |-> "none"]

LEMMA LastOf ==
    ASSUME NEW S, NEW s \in Seq(S), NEW x \in S, NEW t, t = Append(s, x)
    PROVE  t \in Seq(S) /\ Len(t) = Len(s) + 1 /\ Len(s) + 1 \in DOMAIN t /\ t[Len(s) + 1] = x /\ t # <<>>
<1>1. t \in Seq(S) /\ Len(t) = Len(s) + 1
  OBVIOUS
<1>2. t[Len(s) + 1] = x
  OBVIOUS
<1>3. Len(s) \in Nat /\ DOMAIN t = 1 .. Len(t)
  BY <1>1
<1>4. Len(<<>>) = 0
  OBVIOUS
<1> QED
  BY <1>1, <1>2, <1>3, <1>4

\* The last of a sequence, replaced.
LEMMA LastReplaced ==
    ASSUME NEW S, NEW s \in Seq(S), NEW x \in S, NEW y \in S
    PROVE  [Append(s, x) EXCEPT ![Len(s) + 1] = y] = Append(s, y)
<1>1. PICK n \in Nat : n = Len(s) /\ DOMAIN s = 1 .. n
  OBVIOUS
<1>2. PICK m \in Nat : m = n + 1
  OBVIOUS
<1>3. PICK t, u : t = Append(s, x) /\ u = Append(s, y)
  OBVIOUS
<1>4. t \in Seq(S) /\ u \in Seq(S) /\ Len(t) = m /\ Len(u) = m
  BY <1>1, <1>2, <1>3
<1>5. t[m] = x /\ u[m] = y
  BY <1>1, <1>2, <1>3
<1>6. \A k \in 1 .. n : t[k] = s[k]
  BY <1>1, <1>3
<1>7. \A k \in 1 .. n : u[k] = s[k]
  BY <1>1, <1>3
<1>8. DOMAIN t = 1 .. m /\ DOMAIN u = 1 .. m
  BY <1>4
<1>9. PICK v : v = [t EXCEPT ![m] = y]
  OBVIOUS
<1>10. DOMAIN v = 1 .. m /\ \A k \in 1 .. m : v[k] = u[k]
  <2>1. ASSUME NEW k \in 1 .. m PROVE v[k] = u[k]
    <3>1. CASE k = m
      BY <1>5, <1>8, <1>9, <3>1
    <3>2. CASE k # m
      <4>1. k \in 1 .. n
        BY <1>2, <3>2
      <4>2. v[k] = t[k]
        BY <1>8, <1>9, <3>2
      <4> QED
        BY <1>6, <1>7, <4>1, <4>2
    <3> QED
      BY <3>1, <3>2
  <2> QED
    BY <1>8, <1>9, <2>1
<1>11. v = u
  <2>1. v = [k \in 1 .. m |-> v[k]]
    BY <1>8, <1>9
  <2>2. u = [k \in 1 .. m |-> u[k]]
    BY <1>4, <1>8
  <2> QED
    BY <1>10, <2>1, <2>2
<1> QED
  BY <1>1, <1>2, <1>3, <1>9, <1>11

\* A block grows by its deltas.
LEMMA GrownSoFar ==
    ASSUME NEW blocks \in Seq(OpenBlock), NEW b \in ReplyBlock, NEW parts \in Seq(Fragment),
           NEW part \in Fragment
    PROVE  Grown(Append(blocks, SoFar(b, parts)), Delta(b, Len(blocks) + 1, part))
           = Append(blocks, SoFar(b, Append(parts, part)))
<1>1. PICK k \in Nat : k = Len(blocks) + 1
  OBVIOUS
<1>2. PICK x, y : x = SoFar(b, parts) /\ y = SoFar(b, Append(parts, part))
  OBVIOUS
<1>3. Append(parts, part) \in Seq(Fragment)
  OBVIOUS
<1>4. x \in OpenBlock /\ y \in OpenBlock
  BY <1>2, <1>3, SoFarIs
<1>5. PICK t : t = Append(blocks, x)
  OBVIOUS
<1>6. k \in DOMAIN t /\ t[k] = x
  BY <1>1, <1>4, <1>5, LastOf
<1>7. [t EXCEPT ![k] = y] = Append(blocks, y)
  BY <1>1, <1>4, <1>5, LastReplaced
<1>8. PICK e : e = Delta(b, k, part)
  OBVIOUS
<1>9. e.index = k /\ e.part = part /\ e.delta = DeltaOf(b)
      /\ (e.delta = "text_delta" <=> IsText(b)) /\ (e.delta = "input_json_delta" <=> IsCall(b))
  BY <1>8, DeltaIs
<1>10. Grown(t, e) = Append(blocks, y)
  <2>1. CASE b \in TextBlock /\ IsText(b) /\ ~IsCall(b)
    <3>1. x = Text(parts) /\ y = Text(Append(parts, part))
      BY <1>2, <2>1 DEF SoFar
    <3>2. IsText(x) /\ x.text = parts
      BY <3>1 DEF Text, IsText
    <3>3. y = [x EXCEPT !.text = Append(parts, part)]
      <4>1. PICK more : more = Append(parts, part)
        OBVIOUS
      <4>2. y = [type |-> "text", text |-> more] /\ x = [type |-> "text", text |-> parts]
        BY <3>1, <4>1 DEF Text
      <4>3. y = [x EXCEPT !.text = more]
        BY <4>2
      <4> QED
        BY <4>1, <4>3
    <3>4. Grown(t, e) = [t EXCEPT ![k].text = Append(@, part)]
      BY <1>6, <1>9, <2>1, <3>2 DEF Grown
    <3>5. [t EXCEPT ![k].text = Append(@, part)] = [t EXCEPT ![k] = [x EXCEPT !.text = Append(parts, part)]]
      BY <1>6, <3>2
    <3> QED
      BY <1>7, <3>3, <3>4, <3>5
  <2>2. CASE b \in CallBlock /\ IsCall(b) /\ ~IsText(b)
    <3>1. x = ToolUse(b.id, b.name, parts) /\ y = ToolUse(b.id, b.name, Append(parts, part))
      BY <1>2, <2>2 DEF SoFar
    <3>2. IsCall(x) /\ x.input = parts
      BY <3>1 DEF ToolUse, IsCall
    <3>3. y = [x EXCEPT !.input = Append(parts, part)]
      <4>1. PICK more : more = Append(parts, part)
        OBVIOUS
      <4>2. /\ y = [type |-> "tool_use", id |-> b.id, name |-> b.name, input |-> more]
            /\ x = [type |-> "tool_use", id |-> b.id, name |-> b.name, input |-> parts]
        BY <3>1, <4>1 DEF ToolUse
      <4>3. y = [x EXCEPT !.input = more]
        BY <4>2
      <4> QED
        BY <4>1, <4>3
    <3>4. Grown(t, e) = [t EXCEPT ![k].input = Append(@, part)]
      BY <1>6, <1>9, <2>2, <3>2 DEF Grown
    <3>5. [t EXCEPT ![k].input = Append(@, part)] = [t EXCEPT ![k] = [x EXCEPT !.input = Append(parts, part)]]
      BY <1>6, <3>2
    <3> QED
      BY <1>7, <3>3, <3>4, <3>5
  <2>3. CASE ~IsCall(b) /\ ~IsText(b)
    <3>1. x = y
      BY <1>2, <2>3 DEF SoFar
    <3>2. Grown(t, e) = t
      BY <1>6, <1>9, <2>3 DEF Grown
    <3> QED
      BY <1>5, <3>1, <3>2
  <2> QED
    BY <2>1, <2>2, <2>3, ReplyKinds
<1> QED
  BY <1>1, <1>2, <1>5, <1>8, <1>10

-----------------------------------------------------------------------------
LEMMA AccIs == ASSUME NEW blocks \in Seq(OpenBlock) PROVE Acc(blocks) \in Accumulator /\ Acc(blocks).blocks = blocks
BY DEF Acc, Accumulator

\* A block is announced.
LEMMA StartTraced ==
    ASSUME NEW events, NEW blocks \in Seq(OpenBlock), Traced(events, Acc(blocks)), NEW b \in ReplyBlock
    PROVE  Traced(Append(events, Start(b)), Acc(Append(blocks, SoFar(b, <<>>))))
<1>1. PICK a : a = Acc(blocks)
  OBVIOUS
<1>2. a \in Accumulator /\ a.blocks = blocks
  BY <1>1, AccIs
<1>3. PICK e : e = Start(b)
  OBVIOUS
<1>4. /\ e \in StreamedEvent /\ e.type = "content_block_start" /\ e.block = Opening(b)
      /\ IsText(Opening(b)) => Opening(b).text = <<>>
      /\ Opened(Opening(b)) = SoFar(b, <<>>)
  BY <1>3, StartIs
<1>5. Fits(a, e)
  BY <1>4 DEF Fits
<1>6. Handle(a, e) = Acc(Append(blocks, SoFar(b, <<>>)))
  <2>1. Handle(a, e) = [a EXCEPT !.blocks = Append(@, Opened(e.block))]
    BY <1>4 DEF Handle
  <2>2. Handle(a, e) = [a EXCEPT !.blocks = Append(blocks, SoFar(b, <<>>))]
    BY <1>2, <1>4, <2>1
  <2> QED
    BY <1>1, <2>2 DEF Acc
<1> QED
  BY <1>1, <1>2, <1>3, <1>4, <1>5, <1>6, TracedMore

\* And its deltas.
LEMMA DeltaTraced ==
    ASSUME NEW events, NEW blocks \in Seq(OpenBlock), NEW b \in ReplyBlock, NEW parts \in Seq(Fragment),
           Traced(events, Acc(Append(blocks, SoFar(b, parts)))), NEW part \in Fragment
    PROVE  Traced(Append(events, Delta(b, Len(blocks) + 1, part)),
                  Acc(Append(blocks, SoFar(b, Append(parts, part)))))
<1>1. PICK k \in Nat : k = Len(blocks) + 1
  OBVIOUS
<1>2. PICK x : x = SoFar(b, parts)
  OBVIOUS
<1>3. x \in OpenBlock
  BY <1>2, SoFarIs
<1>4. PICK t : t = Append(blocks, x)
  OBVIOUS
<1>5. t \in Seq(OpenBlock) /\ Len(t) = k /\ t[k] = x /\ t # <<>>
  BY <1>1, <1>3, <1>4, LastOf
<1>6. PICK a : a = Acc(t)
  OBVIOUS
<1>7. a \in Accumulator /\ a.blocks = t
  BY <1>5, <1>6, AccIs
<1>8. PICK e : e = Delta(b, k, part)
  OBVIOUS
<1>9. e \in StreamedEvent /\ e.type = "content_block_delta" /\ e.index = k
      /\ (e.delta = "text_delta" <=> IsText(b))
  BY <1>8, DeltaIs
<1>10. IsText(b) => IsText(x)
  BY <1>2, ReplyKinds DEF SoFar, Text, IsText, IsCall
<1>11. Fits(a, e)
  BY <1>5, <1>7, <1>9, <1>10 DEF Fits
<1>12. PICK u : u = Append(blocks, SoFar(b, Append(parts, part)))
  OBVIOUS
<1>13. Grown(t, e) = u
  BY <1>1, <1>2, <1>4, <1>8, <1>12, GrownSoFar
<1>14. Handle(a, e) = Acc(u)
  <2>1. Handle(a, e) = [a EXCEPT !.blocks = Grown(@, e)]
    BY <1>9 DEF Handle
  <2>2. Handle(a, e) = [a EXCEPT !.blocks = u]
    BY <1>7, <1>13, <2>1
  <2> QED
    BY <1>6, <2>2 DEF Acc
<1>15. Traced(Append(events, e), Handle(a, e))
  BY <1>2, <1>4, <1>6, <1>7, <1>9, <1>11, TracedMore
<1> QED
  BY <1>1, <1>8, <1>12, <1>14, <1>15

-----------------------------------------------------------------------------
\* One element more.
Extended(T, g, y, h) ==
    /\ g \in Seq(T) /\ y \in T
    /\ h = [k \in 1 .. Len(g) + 1 |-> h[k]]
    /\ h[Len(g) + 1] = y
    /\ \A k \in 1 .. Len(g) : h[k] = g[k]

LEMMA IsAppend ==
    ASSUME NEW T, NEW g, NEW y, NEW h, Extended(T, g, y, h) PROVE h = Append(g, y)
<1>0. g \in Seq(T) /\ y \in T
  BY DEF Extended
<1>n1. PICK n \in Nat : n = Len(g)
  BY <1>0
<1>n2. h = [k \in 1 .. n + 1 |-> h[k]] /\ h[n + 1] = y /\ \A k \in 1 .. n : h[k] = g[k]
  BY <1>n1 DEF Extended
<1>1. PICK m \in Nat : m = n + 1
  OBVIOUS
<1>2. PICK a : a = Append(g, y)
  OBVIOUS
<1>3. a \in Seq(T) /\ Len(a) = m
  BY <1>0, <1>n1, <1>1, <1>2
<1>4. a[m] = y
  BY <1>0, <1>n1, <1>1, <1>2
<1>5. \A k \in 1 .. n : a[k] = g[k]
  BY <1>0, <1>n1, <1>2
<1>6. a = [k \in 1 .. m |-> a[k]]
  BY <1>3
<1>7. \A k \in 1 .. m : a[k] = h[k]
  <2> SUFFICES ASSUME NEW k \in 1 .. m PROVE a[k] = h[k]
    OBVIOUS
  <2>1. k = m \/ k \in 1 .. n
    BY <1>1
  <2> QED
    BY <1>n2, <1>1, <1>4, <1>5, <2>1
<1> QED
  BY <1>n2, <1>1, <1>2, <1>6, <1>7

LEMMA AppendJoined ==
    ASSUME NEW S, NEW s \in Seq(S), NEW u \in Seq(S), NEW x \in S
    PROVE  s \o Append(u, x) = Append(s \o u, x)
OBVIOUS

LEMMA DeltasAre ==
    ASSUME NEW b \in ReplyBlock, NEW k \in Nat, NEW parts \in Seq(Fragment)
    PROVE  Deltas(b, k, parts) \in Seq(StreamedEvent)
<1>1. PICK m \in Nat : m = Len(parts) /\ DOMAIN parts = 1 .. m
  OBVIOUS
<1>2. \A n \in 1 .. m : parts[n] \in Fragment
  BY <1>1
<1>3. \A n \in 1 .. m : Delta(b, k, parts[n]) \in StreamedEvent
  BY <1>2, DeltaIs
<1> QED
  BY <1>1, <1>3 DEF Deltas

LEMMA DeltasMore ==
    ASSUME NEW b \in ReplyBlock, NEW k \in Nat, NEW parts \in Seq(Fragment), NEW part \in Fragment
    PROVE  Deltas(b, k, Append(parts, part)) = Append(Deltas(b, k, parts), Delta(b, k, part))
<1>1. PICK m \in Nat : m = Len(parts) /\ DOMAIN parts = 1 .. m
  OBVIOUS
<1>2. PICK all : all = Append(parts, part)
  OBVIOUS
<1>3. all \in Seq(Fragment) /\ DOMAIN all = 1 .. m + 1
  BY <1>1, <1>2
<1>4. all[m + 1] = part
  BY <1>1, <1>2
<1>5. \A n \in 1 .. m : all[n] = parts[n]
  BY <1>1, <1>2
<1>6. PICK g, h : g = Deltas(b, k, parts) /\ h = Deltas(b, k, all)
  OBVIOUS
<1>7. g \in Seq(StreamedEvent)
  BY <1>6, DeltasAre
<1>8. DOMAIN g = 1 .. m /\ \A n \in 1 .. m : g[n] = Delta(b, k, parts[n])
  BY <1>1, <1>6 DEF Deltas
<1>9. Len(g) = m
  BY <1>7, <1>8
<1>10. h = [n \in 1 .. m + 1 |-> h[n]] /\ \A n \in 1 .. m + 1 : h[n] = Delta(b, k, all[n])
  BY <1>3, <1>6 DEF Deltas
<1>11. \A n \in 1 .. m : h[n] = g[n]
  BY <1>5, <1>8, <1>10
<1>12. PICK e : e = Delta(b, k, part)
  OBVIOUS
<1>13. h[m + 1] = e
  BY <1>4, <1>10, <1>12
<1>14. e \in StreamedEvent
  BY <1>12, DeltaIs
<1>15. h = [n \in 1 .. m + 1 |-> h[n]]
  BY <1>10
<1>16. h = Append(g, e)
  <2>1. Extended(StreamedEvent, g, e, h)
    BY <1>7, <1>9, <1>11, <1>13, <1>14, <1>15 DEF Extended
  <2> QED
    BY <2>1, IsAppend
<1> QED
  BY <1>2, <1>6, <1>12, <1>16

\* The events of a block add the block.
LEMMA BlockTraced ==
    ASSUME NEW events, NEW blocks \in Seq(OpenBlock), Traced(events, Acc(blocks)), NEW b \in ReplyBlock
    PROVE  Traced(events \o OfBlock(b, Len(blocks) + 1), Acc(Append(blocks, SoFar(b, PartsOf(b)))))
<1>1. PICK k \in Nat : k = Len(blocks) + 1
  OBVIOUS
<1>2. PICK begun : begun = Append(events, Start(b))
  OBVIOUS
<1>3. PICK G : G = {p \in Seq(Fragment) : Traced(begun \o Deltas(b, k, p), Acc(Append(blocks, SoFar(b, p))))}
  OBVIOUS
<1>4. events \in Seq(StreamedEvent) /\ begun \in Seq(StreamedEvent)
  <2>1. events \in Seq(StreamedEvent)
    BY DEF Traced
  <2>2. PICK e \in StreamedEvent : e = Start(b)
    BY StartIs
  <2>3. Append(events, e) \in Seq(StreamedEvent)
    BY <2>1, <2>2
  <2> QED
    BY <1>2, <2>1, <2>2, <2>3
<1>5. <<>> \in G
  <2>1. <<>> \in Seq(Fragment)
    OBVIOUS
  <2>2. Deltas(b, k, <<>>) = <<>>
    BY DEF Deltas
  <2>3. begun \o <<>> = begun
    BY <1>4
  <2>4. Traced(begun, Acc(Append(blocks, SoFar(b, <<>>))))
    BY <1>2, StartTraced
  <2> QED
    BY <1>3, <2>1, <2>2, <2>3, <2>4
<1>6. ASSUME NEW p \in Seq(Fragment), NEW x \in Fragment, p \in G
      PROVE  Append(p, x) \in G
  <2>1. PICK ds : ds = Deltas(b, k, p)
    OBVIOUS
  <2>2. PICK e : e = Delta(b, k, x)
    OBVIOUS
  <2>3. ds \in Seq(StreamedEvent) /\ e \in StreamedEvent
    BY <2>1, <2>2, DeltasAre, DeltaIs
  <2>4. Traced(begun \o ds, Acc(Append(blocks, SoFar(b, p))))
    BY <1>3, <1>6, <2>1
  <2>5. Traced(Append(begun \o ds, e), Acc(Append(blocks, SoFar(b, Append(p, x)))))
    BY <1>1, <2>2, <2>4, DeltaTraced
  <2>6. Append(begun \o ds, e) = begun \o Append(ds, e)
    <3>1. begun \in Seq(StreamedEvent)
      BY <1>4
    <3>2. ds \in Seq(StreamedEvent)
      BY <2>3
    <3>3. e \in StreamedEvent
      BY <2>3
    <3>4. begun \o Append(ds, e) = Append(begun \o ds, e)
      BY <3>1, <3>2, <3>3, AppendJoined
    <3> QED
      BY <3>4
  <2>7. Deltas(b, k, Append(p, x)) = Append(ds, e)
    BY <2>1, <2>2, DeltasMore
  <2>8. Append(p, x) \in Seq(Fragment)
    OBVIOUS
  <2> QED
    BY <1>3, <2>5, <2>6, <2>7, <2>8
<1>7. Seq(Fragment) \subseteq G
  BY <1>5, <1>6, SeqInduction
<1>8. PICK p \in Seq(Fragment) : p = PartsOf(b)
  <2>1. IsText(b) => b.text \in Seq(Fragment)
    BY ReplyKinds DEF TextBlock
  <2>2. IsCall(b) => b.input \in Seq(Fragment)
    BY ReplyKinds DEF CallBlock
  <2>3. <<"...">> \in Seq(Fragment)
    <3>1. "..." \in Fragment
      BY DEF Fragment
    <3> QED
      BY <3>1, OneOf
  <2> QED
    BY <2>1, <2>2, <2>3 DEF PartsOf
<1>9. Traced(begun \o Deltas(b, k, p), Acc(Append(blocks, SoFar(b, p))))
  BY <1>3, <1>7
<1>10. begun \o Deltas(b, k, p) = events \o OfBlock(b, k)
  <2>1. PICK e \in StreamedEvent : e = Start(b)
    BY StartIs
  <2>2. PICK ds \in Seq(StreamedEvent) : ds = Deltas(b, k, p)
    BY DeltasAre
  <2>3. Append(events, e) \o ds = events \o (<<e>> \o ds)
    BY <1>4
  <2> QED
    BY <1>2, <1>8, <2>1, <2>2, <2>3 DEF OfBlock
<1> QED
  BY <1>1, <1>8, <1>9, <1>10

-----------------------------------------------------------------------------
\* What a block of a reply is in the end.
Received(b) == SoFar(b, PartsOf(b))

Collected(blocks) == [k \in DOMAIN blocks |-> Received(blocks[k])]

EventsOf(blocks) == [k \in DOMAIN blocks |-> OfBlock(blocks[k], k)]

\* What the accumulator holds at the end of a whole reply.
Full(r) == [blocks |-> Collected(r.blocks), stop_reason |-> AnthropicStop[r.stop]]

LEMMA PartsAre == ASSUME NEW b \in ReplyBlock PROVE PartsOf(b) \in Seq(Fragment)
<1>1. IsText(b) => b.text \in Seq(Fragment)
  BY ReplyKinds DEF TextBlock
<1>2. IsCall(b) => b.input \in Seq(Fragment)
  BY ReplyKinds DEF CallBlock
<1>3. <<"...">> \in Seq(Fragment)
  <2>1. "..." \in Fragment
    BY DEF Fragment
  <2> QED
    BY <2>1, OneOf
<1> QED
  BY <1>1, <1>2, <1>3 DEF PartsOf

LEMMA ReceivedIs ==
    ASSUME NEW b \in ReplyBlock
    PROVE  /\ Received(b) \in OpenBlock
           /\ IsText(b) \/ IsCall(b) => Received(b) = b
           /\ ~IsText(b) /\ ~IsCall(b) => Received(b) = [type |-> "ignored"]
<1>1. Received(b) \in OpenBlock
  BY PartsAre, SoFarIs DEF Received
<1>2. CASE b \in TextBlock /\ IsText(b) /\ ~IsCall(b)
  <2>1. Received(b) = Text(b.text)
    BY <1>2 DEF Received, SoFar, PartsOf
  <2>2. Text(b.text) = b
    BY <1>2 DEF Text, TextBlock
  <2> QED
    BY <1>1, <1>2, <2>1, <2>2
<1>3. CASE b \in CallBlock /\ IsCall(b) /\ ~IsText(b)
  <2>1. Received(b) = ToolUse(b.id, b.name, b.input)
    BY <1>3 DEF Received, SoFar, PartsOf
  <2>2. ToolUse(b.id, b.name, b.input) = b
    BY <1>3 DEF ToolUse, CallBlock
  <2> QED
    BY <1>1, <1>3, <2>1, <2>2
<1>4. CASE ~IsCall(b) /\ ~IsText(b)
  BY <1>1, <1>4 DEF Received, SoFar
<1> QED
  BY <1>2, <1>3, <1>4, ReplyKinds

LEMMA CollectedIs ==
    ASSUME NEW blocks \in Seq(ReplyBlock)
    PROVE  Collected(blocks) \in Seq(OpenBlock) /\ Len(Collected(blocks)) = Len(blocks)
<1>1. PICK n \in Nat : n = Len(blocks) /\ DOMAIN blocks = 1 .. n
  OBVIOUS
<1>2. \A k \in 1 .. n : blocks[k] \in ReplyBlock
  BY <1>1
<1>3. \A k \in 1 .. n : Received(blocks[k]) \in OpenBlock
  BY <1>2, ReceivedIs
<1>4. PICK s : s = Collected(blocks)
  OBVIOUS
<1>5. s \in Seq(OpenBlock)
  BY <1>1, <1>3, <1>4 DEF Collected
<1>6. DOMAIN s = 1 .. n
  BY <1>1, <1>4 DEF Collected
<1> QED
  BY <1>1, <1>4, <1>5, <1>6

LEMMA OfBlockIs ==
    ASSUME NEW b \in ReplyBlock, NEW k \in Nat PROVE OfBlock(b, k) \in Seq(StreamedEvent)
<1>1. PICK e \in StreamedEvent : e = Start(b)
  BY StartIs
<1>2. PICK ds \in Seq(StreamedEvent) : ds = Deltas(b, k, PartsOf(b))
  BY PartsAre, DeltasAre
<1>3. <<e>> \in Seq(StreamedEvent)
  BY <1>1, OneOf
<1>4. <<e>> \o ds \in Seq(StreamedEvent)
  BY <1>3
<1> QED
  BY <1>1, <1>2, <1>4 DEF OfBlock

LEMMA EventsAre ==
    ASSUME NEW blocks \in Seq(ReplyBlock)
    PROVE  EventsOf(blocks) \in Seq(Seq(StreamedEvent)) /\ Len(EventsOf(blocks)) = Len(blocks)
<1>1. PICK n \in Nat : n = Len(blocks) /\ DOMAIN blocks = 1 .. n
  OBVIOUS
<1>2. \A k \in 1 .. n : blocks[k] \in ReplyBlock /\ k \in Nat
  BY <1>1
<1>3. \A k \in 1 .. n : OfBlock(blocks[k], k) \in Seq(StreamedEvent)
  BY <1>2, OfBlockIs
<1>4. PICK s : s = EventsOf(blocks)
  OBVIOUS
<1>5. s \in Seq(Seq(StreamedEvent))
  BY <1>1, <1>3, <1>4 DEF EventsOf
<1>6. DOMAIN s = 1 .. n
  BY <1>1, <1>4 DEF EventsOf
<1> QED
  BY <1>1, <1>4, <1>5, <1>6

LEMMA OneBlockMore ==
    ASSUME NEW blocks \in Seq(ReplyBlock), NEW b \in ReplyBlock
    PROVE  /\ Collected(Append(blocks, b)) = Append(Collected(blocks), Received(b))
           /\ EventsOf(Append(blocks, b)) = Append(EventsOf(blocks), OfBlock(b, Len(blocks) + 1))
<1>1. PICK n \in Nat : n = Len(blocks) /\ DOMAIN blocks = 1 .. n
  OBVIOUS
<1>2. PICK all : all = Append(blocks, b)
  OBVIOUS
<1>3. all \in Seq(ReplyBlock) /\ DOMAIN all = 1 .. n + 1
  BY <1>1, <1>2
<1>4. all[n + 1] = b
  BY <1>1, <1>2
<1>5. \A k \in 1 .. n : all[k] = blocks[k]
  BY <1>1, <1>2
<1>6. PICK c, h : c = Collected(blocks) /\ h = Collected(all)
  OBVIOUS
<1>7. c \in Seq(OpenBlock) /\ Len(c) = n /\ DOMAIN c = 1 .. n
  BY <1>1, <1>6, CollectedIs
<1>8. Extended(OpenBlock, c, Received(b), h)
  <2>1. h = [k \in 1 .. n + 1 |-> h[k]] /\ \A k \in 1 .. n + 1 : h[k] = Received(all[k])
    BY <1>3, <1>6 DEF Collected
  <2>2. \A k \in 1 .. n : c[k] = Received(blocks[k])
    BY <1>1, <1>6 DEF Collected
  <2>3. h[n + 1] = Received(b)
    BY <1>4, <2>1
  <2>4. \A k \in 1 .. n : h[k] = c[k]
    BY <1>5, <2>1, <2>2
  <2>5. Received(b) \in OpenBlock
    BY ReceivedIs
  <2>6. h = [k \in 1 .. n + 1 |-> h[k]]
    BY <2>1
  <2> QED
    BY <1>7, <2>3, <2>4, <2>5, <2>6 DEF Extended
<1>9. h = Append(c, Received(b))
  BY <1>8, IsAppend
<1>10. PICK v, w : v = EventsOf(blocks) /\ w = EventsOf(all)
  OBVIOUS
<1>11. v \in Seq(Seq(StreamedEvent)) /\ Len(v) = n
  BY <1>1, <1>10, EventsAre
<1>12. Extended(Seq(StreamedEvent), v, OfBlock(b, n + 1), w)
  <2>1. w = [k \in 1 .. n + 1 |-> w[k]] /\ \A k \in 1 .. n + 1 : w[k] = OfBlock(all[k], k)
    BY <1>3, <1>10 DEF EventsOf
  <2>2. \A k \in 1 .. n : v[k] = OfBlock(blocks[k], k)
    BY <1>1, <1>10 DEF EventsOf
  <2>3. w[n + 1] = OfBlock(b, n + 1)
    BY <1>4, <2>1
  <2>4. \A k \in 1 .. n : w[k] = v[k]
    BY <1>5, <2>1, <2>2
  <2>5. OfBlock(b, n + 1) \in Seq(StreamedEvent)
    BY OfBlockIs
  <2>6. w = [k \in 1 .. n + 1 |-> w[k]]
    BY <2>1
  <2> QED
    BY <1>11, <2>3, <2>4, <2>5, <2>6 DEF Extended
<1>13. w = Append(v, OfBlock(b, n + 1))
  BY <1>12, IsAppend
<1> QED
  BY <1>1, <1>2, <1>6, <1>9, <1>10, <1>13

\* The blocks of a reply, one after the other.
LEMMA BlocksTraced ==
    ASSUME NEW blocks \in Seq(ReplyBlock)
    PROVE  Traced(FlattenSeq(EventsOf(blocks)), Acc(Collected(blocks)))
<1>1. PICK G : G = {bs \in Seq(ReplyBlock) : Traced(FlattenSeq(EventsOf(bs)), Acc(Collected(bs)))}
  OBVIOUS
<1>2. <<>> \in G
  <2>1. EventsOf(<<>>) = <<>> /\ Collected(<<>>) = <<>> /\ <<>> \in Seq(ReplyBlock)
    BY DEF EventsOf, Collected
  <2>2. Acc(<<>>) = NothingYet
    BY DEF Acc, NothingYet
  <2> QED
    BY <1>1, <2>1, <2>2, FlattenNone, TracedNone
<1>3. ASSUME NEW bs \in Seq(ReplyBlock), NEW b \in ReplyBlock, bs \in G
      PROVE  Append(bs, b) \in G
  <2>1. PICK v, c : v = EventsOf(bs) /\ c = Collected(bs)
    OBVIOUS
  <2>2. v \in Seq(Seq(StreamedEvent)) /\ c \in Seq(OpenBlock) /\ Len(c) = Len(bs)
    BY <2>1, EventsAre, CollectedIs
  <2>3. Traced(FlattenSeq(v), Acc(c))
    BY <1>1, <1>3, <2>1
  <2>4. PICK k \in Nat : k = Len(bs) + 1
    OBVIOUS
  <2>5. Traced(FlattenSeq(v) \o OfBlock(b, k), Acc(Append(c, Received(b))))
    BY <2>2, <2>3, <2>4, BlockTraced DEF Received
  <2>6. PICK es \in Seq(StreamedEvent) : es = OfBlock(b, k)
    BY OfBlockIs
  <2>7. FlattenSeq(Append(v, es)) = FlattenSeq(v) \o es
    BY <2>2, FlattenMore
  <2>8. EventsOf(Append(bs, b)) = Append(v, es) /\ Collected(Append(bs, b)) = Append(c, Received(b))
    BY <2>1, <2>4, <2>6, OneBlockMore
  <2>9. Append(bs, b) \in Seq(ReplyBlock)
    OBVIOUS
  <2> QED
    BY <1>1, <2>5, <2>6, <2>7, <2>8, <2>9
<1>4. Seq(ReplyBlock) \subseteq G
  BY <1>2, <1>3, SeqInduction
<1> QED
  BY <1>1, <1>4

-----------------------------------------------------------------------------
LEMMA ReplyTraced ==
    ASSUME NEW r \in Replies PROVE Traced(AnthropicEvents(r), Full(r))
<1>1. PICK blocks : blocks = r.blocks
  OBVIOUS
<1>2. blocks \in Seq(ReplyBlock)
  BY <1>1, ReplyIs DEF ReplyBlock
<1>3. PICK stop : stop = AnthropicStop[r.stop]
  OBVIOUS
<1>4. stop \in WireStops
  BY <1>3, ReplyIs DEF AnthropicStop, WireStops
<1>5. PICK last, end_ : last = [type |-> "message_delta", stop_reason |-> stop] /\ end_ = [type |-> "message_stop"]
  OBVIOUS
<1>6. last \in StreamedEvent /\ end_ \in StreamedEvent
  BY <1>4, <1>5 DEF StreamedEvent
<1>7. PICK all : all = FlattenSeq(EventsOf(blocks))
  OBVIOUS
<1>8. PICK c : c = Collected(blocks)
  OBVIOUS
<1>9. Traced(all, Acc(c)) /\ c \in Seq(OpenBlock)
  BY <1>2, <1>7, <1>8, BlocksTraced, CollectedIs
<1>10. PICK full : full = [blocks |-> c, stop_reason |-> stop]
  OBVIOUS
<1>11. Acc(c) \in Accumulator /\ full \in Accumulator
  BY <1>4, <1>9, <1>10 DEF Acc, Accumulator
<1>12. Handle(Acc(c), last) = full
  BY <1>5, <1>10 DEF Handle, Acc
<1>13. Handle(full, end_) = full
  BY <1>5 DEF Handle
<1>14. Traced(Append(all, last), full)
  <2>1. Fits(Acc(c), last)
    BY <1>5 DEF Fits
  <2> QED
    BY <1>6, <1>9, <1>11, <1>12, <2>1, TracedMore
<1>15. Traced(Append(Append(all, last), end_), full)
  <2>1. Fits(full, end_)
    BY <1>5 DEF Fits
  <2> QED
    BY <1>6, <1>11, <1>13, <1>14, <2>1, TracedMore
<1>16. AnthropicEvents(r) = all \o <<last, end_>>
  <2>1. [k \in DOMAIN r.blocks |-> BlockEvents(r, k)] = EventsOf(blocks)
    BY <1>1, BlockEventsAreThose DEF EventsOf
  <2> QED
    BY <1>3, <1>5, <1>7, <2>1 DEF AnthropicEvents
<1>17. Append(Append(all, last), end_) = all \o <<last, end_>>
  <2>1. all \in Seq(StreamedEvent)
    BY <1>9 DEF Traced
  <2>2. all \o Append(<<last>>, end_) = Append(all \o <<last>>, end_)
    <3>1. <<last>> \in Seq(StreamedEvent)
      BY <1>6, OneOf
    <3> QED
      BY <1>6, <2>1, <3>1, AppendJoined
  <2>3. Append(<<last>>, end_) = <<last, end_>>
    BY <1>6, AppendedOne
  <2>4. all \o <<last>> = Append(all, last)
    <3>1. <<>> \in Seq(StreamedEvent)
      OBVIOUS
    <3>2. all \o Append(<<>>, last) = Append(all \o <<>>, last)
      BY <1>6, <2>1, <3>1, AppendJoined
    <3>3. all \o <<>> = all /\ Append(<<>>, last) = <<last>>
      BY <2>1
    <3> QED
      BY <3>2, <3>3
  <2> QED
    BY <2>2, <2>3, <2>4
<1>18. Full(r) = full
  BY <1>1, <1>3, <1>8, <1>10 DEF Full
<1> QED
  BY <1>15, <1>16, <1>17, <1>18

\* The accumulator after each event of a whole reply.
Replayed(r) == CHOOSE F : Trace(AnthropicEvents(r), F, Full(r))

LEMMA ReplayedIs ==
    ASSUME NEW r \in Replies
    PROVE  Trace(AnthropicEvents(r), Replayed(r), Full(r))
<1>1. \E F : Trace(AnthropicEvents(r), F, Full(r))
  BY ReplyTraced DEF Traced
<1> QED
  BY <1>1 DEF Replayed

-----------------------------------------------------------------------------
(* What the sink is sent.                                                  *)

Shape(a) == [k \in DOMAIN a.blocks |-> a.blocks[k].type]

LEMMA TextMore ==
    ASSUME NEW blocks \in Seq(OpenBlock), NEW b \in OpenBlock
    PROVE  TextOf(Append(blocks, b)) = TextOf(blocks) \o ItsText[b]
<1>1. blocks \in Seq(AnyBlock) /\ b \in AnyBlock
  <2>1. OpenBlock \subseteq AnyBlock
    BY BlockKinds
  <2> QED
    BY <2>1, SeqWider
<1>2. Append(blocks, b) \in Seq(AnyBlock)
  BY <1>1
<1>3. TextOf(Append(blocks, b)) = FlatMap(ItsText, Append(blocks, b)) /\ TextOf(blocks) = FlatMap(ItsText, blocks)
  BY <1>1, <1>2, SelectionsAre
<1>4. ItsText \in Conversion(AnyBlock, Fragment)
  BY SelectionsConvert
<1>5. FlatMap(ItsText, Append(blocks, b)) = FlatMap(ItsText, blocks) \o ItsText[b]
  BY <1>1, <1>4, FlatMapMore
<1> QED
  BY <1>3, <1>5

LEMMA OpenKinds ==
    ASSUME NEW b \in OpenBlock
    PROVE  /\ \/ b \in TextBlock /\ IsText(b) /\ ~IsCall(b) /\ ItsText[b] = b.text
              \/ b \in CallBlock /\ IsCall(b) /\ ~IsText(b) /\ ItsText[b] = <<>>
              \/ ~IsCall(b) /\ ~IsText(b) /\ ItsText[b] = <<>>
           /\ ItsText[b] \in Seq(Fragment)
<1>1. OpenBlock \subseteq AnyBlock
  BY BlockKinds
<1>2. ItsText[b] = IF IsText(b) THEN b.text ELSE <<>>
  BY <1>1 DEF ItsText
<1>3. \/ b \in TextBlock /\ IsText(b) /\ ~IsCall(b)
      \/ b \in CallBlock /\ IsCall(b) /\ ~IsText(b)
      \/ ~IsCall(b) /\ ~IsText(b)
  BY KindsDiffer DEF OpenBlock
<1>4. ItsText[b] \in Seq(Fragment)
  BY <1>1, SelectionsConvert DEF Conversion
<1> QED
  BY <1>2, <1>3, <1>4

-----------------------------------------------------------------------------
(* What a response keeps of the blocks of a reply.                         *)

HeardBlock == ReplyBlock \union OpenBlock
SpokenBlock == TextBlock \union CallBlock

\* The blocks a body keeps, and those a stream keeps.
IfKnown == [b \in AnyBlock |-> IF b.type \in {"text", "tool_use"} THEN <<b>> ELSE <<>>]
IfSaid == [b \in AnyBlock |-> IF IsCall(b) \/ (IsText(b) /\ b.text # <<>>) THEN <<b>> ELSE <<>>]

LEMMA HeardKinds ==
    /\ HeardBlock \subseteq AnyBlock /\ SpokenBlock \subseteq AnyBlock /\ SpokenBlock \subseteq ContentBlock
    /\ ReplyBlock \subseteq HeardBlock /\ OpenBlock \subseteq HeardBlock
    /\ \A b \in HeardBlock : b \in TextBlock \/ b \in CallBlock \/ b \in ThinkingBlock \union [type : {"ignored"}]
BY DEF HeardBlock, SpokenBlock, ReplyBlock, OpenBlock, AnyBlock, ContentBlock

LEMMA KeptIs ==
    /\ \A b \in TextBlock : IfKnown[b] = <<b>> /\ IfSaid[b] = IF b.text # <<>> THEN <<b>> ELSE <<>>
    /\ \A b \in CallBlock : IfKnown[b] = <<b>> /\ IfSaid[b] = <<b>>
    /\ \A b \in ThinkingBlock \union [type : {"ignored"}] : IfKnown[b] = <<>> /\ IfSaid[b] = <<>>
<1>1. ASSUME NEW b \in TextBlock PROVE IfKnown[b] = <<b>> /\ IfSaid[b] = IF b.text # <<>> THEN <<b>> ELSE <<>>
  <2>1. b \in AnyBlock /\ IsText(b) /\ ~IsCall(b) /\ b.type = "text"
    BY BlockKinds, KindsDiffer
  <2> QED
    BY <2>1 DEF IfKnown, IfSaid
<1>2. ASSUME NEW b \in CallBlock PROVE IfKnown[b] = <<b>> /\ IfSaid[b] = <<b>>
  <2>1. b \in AnyBlock /\ IsCall(b) /\ b.type = "tool_use"
    BY BlockKinds, KindsDiffer
  <2> QED
    BY <2>1 DEF IfKnown, IfSaid
<1>3. ASSUME NEW b \in ThinkingBlock \union [type : {"ignored"}] PROVE IfKnown[b] = <<>> /\ IfSaid[b] = <<>>
  <2>1. ~IsText(b) /\ ~IsCall(b) /\ b.type \notin {"text", "tool_use"}
    BY KindsDiffer
  <2>2. b \in AnyBlock
    BY DEF AnyBlock
  <2> QED
    BY <2>1, <2>2 DEF IfKnown, IfSaid
<1> QED
  BY <1>1, <1>2, <1>3

\* What is kept says what there was.
Keeps(g) ==
    /\ Through(HeardBlock, SpokenBlock, Atom, g, BlockAtoms, BlockAtoms)
    /\ Through(HeardBlock, SpokenBlock, CallBlock, g, IfCall, IfCall)
    /\ Through(HeardBlock, SpokenBlock, Fragment, g, ItsText, ItsText)

LEMMA ThroughKept ==
    ASSUME NEW T, NEW f \in Conversion(AnyBlock, T), NEW g,
           \A b \in HeardBlock : (g[b] = <<b>> /\ b \in SpokenBlock) \/ (g[b] = <<>> /\ f[b] = <<>>)
    PROVE  Through(HeardBlock, SpokenBlock, T, g, f, f)
<1>1. \A b \in AnyBlock : f[b] \in Seq(T)
  BY DEF Conversion
<1>2. \A b \in SpokenBlock : f[b] \in Seq(T)
  BY <1>1, HeardKinds
<1>3. \A b \in HeardBlock : g[b] \in Seq(SpokenBlock)
  <2> SUFFICES ASSUME NEW b \in HeardBlock PROVE g[b] \in Seq(SpokenBlock)
    OBVIOUS
  <2>1. CASE g[b] = <<b>> /\ b \in SpokenBlock
    BY <2>1, OneOf
  <2>2. CASE g[b] = <<>>
    <3>1. <<>> \in Seq(SpokenBlock)
      OBVIOUS
    <3> QED
      BY <2>2, <3>1
  <2> QED
    BY <2>1, <2>2
<1>4. ASSUME NEW b \in HeardBlock PROVE f[b] = FlatMap(f, g[b])
  <2>1. CASE g[b] = <<b>> /\ b \in SpokenBlock
    <3>1. f[b] \in Seq(T)
      BY <1>2, <2>1
    <3>2. FlatMap(f, <<b>>) = f[b]
      BY <3>1, FlatMapSingle
    <3> QED
      BY <2>1, <3>2
  <2>2. CASE g[b] = <<>> /\ f[b] = <<>>
    BY <2>2, FlatMapNone
  <2> QED
    BY <2>1, <2>2
<1> QED
  BY <1>2, <1>3, <1>4 DEF Through

LEMMA KeptSays == Keeps(IfKnown) /\ Keeps(IfSaid)
<1>1. \A b \in ThinkingBlock \union [type : {"ignored"}] : IfCall[b] = <<>> /\ ItsText[b] = <<>> /\ BlockAtoms[b] = <<>>
  BY SelectionsOf, BlockAtomsOf
<1>2. \A b \in TextBlock : b \in SpokenBlock /\ (b.text = <<>> => IfCall[b] = <<>> /\ ItsText[b] = <<>> /\ BlockAtoms[b] = <<>>)
  <2> SUFFICES ASSUME NEW b \in TextBlock, b.text = <<>>
               PROVE  IfCall[b] = <<>> /\ ItsText[b] = <<>> /\ BlockAtoms[b] = <<>>
    BY DEF SpokenBlock
  <2>1. IfCall[b] = <<>> /\ ItsText[b] = <<>>
    BY SelectionsOf
  <2>2. BlockAtoms[b] = Atoms("text", <<>>)
    BY BlockAtomsOf
  <2>3. Atoms("text", <<>>) = <<>>
    <3>1. <<>> \in Seq(Fragment)
      OBVIOUS
    <3>2. Atoms("text", <<>>) \in Seq(Atom) /\ DOMAIN Atoms("text", <<>>) = DOMAIN <<>>
      BY <3>1, AtomsAre
    <3> QED
      BY <3>2
  <2> QED
    BY <2>1, <2>2, <2>3
<1>3. CallBlock \subseteq SpokenBlock
  BY DEF SpokenBlock
<1>4. ASSUME NEW b \in HeardBlock
      PROVE  /\ \/ IfKnown[b] = <<b>> /\ b \in SpokenBlock
                \/ IfKnown[b] = <<>> /\ IfCall[b] = <<>> /\ ItsText[b] = <<>> /\ BlockAtoms[b] = <<>>
             /\ \/ IfSaid[b] = <<b>> /\ b \in SpokenBlock
                \/ IfSaid[b] = <<>> /\ IfCall[b] = <<>> /\ ItsText[b] = <<>> /\ BlockAtoms[b] = <<>>
  <2>1. CASE b \in TextBlock
    <3>1. IfKnown[b] = <<b>> /\ IfSaid[b] = IF b.text # <<>> THEN <<b>> ELSE <<>>
      BY <2>1, KeptIs
    <3>2. b \in SpokenBlock
      BY <1>2, <2>1
    <3>3. CASE b.text # <<>>
      BY <3>1, <3>2, <3>3
    <3>4. CASE b.text = <<>>
      <4>1. IfCall[b] = <<>> /\ ItsText[b] = <<>> /\ BlockAtoms[b] = <<>>
        BY <1>2, <2>1, <3>4
      <4> QED
        BY <3>1, <3>2, <3>4, <4>1
    <3> QED
      BY <3>3, <3>4
  <2>2. CASE b \in CallBlock
    <3>1. IfKnown[b] = <<b>> /\ IfSaid[b] = <<b>>
      BY <2>2, KeptIs
    <3>2. b \in SpokenBlock
      BY <1>3, <2>2
    <3> QED
      BY <3>1, <3>2
  <2>3. CASE b \in ThinkingBlock \union [type : {"ignored"}]
    BY <1>1, <2>3, KeptIs
  <2> QED
    BY <2>1, <2>2, <2>3, HeardKinds
<1>5. IfCall \in Conversion(AnyBlock, CallBlock)
  BY SelectionsConvert
<1>6. ItsText \in Conversion(AnyBlock, Fragment)
  BY SelectionsConvert
<1>7. BlockAtoms \in Conversion(AnyBlock, Atom)
  BY BlockAtomsConvert
<1>8. Keeps(IfKnown)
  <2>1. Through(HeardBlock, SpokenBlock, Atom, IfKnown, BlockAtoms, BlockAtoms)
    <3>1. \A b \in HeardBlock : (IfKnown[b] = <<b>> /\ b \in SpokenBlock) \/ (IfKnown[b] = <<>> /\ BlockAtoms[b] = <<>>)
      BY <1>4
    <3> QED
      BY <1>7, <3>1, ThroughKept
  <2>2. Through(HeardBlock, SpokenBlock, CallBlock, IfKnown, IfCall, IfCall)
    <3>1. \A b \in HeardBlock : (IfKnown[b] = <<b>> /\ b \in SpokenBlock) \/ (IfKnown[b] = <<>> /\ IfCall[b] = <<>>)
      BY <1>4
    <3> QED
      BY <1>5, <3>1, ThroughKept
  <2>3. Through(HeardBlock, SpokenBlock, Fragment, IfKnown, ItsText, ItsText)
    <3>1. \A b \in HeardBlock : (IfKnown[b] = <<b>> /\ b \in SpokenBlock) \/ (IfKnown[b] = <<>> /\ ItsText[b] = <<>>)
      BY <1>4
    <3> QED
      BY <1>6, <3>1, ThroughKept
  <2> QED
    BY <2>1, <2>2, <2>3 DEF Keeps
<1>9. Keeps(IfSaid)
  <2>1. Through(HeardBlock, SpokenBlock, Atom, IfSaid, BlockAtoms, BlockAtoms)
    <3>1. \A b \in HeardBlock : (IfSaid[b] = <<b>> /\ b \in SpokenBlock) \/ (IfSaid[b] = <<>> /\ BlockAtoms[b] = <<>>)
      BY <1>4
    <3> QED
      BY <1>7, <3>1, ThroughKept
  <2>2. Through(HeardBlock, SpokenBlock, CallBlock, IfSaid, IfCall, IfCall)
    <3>1. \A b \in HeardBlock : (IfSaid[b] = <<b>> /\ b \in SpokenBlock) \/ (IfSaid[b] = <<>> /\ IfCall[b] = <<>>)
      BY <1>4
    <3> QED
      BY <1>5, <3>1, ThroughKept
  <2>3. Through(HeardBlock, SpokenBlock, Fragment, IfSaid, ItsText, ItsText)
    <3>1. \A b \in HeardBlock : (IfSaid[b] = <<b>> /\ b \in SpokenBlock) \/ (IfSaid[b] = <<>> /\ ItsText[b] = <<>>)
      BY <1>4
    <3> QED
      BY <1>6, <3>1, ThroughKept
  <2> QED
    BY <2>1, <2>2, <2>3 DEF Keeps
<1> QED
  BY <1>8, <1>9

\* The response that is made with such a selection.
LEMMA KeptContent ==
    ASSUME NEW g, Keeps(g), NEW s \in Seq(HeardBlock), NEW content, content = FlatMap(g, s)
    PROVE  /\ content \in Seq(SpokenBlock)
           /\ FlatMap(BlockAtoms, content) = FlatMap(BlockAtoms, s)
           /\ ToolUses(content) = ToolUses(s) /\ TextOf(content) = TextOf(s)
<1>1. content \in Seq(SpokenBlock)
  <2>1. \A b \in HeardBlock : g[b] \in Seq(SpokenBlock)
    BY DEF Keeps, Through
  <2>2. PICK n \in Nat : DOMAIN s = 1 .. n
    OBVIOUS
  <2>3. PICK f : f = [k \in DOMAIN s |-> g[s[k]]]
    OBVIOUS
  <2>4. \A k \in 1 .. n : s[k] \in HeardBlock
    BY <2>2
  <2>5. f \in [1 .. n -> Seq(SpokenBlock)]
    BY <2>1, <2>2, <2>3, <2>4
  <2>6. f \in Seq(Seq(SpokenBlock))
    BY <2>5
  <2>7. FlattenSeq(f) \in Seq(SpokenBlock)
    BY <2>6, FlattenIs
  <2> QED
    BY <2>3, <2>7 DEF FlatMap
<1>2. FlatMap(BlockAtoms, content) = FlatMap(BlockAtoms, s)
  <2>1. Through(HeardBlock, SpokenBlock, Atom, g, BlockAtoms, BlockAtoms)
    BY DEF Keeps
  <2> QED
    BY <2>1, FlatMapThrough
<1>3. FlatMap(IfCall, content) = FlatMap(IfCall, s)
  <2>1. Through(HeardBlock, SpokenBlock, CallBlock, g, IfCall, IfCall)
    BY DEF Keeps
  <2> QED
    BY <2>1, FlatMapThrough
<1>4. FlatMap(ItsText, content) = FlatMap(ItsText, s)
  <2>1. Through(HeardBlock, SpokenBlock, Fragment, g, ItsText, ItsText)
    BY DEF Keeps
  <2> QED
    BY <2>1, FlatMapThrough
<1>5. content \in Seq(AnyBlock)
  <2>1. SpokenBlock \subseteq AnyBlock
    BY HeardKinds
  <2> QED
    BY <1>1, <2>1, SeqWider
<1>6. s \in Seq(AnyBlock)
  <2>1. HeardBlock \subseteq AnyBlock
    BY HeardKinds
  <2> QED
    BY <2>1, SeqWider
<1> QED
  BY <1>1, <1>2, <1>3, <1>4, <1>5, <1>6, SelectionsAre

-----------------------------------------------------------------------------
(* What the response says is what the reply says.                          *)

\* What a response has of a reply that got here whole.
SaysReply(ad, content, r) ==
    /\ content \in ResponseContent(ad)
    /\ FlatMap(BlockAtoms, content) = ReplyAtoms(ad, r)
    /\ ToolUses(content) = ToolUses(r.blocks)
    /\ TextOf(content) = TextOf(r.blocks)

BadCall(blocks) == \E k \in DOMAIN blocks : IsCall(blocks[k]) /\ ~Parses(blocks[k].input)

LEMMA FinishAs ==
    ASSUME NEW a \in Accumulator
    PROVE  Finish(a) = IF BadCall(a.blocks) THEN Failed("malformed")
                       ELSE Response(FlatMap(IfSaid, a.blocks),
                                     IF a.stop_reason = "none" THEN "EndTurn" ELSE StopReason(a.stop_reason))
<1>1. PICK blocks : blocks = a.blocks
  OBVIOUS
<1>2. blocks \in Seq(OpenBlock)
  BY <1>1 DEF Accumulator
<1>3. \A k \in DOMAIN blocks : blocks[k] \in AnyBlock
  <2>1. OpenBlock \subseteq AnyBlock
    BY BlockKinds
  <2>2. blocks \in Seq(AnyBlock)
    BY <1>2, <2>1, SeqWider
  <2> HIDE DEF AnyBlock
  <2> QED
    BY <2>2
<1>4. [k \in DOMAIN blocks |-> IF IsCall(blocks[k]) \/ (IsText(blocks[k]) /\ blocks[k].text # <<>>)
                               THEN <<blocks[k]>> ELSE <<>>]
      = [k \in DOMAIN blocks |-> IfSaid[blocks[k]]]
  BY <1>3 DEF IfSaid
<1>5. Select(blocks, LAMBDA b : IsCall(b) \/ (IsText(b) /\ b.text # <<>>)) = FlatMap(IfSaid, blocks)
  BY <1>4 DEF Select, FlatMap
<1> QED
  BY <1>1, <1>5, Zenon DEF Finish, BadCall

LEMMA FinishSays ==
    ASSUME NEW a \in Accumulator, Finish(a).ok
    PROVE  /\ Finish(a).content \in Seq(SpokenBlock)
           /\ FlatMap(BlockAtoms, Finish(a).content) = FlatMap(BlockAtoms, a.blocks)
           /\ ToolUses(Finish(a).content) = ToolUses(a.blocks)
           /\ TextOf(Finish(a).content) = TextOf(a.blocks)
<1>1. PICK content : content = FlatMap(IfSaid, a.blocks)
  OBVIOUS
<1>2. PICK stop : stop = IF a.stop_reason = "none" THEN "EndTurn" ELSE StopReason(a.stop_reason)
  OBVIOUS
<1>3. Finish(a) = IF BadCall(a.blocks) THEN Failed("malformed") ELSE Response(content, stop)
  BY <1>1, <1>2, FinishAs
<1>4. Finish(a).content = content
  BY <1>3 DEF Failed, Response
<1>5. a.blocks \in Seq(HeardBlock)
  <2>1. a.blocks \in Seq(OpenBlock) /\ OpenBlock \subseteq HeardBlock
    BY HeardKinds DEF Accumulator
  <2> QED
    BY <2>1, SeqWider
<1>6. Keeps(IfSaid)
  BY KeptSays
<1> QED
  BY <1>1, <1>4, <1>5, <1>6, KeptContent

\* What is heard of a reply through the Messages API.
LEMMA AnthropicHears ==
    ASSUME NEW ad \in {"anthropic", "compatible"}, NEW r \in Replies
    PROVE  ReplyAtoms(ad, r) = FlatMap(BlockAtoms, r.blocks)
<1>1. PICK blocks : blocks = r.blocks
  OBVIOUS
<1>2. blocks \in Seq(ReplyBlock)
  BY <1>1, ReplyIs DEF ReplyBlock
<1>3. \A k \in DOMAIN blocks : blocks[k] \in ReplyBlock
  <2> HIDE DEF ReplyBlock
  <2> QED
    BY <1>2
<1>4. ASSUME NEW b \in ReplyBlock
      PROVE  BlockAtoms[b] = CASE IsText(b) -> Atoms("text", b.text)
                               [] IsCall(b) -> <<<<"call", b.id>>>>
                               [] OTHER -> IF ad = "codex" /\ b.item.encrypted
                                           THEN <<<<"reasoning", b.item.id>>>> ELSE <<>>
  <2>1. CASE b \in TextBlock /\ IsText(b) /\ ~IsCall(b)
    <3>1. BlockAtoms[b] = Atoms("text", b.text)
      BY <2>1, BlockAtomsOf
    <3> QED
      BY <2>1, <3>1
  <2>2. CASE b \in CallBlock /\ IsCall(b) /\ ~IsText(b)
    <3>1. BlockAtoms[b] = <<<<"call", b.id>>>>
      BY <2>2, BlockAtomsOf
    <3> QED
      BY <2>2, <3>1
  <2>3. CASE b \in ThinkingBlock /\ ~IsCall(b) /\ ~IsText(b)
    <3>1. BlockAtoms[b] = <<>>
      BY <2>3, BlockAtomsOf
    <3> QED
      BY <2>3, <3>1
  <2> QED
    BY <2>1, <2>2, <2>3, ReplyKinds
<1>5. PICK F : F = [k \in DOMAIN blocks |->
                    CASE IsText(blocks[k]) -> Atoms("text", blocks[k].text)
                      [] IsCall(blocks[k]) -> <<<<"call", blocks[k].id>>>>
                      [] OTHER -> IF ad = "codex" /\ blocks[k].item.encrypted
                                  THEN <<<<"reasoning", blocks[k].item.id>>>> ELSE <<>>]
  OBVIOUS
<1>6. F = [k \in DOMAIN blocks |-> BlockAtoms[blocks[k]]]
  BY <1>3, <1>4, <1>5, Zenon
<1>7. ReplyAtoms(ad, r) = FlattenSeq(F)
  <2>1. ad # "openrouter"
    OBVIOUS
  <2> QED
    BY <1>1, <1>5, <2>1 DEF ReplyAtoms
<1> QED
  BY <1>1, <1>6, <1>7 DEF FlatMap

LEMMA CollectedAlike ==
    ASSUME NEW blocks \in Seq(ReplyBlock), NEW f, \A b \in ReplyBlock : f[Received(b)] = f[b]
    PROVE  FlatMap(f, Collected(blocks)) = FlatMap(f, blocks)
<1>1. \A k \in DOMAIN blocks : blocks[k] \in ReplyBlock
  <2> HIDE DEF ReplyBlock
  <2> QED
    OBVIOUS
<1>2. PICK c : c = Collected(blocks)
  OBVIOUS
<1>3. DOMAIN c = DOMAIN blocks /\ \A k \in DOMAIN blocks : c[k] = Received(blocks[k])
  BY <1>2 DEF Collected
<1>4. \A k \in DOMAIN blocks : f[c[k]] = f[blocks[k]]
  BY <1>1, <1>3
<1>5. [k \in DOMAIN c |-> f[c[k]]] = [k \in DOMAIN blocks |-> f[blocks[k]]]
  BY <1>3, <1>4
<1> QED
  BY <1>2, <1>5 DEF FlatMap

LEMMA CollectedSays ==
    ASSUME NEW blocks \in Seq(ReplyBlock)
    PROVE  /\ FlatMap(BlockAtoms, Collected(blocks)) = FlatMap(BlockAtoms, blocks)
           /\ ToolUses(Collected(blocks)) = ToolUses(blocks)
           /\ TextOf(Collected(blocks)) = TextOf(blocks)
           /\ BadCall(Collected(blocks)) = BadCall(blocks)
<1>1. \A b \in ReplyBlock : (b \in ThinkingBlock /\ Received(b) \in [type : {"ignored"}]) \/ Received(b) = b
  <2> SUFFICES ASSUME NEW b \in ReplyBlock
               PROVE  (b \in ThinkingBlock /\ Received(b) \in [type : {"ignored"}]) \/ Received(b) = b
    OBVIOUS
  <2>1. CASE IsText(b) \/ IsCall(b)
    BY <2>1, ReceivedIs
  <2>2. CASE ~IsText(b) /\ ~IsCall(b)
    <3>1. b \in ThinkingBlock
      BY <2>2, ReplyKinds
    <3>2. Received(b) = [type |-> "ignored"]
      BY <2>2, ReceivedIs
    <3> QED
      BY <3>1, <3>2
  <2> QED
    BY <2>1, <2>2
<1>2. ASSUME NEW b \in ReplyBlock
      PROVE  BlockAtoms[Received(b)] = BlockAtoms[b] /\ IfCall[Received(b)] = IfCall[b] /\ ItsText[Received(b)] = ItsText[b]
  <2>1. CASE Received(b) = b
    BY <2>1
  <2>2. CASE b \in ThinkingBlock /\ Received(b) \in [type : {"ignored"}]
    <3>1. PICK c : c = Received(b)
      OBVIOUS
    <3>2. b \in ThinkingBlock \union [type : {"ignored"}] /\ c \in ThinkingBlock \union [type : {"ignored"}]
      BY <2>2, <3>1
    <3>3. BlockAtoms[b] = <<>> /\ BlockAtoms[c] = <<>>
      BY <3>2, BlockAtomsOf
    <3>4. IfCall[b] = <<>> /\ IfCall[c] = <<>> /\ ItsText[b] = <<>> /\ ItsText[c] = <<>>
      <4>1. b \in ThinkingBlock \union OpaqueBlock \union [type : {"ignored"}]
        BY <3>2
      <4>2. c \in ThinkingBlock \union OpaqueBlock \union [type : {"ignored"}]
        BY <3>2
      <4> QED
        BY <4>1, <4>2, SelectionsOf
    <3> QED
      BY <3>1, <3>3, <3>4
  <2> QED
    BY <1>1, <2>1, <2>2
<1>3. PICK c : c = Collected(blocks)
  OBVIOUS
<1>4. blocks \in Seq(AnyBlock)
  <2>1. ReplyBlock \subseteq AnyBlock
    BY BlockKinds DEF ReplyBlock
  <2> QED
    BY <2>1, SeqWider
<1>5. c \in Seq(AnyBlock)
  <2>1. c \in Seq(OpenBlock) /\ OpenBlock \subseteq AnyBlock
    BY <1>3, CollectedIs, BlockKinds
  <2> QED
    BY <2>1, SeqWider
<1>6. FlatMap(BlockAtoms, c) = FlatMap(BlockAtoms, blocks)
  BY <1>2, <1>3, CollectedAlike
<1>7. FlatMap(IfCall, c) = FlatMap(IfCall, blocks)
  BY <1>2, <1>3, CollectedAlike
<1>8. FlatMap(ItsText, c) = FlatMap(ItsText, blocks)
  BY <1>2, <1>3, CollectedAlike
<1>9. BadCall(c) = BadCall(blocks)
  <2>1. DOMAIN c = DOMAIN blocks /\ \A k \in DOMAIN blocks : c[k] = Received(blocks[k])
    BY <1>3 DEF Collected
  <2>2. \A k \in DOMAIN blocks : blocks[k] \in ReplyBlock
    <3> HIDE DEF ReplyBlock
    <3> QED
      OBVIOUS
  <2>3. \A k \in DOMAIN blocks : c[k] = blocks[k] \/ (~IsCall(c[k]) /\ ~IsCall(blocks[k]))
    <3> SUFFICES ASSUME NEW k \in DOMAIN blocks
                 PROVE  c[k] = blocks[k] \/ (~IsCall(c[k]) /\ ~IsCall(blocks[k]))
      OBVIOUS
    <3>1. PICK b : b = blocks[k]
      OBVIOUS
    <3>2. b \in ReplyBlock /\ c[k] = Received(b)
      BY <2>1, <2>2, <3>1
    <3>3. CASE b \in ThinkingBlock /\ Received(b) \in [type : {"ignored"}]
      BY <3>1, <3>2, <3>3, KindsDiffer
    <3> QED
      BY <1>1, <3>1, <3>2, <3>3
  <2>4. \A k \in DOMAIN blocks : (IsCall(c[k]) /\ ~Parses(c[k].input)) <=> (IsCall(blocks[k]) /\ ~Parses(blocks[k].input))
    BY <2>3
  <2> QED
    BY <2>1, <2>4 DEF BadCall
<1> QED
  BY <1>3, <1>4, <1>5, <1>6, <1>7, <1>8, <1>9, SelectionsAre

\* What is made of a reply that gets here whole.
Delivered(r) == IF adapter = "anthropic" THEN Finish(Full(r)) ELSE FromWire(r)

LEMMA FullIs ==
    ASSUME NEW r \in Replies
    PROVE  /\ Full(r) \in Accumulator /\ Full(r).blocks = Collected(r.blocks)
           /\ Full(r).stop_reason = AnthropicStop[r.stop] /\ Full(r).stop_reason \in WireStops
<1>1. PICK c, stop : c = Collected(r.blocks) /\ stop = AnthropicStop[r.stop]
  OBVIOUS
<1>2. c \in Seq(OpenBlock)
  <2>1. r.blocks \in Seq(ReplyBlock)
    BY ReplyIs DEF ReplyBlock
  <2> QED
    BY <1>1, <2>1, CollectedIs
<1>3. stop \in WireStops
  BY <1>1, ReplyIs DEF AnthropicStop, WireStops
<1> QED
  BY <1>1, <1>2, <1>3 DEF Full, Accumulator

LEMMA StreamedSays ==
    ASSUME NEW r \in Replies, Finish(Full(r)).ok
    PROVE  SaysReply("anthropic", Finish(Full(r)).content, r)
<1>1. PICK a : a = Full(r)
  OBVIOUS
<1>2. PICK d : d = Finish(a)
  OBVIOUS
<1>3. PICK content : content = d.content
  OBVIOUS
<1>4. r.blocks \in Seq(ReplyBlock)
  BY ReplyIs DEF ReplyBlock
<1>5. a \in Accumulator /\ a.blocks = Collected(r.blocks)
  BY <1>1, FullIs
<1>6. /\ content \in Seq(SpokenBlock)
      /\ FlatMap(BlockAtoms, content) = FlatMap(BlockAtoms, a.blocks)
      /\ ToolUses(content) = ToolUses(a.blocks)
      /\ TextOf(content) = TextOf(a.blocks)
  BY <1>1, <1>2, <1>3, <1>5, FinishSays
<1>7. content \in ResponseContent("anthropic")
  BY <1>6 DEF ResponseContent, SpokenBlock
<1>8. ReplyAtoms("anthropic", r) = FlatMap(BlockAtoms, r.blocks)
  BY AnthropicHears
<1>9. /\ FlatMap(BlockAtoms, a.blocks) = FlatMap(BlockAtoms, r.blocks)
      /\ ToolUses(a.blocks) = ToolUses(r.blocks) /\ TextOf(a.blocks) = TextOf(r.blocks)
  BY <1>4, <1>5, CollectedSays
<1>10. SaysReply("anthropic", content, r)
  BY <1>6, <1>7, <1>8, <1>9 DEF SaysReply
<1> QED
  BY <1>1, <1>2, <1>3, <1>10

LEMMA BodyAs ==
    ASSUME NEW r \in Replies
    PROVE  AnthropicResponse(AnthropicBody(r)) = Response(FlatMap(IfKnown, r.blocks), StopReason(AnthropicStop[r.stop]))
<1>1. PICK blocks, stop : blocks = r.blocks /\ stop = AnthropicStop[r.stop]
  OBVIOUS
<1>2. blocks \in Seq(AnyBlock)
  <2>1. blocks \in Seq(ReplyBlock)
    BY <1>1, ReplyIs DEF ReplyBlock
  <2>2. ReplyBlock \subseteq AnyBlock
    BY BlockKinds DEF ReplyBlock
  <2> QED
    BY <2>1, <2>2, SeqWider
<1>3. \A k \in DOMAIN blocks : blocks[k] \in AnyBlock
  <2> HIDE DEF AnyBlock
  <2> QED
    BY <1>2
<1>4. [k \in DOMAIN blocks |-> IF blocks[k].type \in {"text", "tool_use"} THEN <<blocks[k]>> ELSE <<>>]
      = [k \in DOMAIN blocks |-> IfKnown[blocks[k]]]
  BY <1>3 DEF IfKnown
<1>5. Select(blocks, LAMBDA b : b.type \in {"text", "tool_use"}) = FlatMap(IfKnown, blocks)
  BY <1>4 DEF Select, FlatMap
<1>6. stop # "none"
  BY <1>1, ReplyIs DEF AnthropicStop
<1>7. PICK body : body = AnthropicBody(r)
  OBVIOUS
<1>8. body.content = blocks /\ body.stop_reason = stop
  BY <1>1, <1>7 DEF AnthropicBody
<1>9. AnthropicResponse(body) = Response(FlatMap(IfKnown, blocks), StopReason(stop))
  BY <1>5, <1>6, <1>8 DEF AnthropicResponse
<1> QED
  BY <1>1, <1>7, <1>9

LEMMA BodySays ==
    ASSUME NEW r \in Replies, NEW d, d = AnthropicResponse(AnthropicBody(r))
    PROVE  d.ok /\ SaysReply("compatible", d.content, r)
<1>1. PICK content, stop : content = FlatMap(IfKnown, r.blocks) /\ stop = StopReason(AnthropicStop[r.stop])
  OBVIOUS
<1>2. d.ok /\ d.content = content
  BY <1>1, BodyAs DEF Response
<1>3. r.blocks \in Seq(HeardBlock)
  <2>1. r.blocks \in Seq(ReplyBlock)
    BY ReplyIs DEF ReplyBlock
  <2>2. ReplyBlock \subseteq HeardBlock
    BY HeardKinds
  <2> QED
    BY <2>1, <2>2, SeqWider
<1>4. Keeps(IfKnown)
  BY KeptSays
<1>5. /\ content \in Seq(SpokenBlock)
      /\ FlatMap(BlockAtoms, content) = FlatMap(BlockAtoms, r.blocks)
      /\ ToolUses(content) = ToolUses(r.blocks) /\ TextOf(content) = TextOf(r.blocks)
  BY <1>1, <1>3, <1>4, KeptContent
<1>6. content \in ResponseContent("compatible")
  BY <1>5 DEF ResponseContent, SpokenBlock
<1>7. ReplyAtoms("compatible", r) = FlatMap(BlockAtoms, r.blocks)
  BY AnthropicHears
<1> QED
  BY <1>2, <1>5, <1>6, <1>7 DEF SaysReply

\* The text and the calls of a reply.
LEMMA ReplySelections ==
    ASSUME NEW r \in Replies
    PROVE  TextOf(r.blocks) \in Seq(Fragment) /\ ToolUses(r.blocks) \in Seq(CallBlock)
<1>1. r.blocks \in Seq(AnyBlock)
  <2>1. r.blocks \in Seq(ReplyBlock)
    BY ReplyIs DEF ReplyBlock
  <2>2. ReplyBlock \subseteq AnyBlock
    BY BlockKinds DEF ReplyBlock
  <2> QED
    BY <2>1, <2>2, SeqWider
<1>2. IfCall \in Conversion(AnyBlock, CallBlock)
  BY SelectionsConvert
<1>3. ItsText \in Conversion(AnyBlock, Fragment)
  BY SelectionsConvert
<1>4. FlatMap(IfCall, r.blocks) \in Seq(CallBlock)
  BY <1>1, <1>2, FlatMapIs
<1>5. FlatMap(ItsText, r.blocks) \in Seq(Fragment)
  BY <1>1, <1>3, FlatMapIs
<1> QED
  BY <1>1, <1>4, <1>5, SelectionsAre

\* All the text in one block, then the calls.
LEMMA OneText ==
    ASSUME NEW text \in Seq(Fragment), NEW t, t = IF text = <<>> THEN <<>> ELSE <<Text(text)>>
    PROVE  t \in Seq(TextBlock) /\ TextOf(t) = text
<1>1. PICK b : b = Text(text)
  OBVIOUS
<1>2. b \in TextBlock /\ b.text = text
  BY <1>1, TextIs DEF Text
<1>3. <<b>> \in Seq(TextBlock) /\ <<>> \in Seq(TextBlock)
  BY <1>2, OneOf
<1>4. t \in Seq(TextBlock)
  BY <1>1, <1>3
<1>5. t \in Seq(AnyBlock)
  <2>1. TextBlock \subseteq AnyBlock
    BY BlockKinds
  <2> QED
    BY <1>4, <2>1, SeqWider
<1>6. TextOf(t) = FlatMap(ItsText, t)
  BY <1>5, SelectionsAre
<1>7. CASE text = <<>>
  <2>1. t = <<>>
    BY <1>7
  <2> QED
    BY <1>4, <1>6, <1>7, <2>1, FlatMapNone
<1>8. CASE text # <<>>
  <2>1. t = <<b>>
    BY <1>1, <1>8
  <2>2. ItsText[b] = text
    BY <1>2, SelectionsOf
  <2>3. FlatMap(ItsText, <<b>>) = text
    <3>1. ItsText[b] \in Seq(Fragment)
      BY <2>2
    <3> QED
      BY <2>2, <3>1, FlatMapSingle
  <2> QED
    BY <1>4, <1>6, <2>1, <2>3
<1> QED
  BY <1>7, <1>8

LEMMA ChatAs ==
    ASSUME NEW r \in Replies, NEW t, t = IF TextOf(r.blocks) = <<>> THEN <<>> ELSE <<Text(TextOf(r.blocks))>>
    PROVE  ChatResponse(ChatBody(r)) =
             IF \E k \in DOMAIN ToolUses(r.blocks) : ~Parses(ToolUses(r.blocks)[k].input) THEN Failed("malformed")
             ELSE Response(t \o ToolUses(r.blocks),
                           IF ToolUses(r.blocks) # <<>> THEN "ToolUse" ELSE FinishReason(ChatStop[r.stop]))
<1>1. PICK text, calls, body : text = TextOf(r.blocks) /\ calls = ToolUses(r.blocks) /\ body = ChatBody(r)
  OBVIOUS
<1>2. PICK message, choice : /\ message = [content |-> text, tool_calls |-> calls]
                             /\ choice = [message |-> message, finish_reason |-> ChatStop[r.stop]]
  OBVIOUS
<1>3. body.choices = <<choice>>
  BY <1>1, <1>2 DEF ChatBody
<1>4. /\ body.choices # <<>> /\ Head(body.choices) = choice /\ choice.message = message
      /\ message.content = text /\ message.tool_calls = calls /\ choice.finish_reason = ChatStop[r.stop]
  BY <1>2, <1>3
<1>5. ChatResponse(body) =
         IF \E k \in DOMAIN calls : ~Parses(calls[k].input) THEN Failed("malformed")
         ELSE Response(t \o calls, IF calls # <<>> THEN "ToolUse" ELSE FinishReason(ChatStop[r.stop]))
  BY <1>1, <1>4 DEF ChatResponse
<1> QED
  BY <1>1, <1>5

LEMMA ChatResponseSays ==
    ASSUME NEW r \in Replies, NEW d, d = ChatResponse(ChatBody(r)), d.ok
    PROVE  SaysReply("openrouter", d.content, r)
<1>1. PICK text, calls : text = TextOf(r.blocks) /\ calls = ToolUses(r.blocks)
  OBVIOUS
<1>2. PICK t : t = IF text = <<>> THEN <<>> ELSE <<Text(text)>>
  OBVIOUS
<1>3. PICK content : content = t \o calls
  OBVIOUS
<1>4. text \in Seq(Fragment) /\ calls \in Seq(CallBlock)
  BY <1>1, ReplySelections
<1>5. t \in Seq(TextBlock) /\ TextOf(t) = text
  BY <1>2, <1>4, OneText
<1>6. d.content = content
  <2>1. d = Failed("malformed") \/ \E stop : d = Response(content, stop)
    BY <1>1, <1>2, <1>3, ChatAs
  <2> QED
    BY <2>1 DEF Failed, Response
<1>7. /\ ToolUses(content) = calls
      /\ TextOf(content) = TextOf(t)
      /\ FlatMap(BlockAtoms, content) = Atoms("text", TextOf(t)) \o [k \in DOMAIN calls |-> <<"call", calls[k].id>>]
  BY <1>3, <1>4, <1>5, TextThenCalls
<1>8. content \in ResponseContent("openrouter")
  <2>1. content \in TextsThenCalls
    BY <1>3, <1>4, <1>5 DEF TextsThenCalls
  <2> QED
    BY <2>1 DEF ResponseContent
<1>9. ReplyAtoms("openrouter", r) = Atoms("text", text) \o [k \in DOMAIN calls |-> <<"call", calls[k].id>>]
  BY <1>1 DEF ReplyAtoms
<1> QED
  BY <1>1, <1>5, <1>6, <1>7, <1>8, <1>9 DEF SaysReply

-----------------------------------------------------------------------------
(* Codex: the response is put together from the items.                     *)

DoneEvent(b) == [type |-> "output_item.done", item |-> CodexItem(b)]
Items(blocks) == [k \in DOMAIN blocks |-> CodexItem(blocks[k])]

LEMMA OutputItemsAre ==
    ASSUME NEW blocks \in Seq(ReplyBlock)
    PROVE  Items(blocks) \in Seq(OutputItem) /\ DOMAIN Items(blocks) = DOMAIN blocks
<1>1. PICK n \in Nat : DOMAIN blocks = 1 .. n
  OBVIOUS
<1>2. \A k \in 1 .. n : blocks[k] \in ReplyBlock
  <2> HIDE DEF ReplyBlock
  <2> QED
    BY <1>1
<1>3. \A k \in 1 .. n : CodexItem(blocks[k]) \in OutputItem
  BY <1>2, CodexItemIs DEF ReplyBlock
<1>4. PICK f : f = [k \in 1 .. n |-> CodexItem(blocks[k])]
  OBVIOUS
<1>5. f \in [1 .. n -> OutputItem]
  BY <1>3, <1>4
<1>6. f \in Seq(OutputItem) /\ DOMAIN f = 1 .. n
  BY <1>4, <1>5
<1>7. Items(blocks) = f
  BY <1>1, <1>4 DEF Items
<1> QED
  BY <1>1, <1>6, <1>7

\* Events of one type.
OfType(types) == [e \in CodexEvent |-> IF e.type \in types THEN <<e>> ELSE <<>>]

LEMMA OfTypeIs ==
    ASSUME NEW types
    PROVE  OfType(types) \in Conversion(CodexEvent, CodexEvent)
<1>1. \A e \in CodexEvent : (IF e.type \in types THEN <<e>> ELSE <<>>) \in Seq(CodexEvent)
  <2> SUFFICES ASSUME NEW e \in CodexEvent PROVE (IF e.type \in types THEN <<e>> ELSE <<>>) \in Seq(CodexEvent)
    OBVIOUS
  <2>1. <<e>> \in Seq(CodexEvent)
    BY OneOf
  <2>2. <<>> \in Seq(CodexEvent)
    OBVIOUS
  <2> QED
    BY <2>1, <2>2
<1> HIDE DEF CodexEvent
<1> QED
  BY <1>1 DEF OfType, Conversion

AllOfType(events, type) == \A k \in DOMAIN events : events[k].type = type
KeptOf(types, done, type, last) ==
    FlatMap(OfType(types), done \o <<last>>)
    = (IF type \in types THEN done ELSE <<>>) \o (IF last.type \in types THEN <<last>> ELSE <<>>)

LEMMA EventsOfType ==
    ASSUME NEW types, NEW done \in Seq(CodexEvent), NEW last \in CodexEvent,
           NEW D, AllOfType(done, D)
    PROVE  KeptOf(types, done, D, last)
<1> USE DEF AllOfType, KeptOf
<1>1. PICK f : f = OfType(types)
  OBVIOUS
<1>2. f \in Conversion(CodexEvent, CodexEvent)
  BY <1>1, OfTypeIs
<1>3. \A e \in CodexEvent : f[e] = IF e.type \in types THEN <<e>> ELSE <<>>
  <2> HIDE DEF CodexEvent
  <2> QED
    BY <1>1 DEF OfType
<1>4. <<last>> \in Seq(CodexEvent)
  BY OneOf
<1>5. FlatMap(f, done \o <<last>>) = FlatMap(f, done) \o FlatMap(f, <<last>>)
  <2>1. PICK one : one = <<last>>
    OBVIOUS
  <2>2. one \in Seq(CodexEvent)
    BY <1>4, <2>1
  <2>3. FlatMap(f, done \o one) = FlatMap(f, done) \o FlatMap(f, one)
    BY <1>2, <2>2, FlatMapBoth
  <2> QED
    BY <2>1, <2>3
<1>6. FlatMap(f, <<last>>) = f[last]
  BY <1>2, FlatMapOne
<1>7. PICK S : S = {e \in CodexEvent : e.type = D}
  OBVIOUS
<1>8. done \in Seq(S)
  <2>1. PICK n \in Nat : DOMAIN done = 1 .. n
    OBVIOUS
  <2>2. \A k \in 1 .. n : done[k] \in CodexEvent
    BY <2>1
  <2>3. \A k \in 1 .. n : done[k] \in S
    BY <1>7, <2>1, <2>2
  <2>4. done = [k \in 1 .. n |-> done[k]]
    BY <2>1
  <2>5. done \in [1 .. n -> S]
    BY <2>3, <2>4
  <2> QED
    BY <2>5
<1>9. CASE D \in types
  <2>1. \A e \in S : f[e] = <<e>>
    BY <1>3, <1>7, <1>9
  <2>2. FlatMap(f, done) = done
    BY <1>8, <2>1, FlatMapAll
  <2> QED
    BY <1>1, <1>3, <1>5, <1>6, <1>9, <2>2
<1>10. CASE D \notin types
  <2>1. \A e \in S : f[e] = <<>>
    BY <1>3, <1>7, <1>10
  <2>2. FlatMap(f, done) = <<>>
    BY <1>8, <2>1, FlatMapNothing
  <2> QED
    BY <1>1, <1>3, <1>5, <1>6, <1>10, <2>2
<1> QED
  BY <1>9, <1>10

LEMMA CodexStreamAs ==
    ASSUME NEW r \in Replies
    PROVE  \E body : /\ ParseStream(CodexBody(CodexEvents(r))) = CodexResponse(body)
                     /\ body.output = Items(r.blocks)
                     /\ body.error = FALSE /\ body.status = CodexStatus[r.stop]
<1>1. PICK blocks, status_ : blocks = r.blocks /\ status_ = CodexStatus[r.stop]
  OBVIOUS
<1>2. blocks \in Seq(ReplyBlock)
  BY <1>1, ReplyIs DEF ReplyBlock
<1>3. PICK n \in Nat : DOMAIN blocks = 1 .. n
  BY <1>2
<1>4. PICK response : response = [output |-> <<>>, error |-> FALSE, status |-> status_]
  OBVIOUS
<1>5. PICK done, last :
        /\ done = [k \in DOMAIN blocks |-> DoneEvent(blocks[k])]
        /\ last = [type |-> IF r.stop = "length" THEN "incomplete" ELSE "completed", response |-> response]
  OBVIOUS
<1>6. CodexEvents(r) = done \o <<last>>
  BY <1>1, <1>4, <1>5, Zenon DEF CodexEvents, DoneEvent
<1>7. \A k \in 1 .. n : CodexItem(blocks[k]) \in OutputItem
  <2>1. \A k \in 1 .. n : blocks[k] \in ReplyBlock
    <3> HIDE DEF ReplyBlock
    <3> QED
      BY <1>2, <1>3
  <2> QED
    BY <2>1, CodexItemIs DEF ReplyBlock
<1>8. done \in Seq(CodexEvent)
  <2>1. \A k \in 1 .. n : DoneEvent(blocks[k]) \in CodexEvent
    BY <1>7 DEF DoneEvent, CodexEvent
  <2>2. done \in [1 .. n -> CodexEvent]
    BY <1>3, <1>5, <2>1
  <2> QED
    BY <2>2
<1>9. DOMAIN done = 1 .. n /\ \A k \in 1 .. n : done[k].type = "output_item.done" /\ done[k].item = CodexItem(blocks[k])
  BY <1>3, <1>5 DEF DoneEvent
<1>10. last \in CodexEvent /\ last.type \in {"incomplete", "completed"} /\ last.response = response
  <2>1. status_ \in {"completed", "max_output_tokens"}
    BY <1>1, ReplyIs DEF CodexStatus
  <2>2. response \in CodexOutcome
    BY <1>4, <2>1 DEF CodexOutcome
  <2> QED
    BY <1>5, <2>2 DEF CodexEvent
<1>11. PICK events : events = done \o <<last>>
  OBVIOUS
<1>12. events \in Seq(CodexEvent)
  BY <1>8, <1>10, <1>11
<1>13. \A k \in DOMAIN events : events[k] \in CodexEvent
  <2> HIDE DEF CodexEvent
  <2> QED
    BY <1>12
<1>14. \A k \in DOMAIN done : done[k].type = "output_item.done"
  BY <1>9
<1>15. ASSUME NEW types
       PROVE  KeptOf(types, done, "output_item.done", last)
  <2>1. AllOfType(done, "output_item.done")
    BY <1>14 DEF AllOfType
  <2>2. last \in CodexEvent
    BY <1>10
  <2> QED
    BY <1>8, <2>1, <2>2, EventsOfType
<1>16. Select(events, LAMBDA e : e.type = "output_item.done") = done
  <2>1. PICK types : types = {"output_item.done"}
    OBVIOUS
  <2>2. [k \in DOMAIN events |-> IF events[k].type = "output_item.done" THEN <<events[k]>> ELSE <<>>]
        = [k \in DOMAIN events |-> OfType(types)[events[k]]]
    BY <1>13, <2>1 DEF OfType
  <2>3. Select(events, LAMBDA e : e.type = "output_item.done") = FlatMap(OfType(types), events)
    BY <2>2 DEF Select, FlatMap
  <2>4. KeptOf(types, done, "output_item.done", last)
    BY <1>15
  <2> QED
    BY <1>8, <1>10, <1>11, <2>1, <2>3, <2>4 DEF KeptOf
<1>17. Select(events, LAMBDA e : e.type \in {"completed", "incomplete"}) = <<last>>
  <2>1. PICK types : types = {"completed", "incomplete"}
    OBVIOUS
  <2>2. [k \in DOMAIN events |-> IF events[k].type \in {"completed", "incomplete"} THEN <<events[k]>> ELSE <<>>]
        = [k \in DOMAIN events |-> OfType(types)[events[k]]]
    BY <1>13, <2>1 DEF OfType
  <2>3. Select(events, LAMBDA e : e.type \in {"completed", "incomplete"}) = FlatMap(OfType(types), events)
    BY <2>2 DEF Select, FlatMap
  <2>4. KeptOf(types, done, "output_item.done", last)
    BY <1>15
  <2> QED
    BY <1>8, <1>10, <1>11, <2>1, <2>3, <2>4 DEF KeptOf
<1>18. Select(events, LAMBDA e : e.type = "failed") = <<>>
  <2>1. PICK types : types = {"failed"}
    OBVIOUS
  <2>2. [k \in DOMAIN events |-> IF events[k].type = "failed" THEN <<events[k]>> ELSE <<>>]
        = [k \in DOMAIN events |-> OfType(types)[events[k]]]
    BY <1>13, <2>1 DEF OfType
  <2>3. Select(events, LAMBDA e : e.type = "failed") = FlatMap(OfType(types), events)
    BY <2>2 DEF Select, FlatMap
  <2>4. KeptOf(types, done, "output_item.done", last)
    BY <1>15
  <2> QED
    BY <1>8, <1>10, <1>11, <2>1, <2>3, <2>4 DEF KeptOf
<1>19. PICK items, completed, failed :
         /\ items = Select(events, LAMBDA e : e.type = "output_item.done")
         /\ completed = Select(events, LAMBDA e : e.type \in {"completed", "incomplete"})
         /\ failed = Select(events, LAMBDA e : e.type = "failed")
  OBVIOUS
<1>20. CodexBody(events).sse /\ CodexBody(events).events = events
  BY DEF CodexBody
<1>21. ParseStream(CodexBody(events)) =
         IF failed # <<>> \/ completed = <<>> THEN Failed("failure")
         ELSE CodexResponse(IF Last(completed).response.output # <<>> THEN Last(completed).response
                            ELSE [Last(completed).response EXCEPT !.output = [k \in DOMAIN items |-> items[k].item]])
  BY <1>19, <1>20 DEF ParseStream
<1>22. items = done /\ completed = <<last>> /\ failed = <<>>
  BY <1>16, <1>17, <1>18, <1>19
<1>23. Last(completed) = last
  BY <1>22 DEF Last
<1>24. ParseStream(CodexBody(events)) = CodexResponse([response EXCEPT !.output = [k \in DOMAIN done |-> done[k].item]])
  <2>1. response.output = <<>>
    BY <1>4
  <2>2. completed # <<>>
    BY <1>22
  <2> QED
    BY <1>10, <1>21, <1>22, <1>23, <2>1, <2>2
<1>25. [k \in DOMAIN done |-> done[k].item] = Items(blocks)
  BY <1>3, <1>9 DEF Items
<1>26. PICK body : body = [response EXCEPT !.output = Items(blocks)]
  OBVIOUS
<1>27. body.output = Items(blocks) /\ body.error = FALSE /\ body.status = status_
  BY <1>4, <1>26
<1>28. ParseStream(CodexBody(CodexEvents(r))) = CodexResponse(body)
  BY <1>6, <1>11, <1>24, <1>25, <1>26
<1> QED
  BY <1>1, <1>27, <1>28

\* The block an item becomes, by the block it came from.
ItsContent == [b \in ReplyBlock |-> ItemBlock(CodexItem(b))]
CodexHeard == [b \in ReplyBlock |->
    CASE IsText(b) -> Atoms("text", b.text)
      [] IsCall(b) -> <<<<"call", b.id>>>>
      [] OTHER -> IF b.item.encrypted THEN <<<<"reasoning", b.item.id>>>> ELSE <<>>]

LEMMA FlattenOne ==
    ASSUME NEW S, NEW t \in Seq(S) PROVE FlattenSeq(<<t>>) = t
<1>1. <<>> \in Seq(Seq(S))
  OBVIOUS
<1>2. FlattenSeq(Append(<<>>, t)) = FlattenSeq(<<>>) \o t
  BY <1>1, FlattenMore
<1>3. Append(<<>>, t) = <<t>> /\ <<>> \o t = t
  OBVIOUS
<1> QED
  BY <1>2, <1>3, FlattenNone

LEMMA ItsContentIs ==
    /\ \A b \in TextBlock : ItsContent[b] = IF b.text # <<>> THEN <<b>> ELSE <<>>
    /\ \A b \in CallBlock : ItsContent[b] = <<b>>
    /\ \A b \in ThinkingBlock : ItsContent[b] = <<Opaque(b.item)>> /\ Opaque(b.item) \in OpaqueBlock
<1>0. TextBlock \subseteq ReplyBlock /\ CallBlock \subseteq ReplyBlock /\ ThinkingBlock \subseteq ReplyBlock
  BY DEF ReplyBlock
<1>1. \A b \in ReplyBlock : ItsContent[b] = ItemBlock(CodexItem(b))
  <2> HIDE DEF ReplyBlock
  <2> QED
    BY DEF ItsContent
<1>2. ASSUME NEW b \in TextBlock PROVE ItsContent[b] = IF b.text # <<>> THEN <<b>> ELSE <<>>
  <2>1. PICK item : item = MessageItem("assistant", <<b.text>>)
    OBVIOUS
  <2>2. CodexItem(b) = item
    <3>1. IsText(b) /\ ~IsCall(b)
      BY KindsDiffer
    <3>2. ~IsThinking(b)
      BY KindsDiffer DEF IsThinking
    <3> QED
      BY <2>1, <3>1, <3>2 DEF CodexItem
  <2>3. item.type = "message" /\ item.content = <<b.text>>
    BY <2>1 DEF MessageItem
  <2>4. b.text \in Seq(Fragment)
    BY DEF TextBlock
  <2>5. FlattenSeq(item.content) = b.text
    <3>1. FlattenSeq(<<b.text>>) = b.text
      BY <2>4, FlattenOne
    <3> QED
      BY <2>3, <3>1
  <2>6. ItemBlock(item) = IF b.text # <<>> THEN <<Text(b.text)>> ELSE <<>>
    BY <2>3, <2>5 DEF ItemBlock
  <2>7. Text(b.text) = b
    BY DEF Text, TextBlock
  <2> QED
    BY <1>0, <1>1, <2>2, <2>6, <2>7
<1>3. ASSUME NEW b \in CallBlock PROVE ItsContent[b] = <<b>>
  <2>1. PICK item : item = CallItem(b)
    OBVIOUS
  <2>2. CodexItem(b) = item
    <3>1. IsCall(b) /\ ~IsText(b)
      BY KindsDiffer
    <3>2. ~IsThinking(b)
      BY KindsDiffer DEF IsThinking
    <3> QED
      BY <2>1, <3>1, <3>2 DEF CodexItem
  <2>3. item.type = "function_call" /\ item.call_id = b.id /\ item.name = b.name /\ item.arguments = b.input
    BY <2>1 DEF CallItem
  <2>4. ItemBlock(item) = <<ToolUse(b.id, b.name, b.input)>>
    BY <2>3 DEF ItemBlock
  <2>5. ToolUse(b.id, b.name, b.input) = b
    BY DEF ToolUse, CallBlock
  <2> QED
    BY <1>0, <1>1, <2>2, <2>4, <2>5
<1>4. ASSUME NEW b \in ThinkingBlock PROVE ItsContent[b] = <<Opaque(b.item)>> /\ Opaque(b.item) \in OpaqueBlock
  <2>1. PICK item : item = b.item
    OBVIOUS
  <2>2. item \in ReasoningItem /\ item.type = "reasoning"
    BY <2>1 DEF ThinkingBlock, ReasoningItem
  <2>3. CodexItem(b) = item
    <3>1. ~IsCall(b) /\ ~IsText(b)
      BY KindsDiffer
    <3>2. IsThinking(b)
      BY KindsDiffer DEF IsThinking
    <3> QED
      BY <2>1, <3>1, <3>2 DEF CodexItem
  <2>4. ItemBlock(item) = <<Opaque(item)>>
    BY <2>2 DEF ItemBlock
  <2>5. Opaque(item) \in OpaqueBlock
    BY <2>2 DEF Opaque, OpaqueBlock
  <2> QED
    BY <1>0, <1>1, <2>1, <2>3, <2>4, <2>5
<1> QED
  BY <1>2, <1>3, <1>4

LEMMA CodexHeardIs ==
    /\ \A b \in TextBlock : CodexHeard[b] = Atoms("text", b.text)
    /\ \A b \in CallBlock : CodexHeard[b] = <<<<"call", b.id>>>>
    /\ \A b \in ThinkingBlock : CodexHeard[b] = IF b.item.encrypted THEN <<<<"reasoning", b.item.id>>>> ELSE <<>>
<1>1. ASSUME NEW b \in TextBlock PROVE CodexHeard[b] = Atoms("text", b.text)
  <2>1. b \in ReplyBlock /\ IsText(b) /\ ~IsCall(b)
    BY KindsDiffer DEF ReplyBlock
  <2> QED
    BY <2>1 DEF CodexHeard
<1>2. ASSUME NEW b \in CallBlock PROVE CodexHeard[b] = <<<<"call", b.id>>>>
  <2>1. b \in ReplyBlock /\ ~IsText(b) /\ IsCall(b)
    BY KindsDiffer DEF ReplyBlock
  <2> QED
    BY <2>1 DEF CodexHeard
<1>3. ASSUME NEW b \in ThinkingBlock
      PROVE CodexHeard[b] = IF b.item.encrypted THEN <<<<"reasoning", b.item.id>>>> ELSE <<>>
  <2>1. b \in ReplyBlock /\ ~IsText(b) /\ ~IsCall(b)
    BY KindsDiffer DEF ReplyBlock
  <2> QED
    BY <2>1 DEF CodexHeard
<1> QED
  BY <1>1, <1>2, <1>3

\* The same said of a block and of the content it becomes.
Alike(f, T, h) ==
    /\ \A b \in ContentBlock : f[b] \in Seq(T)
    /\ \A b \in TextBlock : h[b] = f[b] /\ (b.text = <<>> => f[b] = <<>>)
    /\ \A b \in CallBlock : h[b] = f[b]
    /\ \A b \in ThinkingBlock : h[b] = f[Opaque(b.item)]

LEMMA ThroughItems ==
    ASSUME NEW T, NEW f, NEW h, Alike(f, T, h)
    PROVE  Through(ReplyBlock, ContentBlock, T, ItsContent, f, h)
<1>1. \A b \in ContentBlock : f[b] \in Seq(T)
  BY DEF Alike
<1>2. ASSUME NEW b \in ReplyBlock
      PROVE  ItsContent[b] \in Seq(ContentBlock) /\ h[b] = FlatMap(f, ItsContent[b])
  <2>1. CASE b \in TextBlock /\ b.text # <<>>
    <3>1. ItsContent[b] = <<b>> /\ b \in ContentBlock
      BY <2>1, ItsContentIs DEF ContentBlock
    <3>2. h[b] = f[b]
      BY <2>1 DEF Alike
    <3>3. FlatMap(f, <<b>>) = f[b]
      <4>1. f[b] \in Seq(T)
        BY <1>1, <3>1
      <4> QED
        BY <4>1, FlatMapSingle
    <3>4. <<b>> \in Seq(ContentBlock)
      BY <3>1, OneOf
    <3> QED
      BY <3>1, <3>2, <3>3, <3>4
  <2>2. CASE b \in TextBlock /\ b.text = <<>>
    <3>1. ItsContent[b] = <<>>
      BY <2>2, ItsContentIs
    <3>2. h[b] = <<>>
      BY <2>2 DEF Alike
    <3>3. <<>> \in Seq(ContentBlock)
      OBVIOUS
    <3> QED
      BY <3>1, <3>2, <3>3, FlatMapNone
  <2>3. CASE b \in CallBlock
    <3>1. ItsContent[b] = <<b>> /\ b \in ContentBlock
      BY <2>3, ItsContentIs DEF ContentBlock
    <3>2. h[b] = f[b]
      BY <2>3 DEF Alike
    <3>3. FlatMap(f, <<b>>) = f[b]
      <4>1. f[b] \in Seq(T)
        BY <1>1, <3>1
      <4> QED
        BY <4>1, FlatMapSingle
    <3>4. <<b>> \in Seq(ContentBlock)
      BY <3>1, OneOf
    <3> QED
      BY <3>1, <3>2, <3>3, <3>4
  <2>4. CASE b \in ThinkingBlock
    <3>0. PICK o : o = Opaque(b.item)
      OBVIOUS
    <3>1. ItsContent[b] = <<o>> /\ o \in ContentBlock
      BY <2>4, <3>0, ItsContentIs DEF ContentBlock
    <3>2. h[b] = f[o]
      BY <2>4, <3>0 DEF Alike
    <3>3. FlatMap(f, <<o>>) = f[o]
      <4>1. f[o] \in Seq(T)
        BY <1>1, <3>1
      <4> QED
        BY <4>1, FlatMapSingle
    <3>4. <<o>> \in Seq(ContentBlock)
      BY <3>1, OneOf
    <3> QED
      BY <3>1, <3>2, <3>3, <3>4
  <2> QED
    BY <2>1, <2>2, <2>3, <2>4 DEF ReplyBlock
<1> QED
  BY <1>1, <1>2 DEF Through

LEMMA ItemsAlike ==
    /\ Alike(BlockAtoms, Atom, CodexHeard)
    /\ Alike(IfCall, CallBlock, IfCall)
    /\ Alike(ItsText, Fragment, ItsText)
<1>1. \A b \in ContentBlock : b \in AnyBlock
  BY BlockKinds
<1>2. /\ \A b \in ContentBlock : BlockAtoms[b] \in Seq(Atom)
      /\ \A b \in ContentBlock : IfCall[b] \in Seq(CallBlock)
      /\ \A b \in ContentBlock : ItsText[b] \in Seq(Fragment)
  BY <1>1, BlockAtomsConvert, SelectionsConvert DEF Conversion
<1>3. ASSUME NEW b \in TextBlock, b.text = <<>> PROVE BlockAtoms[b] = <<>>
  <2>1. BlockAtoms[b] = Atoms("text", <<>>)
    BY <1>3, BlockAtomsOf
  <2>2. <<>> \in Seq(Fragment)
    OBVIOUS
  <2>3. Atoms("text", <<>>) \in Seq(Atom) /\ DOMAIN Atoms("text", <<>>) = DOMAIN <<>>
    BY <2>2, AtomsAre
  <2> QED
    BY <2>1, <2>3
<1>4. ASSUME NEW b \in ThinkingBlock
      PROVE  /\ CodexHeard[b] = BlockAtoms[Opaque(b.item)]
             /\ IfCall[b] = IfCall[Opaque(b.item)] /\ ItsText[b] = ItsText[Opaque(b.item)]
  <2>1. PICK o : o = Opaque(b.item)
    OBVIOUS
  <2>2. o \in OpaqueBlock /\ o.data = b.item
    BY <2>1, ItsContentIs DEF Opaque
  <2>3. BlockAtoms[o] = IF b.item.encrypted THEN <<<<"reasoning", b.item.id>>>> ELSE <<>>
    BY <2>2, BlockAtomsOf
  <2>4. CodexHeard[b] = BlockAtoms[o]
    BY <2>3, CodexHeardIs
  <2>5. IfCall[b] = <<>> /\ ItsText[b] = <<>> /\ IfCall[o] = <<>> /\ ItsText[o] = <<>>
    <3>1. b \in ThinkingBlock \union OpaqueBlock \union [type : {"ignored"}]
      OBVIOUS
    <3>2. o \in ThinkingBlock \union OpaqueBlock \union [type : {"ignored"}]
      BY <2>2
    <3> QED
      BY <3>1, <3>2, SelectionsOf
  <2> QED
    BY <2>1, <2>4, <2>5
<1>5. Alike(BlockAtoms, Atom, CodexHeard)
  <2>1. \A b \in TextBlock : CodexHeard[b] = BlockAtoms[b]
    BY CodexHeardIs, BlockAtomsOf
  <2>2. \A b \in CallBlock : CodexHeard[b] = BlockAtoms[b]
    BY CodexHeardIs, BlockAtomsOf
  <2> QED
    BY <1>2, <1>3, <1>4, <2>1, <2>2 DEF Alike
<1>6. Alike(IfCall, CallBlock, IfCall)
  <2>1. \A b \in TextBlock : IfCall[b] = <<>>
    BY SelectionsOf
  <2> QED
    BY <1>2, <1>4, <2>1 DEF Alike
<1>7. Alike(ItsText, Fragment, ItsText)
  <2>1. \A b \in TextBlock : ItsText[b] = b.text
    BY SelectionsOf
  <2> QED
    BY <1>2, <1>4, <2>1 DEF Alike
<1> QED
  BY <1>5, <1>6, <1>7

\* The content of Codex's response.
LEMMA ItemsSay ==
    ASSUME NEW blocks \in Seq(ReplyBlock), NEW content, content = FlatMap(ItsContent, blocks)
    PROVE  /\ content \in Seq(ContentBlock)
           /\ FlatMap(BlockAtoms, content) = FlatMap(CodexHeard, blocks)
           /\ ToolUses(content) = ToolUses(blocks) /\ TextOf(content) = TextOf(blocks)
<1>1. Through(ReplyBlock, ContentBlock, Atom, ItsContent, BlockAtoms, CodexHeard)
  BY ItemsAlike, ThroughItems
<1>2. Through(ReplyBlock, ContentBlock, CallBlock, ItsContent, IfCall, IfCall)
  BY ItemsAlike, ThroughItems
<1>3. Through(ReplyBlock, ContentBlock, Fragment, ItsContent, ItsText, ItsText)
  BY ItemsAlike, ThroughItems
<1>4. FlatMap(BlockAtoms, content) = FlatMap(CodexHeard, blocks)
  BY <1>1, FlatMapThrough
<1>5. FlatMap(IfCall, content) = FlatMap(IfCall, blocks)
  BY <1>2, FlatMapThrough
<1>6. FlatMap(ItsText, content) = FlatMap(ItsText, blocks)
  BY <1>3, FlatMapThrough
<1>7. content \in Seq(ContentBlock)
  <2>1. \A b \in ReplyBlock : ItsContent[b] \in Seq(ContentBlock)
    BY <1>1 DEF Through
  <2>2. ItsContent = [b \in ReplyBlock |-> ItsContent[b]]
    BY DEF ItsContent
  <2>3. ItsContent \in Conversion(ReplyBlock, ContentBlock)
    <3> HIDE DEF ReplyBlock, ItsContent
    <3> QED
      BY <2>1, <2>2 DEF Conversion
  <2> QED
    BY <2>3, FlatMapIs
<1>8. content \in Seq(AnyBlock)
  <2>1. ContentBlock \subseteq AnyBlock
    BY BlockKinds
  <2> QED
    BY <1>7, <2>1, SeqWider
<1>9. blocks \in Seq(AnyBlock)
  <2>1. ReplyBlock \subseteq AnyBlock
    BY BlockKinds DEF ReplyBlock
  <2> QED
    BY <2>1, SeqWider
<1> QED
  BY <1>4, <1>5, <1>6, <1>7, <1>8, <1>9, SelectionsAre

LEMMA CodexHears ==
    ASSUME NEW r \in Replies
    PROVE  ReplyAtoms("codex", r) = FlatMap(CodexHeard, r.blocks)
<1>1. PICK blocks : blocks = r.blocks
  OBVIOUS
<1>2. blocks \in Seq(ReplyBlock)
  BY <1>1, ReplyIs DEF ReplyBlock
<1>3. \A k \in DOMAIN blocks : blocks[k] \in ReplyBlock
  <2> HIDE DEF ReplyBlock
  <2> QED
    BY <1>2
<1>4. PICK F : F = [k \in DOMAIN blocks |->
                    CASE IsText(blocks[k]) -> Atoms("text", blocks[k].text)
                      [] IsCall(blocks[k]) -> <<<<"call", blocks[k].id>>>>
                      [] OTHER -> IF blocks[k].item.encrypted
                                  THEN <<<<"reasoning", blocks[k].item.id>>>> ELSE <<>>]
  OBVIOUS
<1>5. F = [k \in DOMAIN blocks |-> CodexHeard[blocks[k]]]
  BY <1>3, <1>4 DEF CodexHeard
<1>6. ReplyAtoms("codex", r) = FlattenSeq(F)
  BY <1>1, <1>4 DEF ReplyAtoms
<1> QED
  BY <1>1, <1>5, <1>6 DEF FlatMap

LEMMA CodexContent ==
    ASSUME NEW r \in Replies, NEW d, d = ParseStream(CodexBody(CodexEvents(r))), d.ok
    PROVE  d.content = FlatMap(ItsContent, r.blocks)
<1>1. PICK body : d = CodexResponse(body) /\ body.output = Items(r.blocks) /\ body.error = FALSE
  BY CodexStreamAs
<1>2. PICK blocks : blocks = r.blocks
  OBVIOUS
<1>3. blocks \in Seq(ReplyBlock)
  BY <1>2, ReplyIs DEF ReplyBlock
<1>4. \A k \in DOMAIN blocks : blocks[k] \in ReplyBlock
  <2> HIDE DEF ReplyBlock
  <2> QED
    BY <1>3
<1>5. PICK content : content = FlattenSeq([k \in DOMAIN body.output |-> ItemBlock(body.output[k])])
  OBVIOUS
<1>6. d = Failed("failure") \/ d = Failed("malformed") \/ \E stop : d = Response(content, stop)
  BY <1>1, <1>5 DEF CodexResponse
<1>7. d.content = content
  BY <1>6 DEF Failed, Response
<1>8. [k \in DOMAIN body.output |-> ItemBlock(body.output[k])] = [k \in DOMAIN blocks |-> ItsContent[blocks[k]]]
  <2>1. DOMAIN body.output = DOMAIN blocks /\ \A k \in DOMAIN blocks : body.output[k] = CodexItem(blocks[k])
    BY <1>1, <1>2 DEF Items
  <2>2. \A k \in DOMAIN blocks : ItsContent[blocks[k]] = ItemBlock(CodexItem(blocks[k]))
    <3> HIDE DEF ReplyBlock
    <3> QED
      BY <1>4 DEF ItsContent
  <2> QED
    BY <2>1, <2>2
<1> QED
  BY <1>2, <1>5, <1>7, <1>8 DEF FlatMap

LEMMA CodexResponseSays ==
    ASSUME NEW r \in Replies, NEW d, d = ParseStream(CodexBody(CodexEvents(r))), d.ok
    PROVE  SaysReply("codex", d.content, r)
<1>1. PICK content : content = FlatMap(ItsContent, r.blocks)
  OBVIOUS
<1>2. d.content = content
  BY <1>1, CodexContent
<1>3. r.blocks \in Seq(ReplyBlock)
  BY ReplyIs DEF ReplyBlock
<1>4. /\ content \in Seq(ContentBlock)
      /\ FlatMap(BlockAtoms, content) = FlatMap(CodexHeard, r.blocks)
      /\ ToolUses(content) = ToolUses(r.blocks) /\ TextOf(content) = TextOf(r.blocks)
  BY <1>1, <1>3, ItemsSay
<1>5. content \in ResponseContent("codex")
  BY <1>4 DEF ResponseContent
<1>6. ReplyAtoms("codex", r) = FlatMap(CodexHeard, r.blocks)
  BY CodexHears
<1> QED
  BY <1>2, <1>4, <1>5, <1>6 DEF SaysReply

\* Whatever adapter it came through, a whole reply is said by its response.
LEMMA DeliveredSays ==
    ASSUME adapter \in {"anthropic", "compatible", "codex", "openrouter"},
           NEW r \in Replies, NEW d, d = Delivered(r), d.ok
    PROVE  SaysReply(adapter, d.content, r)
<1>1. CASE adapter = "anthropic"
  <2>1. d = Finish(Full(r))
    BY <1>1 DEF Delivered
  <2> QED
    BY <1>1, <2>1, StreamedSays
<1>2. CASE adapter = "compatible"
  <2>1. d = AnthropicResponse(AnthropicBody(r))
    BY <1>2 DEF Delivered, FromWire
  <2> QED
    BY <1>2, <2>1, BodySays
<1>3. CASE adapter = "codex"
  <2>1. d = ParseStream(CodexBody(CodexEvents(r)))
    BY <1>3 DEF Delivered, FromWire
  <2> QED
    BY <1>3, <2>1, CodexResponseSays
<1>4. CASE adapter = "openrouter"
  <2>1. d = ChatResponse(ChatBody(r))
    BY <1>4 DEF Delivered, FromWire
  <2> QED
    BY <1>4, <2>1, ChatResponseSays
<1> QED
  BY <1>1, <1>2, <1>3, <1>4

-----------------------------------------------------------------------------
(* The conversation, step by step.                                         *)

\* The transcript says all that was said; a response whose calls run is not
\* in it yet.
Transcript ==
    /\ messages \in Seq(Fitting(adapter))
    /\ CallsAnsweredNext(ToWire(messages))
    /\ said = IF status = "batch" THEN Spoken(messages) \o FlatMap(BlockAtoms, result.content)
                                  ELSE Spoken(messages)

\* A call is made with the transcript.
CallIsMade ==
    /\ phase = "idle" <=> status # "asking"
    /\ phase \in {"sending", "backoff"} =>
          request = ToWire(messages) /\ ~whole /\ sent = 0 /\ acc = NothingYet

\* A stream in one piece has put together what a whole one has by then.
StreamIsWhole ==
    phase = "streaming" =>
        /\ adapter = "anthropic" /\ sent \in 0 .. Len(Events)
        /\ whole => acc = Replayed(reply)[sent]

\* What it returns is what the reply has, if that got here in one piece.
CallReturns ==
    /\ phase = "done" /\ whole => reply \in Replies /\ result = Delivered(reply)
    /\ (phase = "done" \/ status = "batch") /\ result.ok => result.content \in ResponseContent(adapter)

CallInv == CallIsMade /\ StreamIsWhole /\ CallReturns

FourAdapters == {"anthropic", "compatible", "codex", "openrouter"}

LEMMA AdapterIs == ASSUME CallTypes PROVE adapter \in FourAdapters
BY TurnAssumption DEF CallTypes, FourAdapters

LEMMA FailedHasNone == ASSUME NEW error PROVE ~Failed(error).ok
BY DEF Failed

LEMMA ContentSays ==
    ASSUME NEW content \in Seq(ContentBlock)
    PROVE  ContentAtoms(content) = FlatMap(BlockAtoms, content)
<1>1. \A k \in DOMAIN content : content[k] \in ContentBlock
  <2> HIDE DEF ContentBlock
  <2> QED
    OBVIOUS
<1>2. ASSUME NEW b \in ContentBlock
      PROVE  BlockAtoms[b] = CASE IsText(b) -> Atoms("text", b.text)
                               [] IsCall(b) -> <<<<"call", b.id>>>>
                               [] OTHER -> IF b.data.encrypted THEN <<<<"reasoning", b.data.id>>>> ELSE <<>>
  <2>1. CASE b \in TextBlock
    <3>1. IsText(b) /\ ~IsCall(b) /\ BlockAtoms[b] = Atoms("text", b.text)
      BY <2>1, KindsDiffer, BlockAtomsOf
    <3> QED
      BY <3>1
  <2>2. CASE b \in CallBlock
    <3>1. ~IsText(b) /\ IsCall(b) /\ BlockAtoms[b] = <<<<"call", b.id>>>>
      BY <2>2, KindsDiffer, BlockAtomsOf
    <3> QED
      BY <3>1
  <2>3. CASE b \in OpaqueBlock
    <3>1. ~IsText(b) /\ ~IsCall(b)
      BY <2>3, KindsDiffer
    <3>2. BlockAtoms[b] = IF b.data.encrypted THEN <<<<"reasoning", b.data.id>>>> ELSE <<>>
      BY <2>3, BlockAtomsOf
    <3> QED
      BY <3>1, <3>2
  <2> QED
    BY <2>1, <2>2, <2>3 DEF ContentBlock
<1>3. PICK F : F = [k \in DOMAIN content |->
                    CASE IsText(content[k]) -> Atoms("text", content[k].text)
                      [] IsCall(content[k]) -> <<<<"call", content[k].id>>>>
                      [] OTHER -> IF content[k].data.encrypted
                                  THEN <<<<"reasoning", content[k].data.id>>>> ELSE <<>>]
  OBVIOUS
<1>4. F = [k \in DOMAIN content |-> BlockAtoms[content[k]]]
  BY <1>1, <1>2, <1>3, Zenon
<1>5. ContentAtoms(content) = FlattenSeq(F)
  BY <1>3 DEF ContentAtoms
<1> QED
  BY <1>4, <1>5 DEF FlatMap

\* A reply cut short of Codex's is still content of Codex.
LEMMA CodexContentIs ==
    ASSUME NEW d \in Results, d.ok PROVE d.content \in ResponseContent("codex")
<1>1. d.content \in Seq(ContentBlock)
  BY DEF Results
<1> QED
  BY <1>1 DEF ResponseContent

LEMMA StreamContentIs ==
    ASSUME NEW a \in Accumulator, Finish(a).ok PROVE Finish(a).content \in ResponseContent("anthropic")
<1>1. Finish(a).content \in Seq(SpokenBlock)
  BY FinishSays
<1> QED
  BY <1>1 DEF ResponseContent, SpokenBlock

-----------------------------------------------------------------------------
LEMMA InitTalk == Init => Transcript /\ CallInv
<1> SUFFICES ASSUME Init PROVE Transcript /\ CallInv
  OBVIOUS
<1>1. /\ adapter \in Adapters /\ phase = "idle" /\ status = "idle" /\ messages = <<>> /\ said = <<>>
  BY DEF Init, CallInit
<1>2. adapter \in FourAdapters
  BY <1>1, TurnAssumption DEF FourAdapters
<1>3. CallsAnsweredNext(ToWire(<<>>)) /\ <<>> \in Seq(Fitting(adapter)) /\ Spoken(<<>>) = <<>>
  BY <1>2, NothingAsked DEF FourAdapters
<1>4. Transcript
  BY <1>1, <1>3 DEF Transcript
<1>5. CallInv
  BY <1>1 DEF CallInv, CallIsMade, StreamIsWhole, CallReturns
<1> QED
  BY <1>4, <1>5

\* The adapter of a session is fixed.
AnsweredNextFor(ad, wire) ==
    CASE ad \in {"anthropic", "compatible"} ->
             \A k \in DOMAIN wire :
                 LET calls == Ids(ToolUses(wire[k].content)) IN
                 calls # <<>> =>
                     /\ k < Len(wire)
                     /\ LET results == Select(wire[k + 1].content, IsResult)
                        IN  [n \in DOMAIN results |-> results[n].tool_use_id] = calls
      [] ad = "openrouter" ->
             AnsweredByMessages(wire, LAMBDA m : Ids(m.tool_calls), LAMBDA m : m.tool_call_id)
      [] ad = "codex" ->
             LET calls   == Select(wire, IsCallItem)
                 results == Select(wire, LAMBDA i : i.type = "function_call_output")
             IN  [k \in DOMAIN calls |-> calls[k].call_id]
                     = [k \in DOMAIN results |-> results[k].call_id]

LEMMA SameWire ==
    ASSUME adapter' = adapter, NEW w, ToWire(messages)' = w, CallsAnsweredNext(w)
    PROVE  CallsAnsweredNext(ToWire(messages))'
<1>1. CallsAnsweredNext(w) <=> AnsweredNextFor(adapter, w)
  BY Zenon DEF CallsAnsweredNext, AnsweredNextFor, AnsweredByMessages
<1>2. CallsAnsweredNext(ToWire(messages))' <=> AnsweredNextFor(adapter', ToWire(messages)')
  BY DEF CallsAnsweredNext, AnsweredNextFor, AnsweredByMessages
<1> QED
  BY <1>1, <1>2

\* The transcript stays when its variables do.
LEMMA TranscriptStays ==
    ASSUME Transcript, messages' = messages, adapter' = adapter, said' = said,
           status # "batch", status' # "batch"
    PROVE  Transcript'
<1>1. Fitting(adapter') = Fitting(adapter)
  OBVIOUS
<1>2. CallsAnsweredNext(ToWire(messages))'
  <2>1. PICK w : w = ToWire(messages)
    OBVIOUS
  <2>2. ToWire(messages)' = w
    BY <2>1 DEF ToWire
  <2>3. CallsAnsweredNext(w)
    BY <2>1 DEF Transcript
  <2> QED
    BY <2>2, <2>3, SameWire
<1>3. (messages \in Seq(Fitting(adapter)))'
  BY <1>1 DEF Transcript
<1> QED
  BY <1>2, <1>3 DEF Transcript

-----------------------------------------------------------------------------
(* The steps of the call.                                                  *)

Asking == CallTypes /\ CallInv /\ status = "asking" /\ UNCHANGED <<messages, status>>

LEMMA FailsTalk ==
    ASSUME Asking, phase' = "done", ~result'.ok, ~whole' PROVE CallInv'
BY DEF Asking, CallInv, CallIsMade, StreamIsWhole, CallReturns

LEMMA TokenTalk == ASSUME Asking, TokenFails PROVE CallInv'
<1>1. phase' = "done" /\ result' = Failed("failure") /\ whole' = whole /\ phase = "sending"
  BY DEF TokenFails, Return
<1>2. ~whole' /\ ~result'.ok
  BY <1>1, FailedHasNone DEF Asking, CallInv, CallIsMade
<1> QED
  BY <1>1, <1>2, FailsTalk

LEMMA RefusedTalk == ASSUME Asking, NEW a \in Answer, Refused(a) PROVE CallInv'
<1>1. phase = "sending" /\ UNCHANGED <<adapter, request, sent, whole, acc>>
  BY DEF Refused
<1>2. request = ToWire(messages) /\ ~whole /\ sent = 0 /\ acc = NothingYet
  BY <1>1 DEF Asking, CallInv, CallIsMade
<1>3. CASE phase' = "backoff"
  <2>1. (request = ToWire(messages))'
    BY <1>1, <1>2 DEF Asking, ToWire
  <2> QED
    BY <1>1, <1>2, <1>3, <2>1 DEF Asking, CallInv, CallIsMade, StreamIsWhole, CallReturns
<1>4. CASE \E error : phase' = "done" /\ result' = Failed(error)
  BY <1>1, <1>2, <1>4, FailedHasNone, FailsTalk
<1> QED
  BY <1>3, <1>4 DEF Refused, Return

LEMMA WakeTalk == ASSUME Asking, Wake PROVE CallInv'
<1>1. phase = "backoff" /\ phase' = "sending" /\ UNCHANGED <<adapter, request, sent, whole, acc>>
  BY DEF Wake
<1>2. request = ToWire(messages) /\ ~whole /\ sent = 0 /\ acc = NothingYet
  BY <1>1 DEF Asking, CallInv, CallIsMade
<1>3. (request = ToWire(messages))'
  BY <1>1, <1>2 DEF Asking, ToWire
<1> QED
  BY <1>1, <1>2, <1>3 DEF Asking, CallInv, CallIsMade, StreamIsWhole, CallReturns

LEMMA AcceptedTalk == ASSUME Asking, NEW r \in Replies, Accepted(r) PROVE CallInv'
<1>1. phase' = "done" /\ adapter # "anthropic" /\ reply' = r /\ adapter' = adapter
  BY DEF Accepted, Succeeds, Buffered, Return
<1>2. adapter \in FourAdapters
  BY AdapterIs DEF Asking
<1>3. CASE Buffered(FromWire(r), TRUE)
  <2>1. result' = FromWire(r) /\ whole'
    BY <1>3 DEF Buffered, Return
  <2>2. FromWire(r) = Delivered(r)
    BY <1>1 DEF Delivered
  <2>3. Delivered(r)' = Delivered(r)
    BY <1>1 DEF Delivered, FromWire
  <2>4. result' = Delivered(r)'
    BY <2>1, <2>2, <2>3
  <2>5. result'.ok => result'.content \in ResponseContent(adapter)
    <3>1. PICK d : d = Delivered(r)
      OBVIOUS
    <3>2. d.ok => SaysReply(adapter, d.content, r)
      BY <1>2, <3>1, DeliveredSays DEF FourAdapters
    <3> QED
      BY <2>1, <2>2, <3>1, <3>2 DEF SaysReply
  <2>6. CallReturns'
    <3>1. (result = Delivered(reply))'
      <4>1. \A ad \in FourAdapters : ad = adapter => ad = adapter'
        BY <1>1
      <4>2. FromWire(r)' = FromWire(r)
        BY <1>1, Zenon DEF FromWire
      <4>3. (Delivered(reply))' = FromWire(r)'
        BY <1>1, Zenon DEF Delivered, FromWire
      <4> QED
        BY <2>1, <4>2, <4>3
    <3>2. reply' \in Replies
      BY <1>1
    <3>3. result'.ok => result'.content \in ResponseContent(adapter')
      BY <1>1, <2>5
    <3> QED
      BY <3>1, <3>2, <3>3 DEF CallReturns
  <2> QED
    BY <1>1, <2>6 DEF Asking, CallInv, CallIsMade, StreamIsWhole
<1>4. CASE adapter = "codex" /\ \E d \in Results : Buffered(d, FALSE)
  <2>1. PICK d \in Results : Buffered(d, FALSE)
    BY <1>4
  <2>2. result' = d /\ ~whole'
    BY <2>1 DEF Buffered, Return
  <2>3. result'.ok => result'.content \in ResponseContent(adapter')
    BY <1>1, <1>4, <2>2, CodexContentIs
  <2>4. CallReturns'
    BY <2>2, <2>3 DEF CallReturns
  <2> QED
    BY <1>1, <2>4 DEF Asking, CallInv, CallIsMade, StreamIsWhole
<1>5. CASE Buffered(Failed("malformed"), FALSE)
  <2>1. result' = Failed("malformed") /\ ~whole'
    BY <1>5 DEF Buffered, Return
  <2> QED
    BY <1>1, <2>1, FailedHasNone, FailsTalk
<1>6. \/ Buffered(FromWire(r), TRUE)
      \/ Buffered(Failed("malformed"), FALSE)
      \/ adapter = "codex" /\ \E d \in Results : Buffered(d, FALSE)
  <2>1. CASE adapter = "codex" /\ \E n \in 0 .. Len(CodexEvents(r)) - 1 :
                Buffered(ParseStream(CodexBody(SubSeq(CodexEvents(r), 1, n))), FALSE)
    BY <2>1, CutIs
  <2>2. CASE adapter = "codex" /\ Buffered(ParseStream(CodexBody(Append(CodexEvents(r), [type |-> "failed"]))), FALSE)
    BY <2>2, BrokenOffIs
  <2> QED
    BY <2>1, <2>2 DEF Accepted
<1> QED
  BY <1>3, <1>4, <1>5, <1>6

LEMMA ReplayAt ==
    ASSUME NEW r \in Replies, NEW n \in Nat, n = Len(AnthropicEvents(r))
    PROVE  /\ Replayed(r)[0] = NothingYet /\ Replayed(r)[n] = Full(r)
           /\ \A i \in 1 .. n : /\ Replayed(r)[i] = Handle(Replayed(r)[i - 1], AnthropicEvents(r)[i])
                                /\ Fits(Replayed(r)[i - 1], AnthropicEvents(r)[i])
           /\ \A i \in 0 .. n : Replayed(r)[i] \in Accumulator
<1>1. PICK F, events : F = Replayed(r) /\ events = AnthropicEvents(r)
  OBVIOUS
<1>2. Trace(events, F, Full(r))
  BY <1>1, ReplayedIs
<1>3. n = Len(events)
  BY <1>1
<1>4. F[0] = NothingYet /\ F[n] = Full(r) /\ F \in [0 .. n -> Accumulator]
  BY <1>2, <1>3 DEF Trace
<1>5. \A i \in 1 .. n : F[i] = Handle(F[i - 1], events[i]) /\ Fits(F[i - 1], events[i])
  BY <1>2, <1>3 DEF Trace
<1>6. \A i \in 0 .. n : F[i] \in Accumulator
  BY <1>4
<1> QED
  BY <1>1, <1>4, <1>5, <1>6

LEMMA EventsHere ==
    ASSUME CallTypes, phase = "streaming"
    PROVE  reply \in Replies /\ Events = AnthropicEvents(reply) /\ Len(Events) \in Nat
<1>1. reply \in Replies
  BY DEF CallTypes
<1>2. Events \in Seq(StreamedEvent)
  BY <1>1, StreamIs DEF Events
<1>3. Len(Events) \in Nat
  BY <1>2
<1> QED
  BY <1>1, <1>3 DEF Events

LEMMA StartsTalk == ASSUME Asking, NEW r \in Replies, StreamStarts(r) PROVE CallInv'
<1>1. /\ phase = "sending" /\ phase' = "streaming" /\ adapter = "anthropic"
      /\ reply' = r /\ UNCHANGED <<adapter, sent, acc>>
  BY DEF StreamStarts, Succeeds
<1>2. sent = 0 /\ acc = NothingYet
  BY <1>1 DEF Asking, CallInv, CallIsMade
<1>3. PICK n \in Nat : n = Len(AnthropicEvents(r))
  <2>1. AnthropicEvents(r) \in Seq(StreamedEvent)
    BY StreamIs
  <2> QED
    BY <2>1
<1>4. Events' = AnthropicEvents(r)
  BY <1>1 DEF Events
<1>5. Replayed(r)[0] = NothingYet
  BY <1>3, ReplayAt
<1>6. sent' \in 0 .. Len(Events')
  BY <1>1, <1>2, <1>3, <1>4
<1>7. acc' = Replayed(reply')[sent']
  BY <1>1, <1>2, <1>5
<1>8. StreamIsWhole'
  BY <1>1, <1>6, <1>7 DEF StreamIsWhole
<1>9. CallIsMade' /\ CallReturns'
  BY <1>1 DEF Asking, CallInv, CallIsMade, CallReturns
<1> QED
  BY <1>8, <1>9 DEF CallInv

\* A stream goes on.
LEMMA StreamGoes ==
    ASSUME Asking, phase = "streaming", sent < Len(Events), sent' \in 0 .. Len(Events),
           UNCHANGED <<adapter, phase, reply>>,
           whole' => acc' = Replayed(reply)[sent']
    PROVE  CallInv'
<1>1. adapter = "anthropic"
  BY DEF Asking, CallInv, StreamIsWhole
<1>2. Events' = Events
  BY DEF Events
<1>3. StreamIsWhole'
  BY <1>1, <1>2 DEF StreamIsWhole
<1>4. CallIsMade' /\ CallReturns'
  BY DEF Asking, CallInv, CallIsMade, CallReturns
<1> QED
  BY <1>3, <1>4 DEF CallInv

LEMMA NextEvent ==
    ASSUME CallTypes, phase = "streaming", sent < Len(Events)
    PROVE  sent \in Nat /\ sent + 1 \in 0 .. Len(Events) /\ sent + 1 \in 1 .. Len(Events) /\ (sent + 1) - 1 = sent
<1>1. sent \in Nat /\ Len(Events) \in Nat
  BY EventsHere DEF CallTypes
<1> QED
  BY <1>1

LEMMA EventTalk == ASSUME Asking, StreamEvent PROVE CallInv'
<1>1. /\ phase = "streaming" /\ sent < Len(Events) /\ Handled(Events[sent + 1])
      /\ sent' = sent + 1 /\ UNCHANGED <<adapter, phase, reply, whole>>
  BY DEF StreamEvent
<1>2. CallTypes
  BY DEF Asking
<1>3. PICK next : next = sent + 1
  OBVIOUS
<1>4. next \in 0 .. Len(Events) /\ next \in 1 .. Len(Events) /\ next - 1 = sent
  BY <1>1, <1>2, <1>3, NextEvent
<1>5. PICK r : r = reply
  OBVIOUS
<1>6. r \in Replies /\ Events = AnthropicEvents(r) /\ Len(Events) \in Nat
  BY <1>1, <1>2, <1>5, EventsHere
<1>7. Replayed(r)[next] = Handle(Replayed(r)[next - 1], AnthropicEvents(r)[next])
  BY <1>4, <1>6, ReplayAt
<1>8. acc' = Handle(acc, Events[next])
  BY <1>1, <1>3 DEF Handled
<1>9. whole => acc = Replayed(r)[sent]
  BY <1>1, <1>5 DEF Asking, CallInv, StreamIsWhole
<1>10. whole' => acc' = Replayed(reply)[sent']
  BY <1>1, <1>3, <1>4, <1>5, <1>6, <1>7, <1>8, <1>9
<1>11. sent' \in 0 .. Len(Events)
  BY <1>1, <1>3, <1>4
<1> QED
  BY <1>1, <1>10, <1>11, StreamGoes

LEMMA GarbledTalk == ASSUME Asking, GarbledEvent PROVE CallInv'
<1>1. /\ phase = "streaming" /\ sent < Len(Events)
      /\ sent' = sent + 1 /\ ~whole' /\ UNCHANGED <<adapter, phase, reply>>
  BY DEF GarbledEvent
<1>2. sent' \in 0 .. Len(Events)
  BY <1>1, NextEvent DEF Asking
<1> QED
  BY <1>1, <1>2, StreamGoes

LEMMA ErrorTalk == ASSUME Asking, ErrorEvent PROVE CallInv'
<1>1. /\ phase = "streaming" /\ sent < Len(Events)
      /\ sent' = Len(Events) /\ ~whole' /\ UNCHANGED <<adapter, phase, reply>>
  BY DEF ErrorEvent
<1>2. sent' \in 0 .. Len(Events)
  BY <1>1, EventsHere DEF Asking
<1> QED
  BY <1>1, <1>2, StreamGoes

LEMMA BreaksTalk == ASSUME Asking, StreamBreaks PROVE CallInv'
<1>1. phase' = "done" /\ result' = Failed("transport") /\ ~whole'
  BY DEF StreamBreaks, Return
<1> QED
  BY <1>1, FailedHasNone, FailsTalk

LEMMA EndsTalk == ASSUME Asking, StreamEnds PROVE CallInv'
<1>1. /\ phase = "streaming" /\ phase' = "done" /\ result' = Finish(acc)
      /\ whole' = (whole /\ sent = Len(Events)) /\ UNCHANGED <<adapter, reply>>
  BY DEF StreamEnds, Return
<1>2. CallTypes
  BY DEF Asking
<1>3. PICK r : r = reply
  OBVIOUS
<1>4. r \in Replies /\ Events = AnthropicEvents(r) /\ Len(Events) \in Nat
  BY <1>1, <1>2, <1>3, EventsHere
<1>5. adapter = "anthropic" /\ (whole => acc = Replayed(r)[sent])
  BY <1>1, <1>3 DEF Asking, CallInv, StreamIsWhole
<1>6. Replayed(r)[Len(Events)] = Full(r)
  BY <1>4, ReplayAt
<1>7. whole' => acc = Full(r)
  BY <1>1, <1>5, <1>6
<1>8. Finish(Full(r)) = Delivered(reply)'
  BY <1>1, <1>3, <1>5 DEF Delivered
<1>9. whole' => reply' \in Replies /\ (result = Delivered(reply))'
  BY <1>1, <1>3, <1>4, <1>7, <1>8
<1>10. result'.ok => result'.content \in ResponseContent(adapter')
  <2>1. acc \in Accumulator
    BY <1>2 DEF CallTypes
  <2> QED
    BY <1>1, <1>5, <2>1, StreamContentIs
<1>11. CallReturns'
  BY <1>9, <1>10 DEF CallReturns
<1>12. CallIsMade' /\ StreamIsWhole'
  BY <1>1 DEF Asking, CallIsMade, StreamIsWhole
<1> QED
  BY <1>11, <1>12 DEF CallInv

LEMMA CallTalk == ASSUME Asking, CallStep PROVE CallInv'
<1>1. CASE TokenFails
  BY <1>1, TokenTalk
<1>2. CASE \E a \in Answer : Refused(a)
  BY <1>2, RefusedTalk
<1>3. CASE Wake
  BY <1>3, WakeTalk
<1>4. CASE \E r \in Replies : Accepted(r)
  BY <1>4, AcceptedTalk
<1>5. CASE \E r \in Replies : StreamStarts(r)
  BY <1>5, StartsTalk
<1>6. CASE StreamEvent
  BY <1>6, EventTalk
<1>7. CASE GarbledEvent
  BY <1>7, GarbledTalk
<1>8. CASE ErrorEvent
  BY <1>8, ErrorTalk
<1>9. CASE StreamBreaks
  BY <1>9, BreaksTalk
<1>10. CASE StreamEnds
  BY <1>10, EndsTalk
<1> QED
  BY <1>1, <1>2, <1>3, <1>4, <1>5, <1>6, <1>7, <1>8, <1>9, <1>10 DEF CallStep

-----------------------------------------------------------------------------
(* The steps of the loop.                                                  *)

LEMMA SpokenIs ==
    /\ \A ad : \A ms \in Seq(Fitting(ad)) : Spoken(ms) \in Seq(Atom)
    /\ \A ad : \A ms \in Seq(Fitting(ad)) : \A xs \in Seq(Fitting(ad)) :
          Spoken(ms \o xs) = Spoken(ms) \o Spoken(xs)
    /\ \A ad : \A m \in Fitting(ad) : Spoken(<<m>>) = FlatMap(BlockAtoms, m.content)
    /\ \A ad : \A a \in Fitting(ad) : \A b \in Fitting(ad) :
          Spoken(<<a, b>>) = FlatMap(BlockAtoms, a.content) \o FlatMap(BlockAtoms, b.content)
<1> SUFFICES ASSUME NEW ad
             PROVE  /\ \A ms \in Seq(Fitting(ad)) : Spoken(ms) \in Seq(Atom)
                    /\ \A ms \in Seq(Fitting(ad)) : \A xs \in Seq(Fitting(ad)) :
                          Spoken(ms \o xs) = Spoken(ms) \o Spoken(xs)
                    /\ \A m \in Fitting(ad) : Spoken(<<m>>) = FlatMap(BlockAtoms, m.content)
                    /\ \A a \in Fitting(ad) : \A b \in Fitting(ad) :
                          Spoken(<<a, b>>) = FlatMap(BlockAtoms, a.content) \o FlatMap(BlockAtoms, b.content)
  OBVIOUS
<1>1. PICK g : g = [m \in Fitting(ad) |-> MessageAtoms[m]]
  OBVIOUS
<1>2. \A m \in Fitting(ad) : MessageAtoms[m] = FlatMap(BlockAtoms, m.content) /\ MessageAtoms[m] \in Seq(Atom)
  BY MessageAtomsAre
<1>3. g \in Conversion(Fitting(ad), Atom)
  BY <1>1, <1>2 DEF Conversion
<1>4. \A x \in Fitting(ad) : MessageAtoms[x] = g[x]
  BY <1>1
<1>5. \A ms \in Seq(Fitting(ad)) : Spoken(ms) = FlatMap(g, ms)
  BY <1>4, FlatMapAlike DEF Spoken
<1>6. ASSUME NEW ms \in Seq(Fitting(ad)), NEW xs \in Seq(Fitting(ad))
      PROVE  Spoken(ms \o xs) = Spoken(ms) \o Spoken(xs)
  <2>1. FlatMap(g, ms \o xs) = FlatMap(g, ms) \o FlatMap(g, xs)
    BY <1>3, FlatMapBoth
  <2>2. ms \o xs \in Seq(Fitting(ad))
    OBVIOUS
  <2>3. Spoken(ms \o xs) = FlatMap(g, ms \o xs) /\ Spoken(ms) = FlatMap(g, ms) /\ Spoken(xs) = FlatMap(g, xs)
    BY <1>5, <2>2
  <2> QED
    BY <2>1, <2>3
<1>7. ASSUME NEW m \in Fitting(ad) PROVE Spoken(<<m>>) = FlatMap(BlockAtoms, m.content)
  <2>1. MessageAtoms[m] \in Seq(Atom)
    BY <1>2
  <2>2. Spoken(<<m>>) = MessageAtoms[m]
    BY <2>1, FlatMapSingle DEF Spoken
  <2> QED
    BY <1>2, <2>2
<1>8. ASSUME NEW a \in Fitting(ad), NEW b \in Fitting(ad)
      PROVE  Spoken(<<a, b>>) = FlatMap(BlockAtoms, a.content) \o FlatMap(BlockAtoms, b.content)
  <2>1. FlatMap(g, <<a, b>>) = g[a] \o g[b]
    BY <1>3, FlatMapTwo
  <2>2. <<a, b>> \in Seq(Fitting(ad))
    OBVIOUS
  <2>3. Spoken(<<a, b>>) = FlatMap(g, <<a, b>>)
    BY <1>5, <2>2
  <2>4. g[a] = FlatMap(BlockAtoms, a.content) /\ g[b] = FlatMap(BlockAtoms, b.content)
    BY <1>2, <1>4
  <2> QED
    BY <2>1, <2>3, <2>4
<1>9. ASSUME NEW ms \in Seq(Fitting(ad)) PROVE Spoken(ms) \in Seq(Atom)
  BY <1>3, <1>5, FlatMapIs
<1> QED
  BY <1>6, <1>7, <1>8, <1>9

\* A transcript with messages more.
LEMMA TranscriptMore ==
    ASSUME CallTypes, messages \in Seq(Fitting(adapter)), CallsAnsweredNext(ToWire(messages)),
           NEW xs \in Seq(Fitting(adapter)), CallsAnsweredNext(ToWire(xs)),
           messages' = messages \o xs, adapter' = adapter,
           said' = Spoken(messages) \o Spoken(xs), status' # "batch"
    PROVE  Transcript'
<1>1. adapter \in {"anthropic", "compatible", "codex", "openrouter"}
  BY AdapterIs DEF FourAdapters
<1>2. PICK w : w = ToWire(messages \o xs)
  OBVIOUS
<1>3. CallsAnsweredNext(w)
  BY <1>1, <1>2, AnsweredMore
<1>5. ToWire(messages)' = w
  BY <1>2 DEF ToWire
<1>6. CallsAnsweredNext(ToWire(messages))'
  BY <1>3, <1>5, SameWire
<1>7. messages \o xs \in Seq(Fitting(adapter))
  OBVIOUS
<1>8. Fitting(adapter') = Fitting(adapter)
  OBVIOUS
<1>9. (messages \in Seq(Fitting(adapter)))'
  BY <1>7, <1>8
<1>10. Spoken(messages \o xs) = Spoken(messages) \o Spoken(xs)
  BY SpokenIs
<1>11. (said = Spoken(messages))'
  BY <1>10
<1> QED
  BY <1>6, <1>9, <1>11 DEF Transcript

LEMMA QuietAdded ==
    ASSUME CallTypes, Transcript, status # "batch", NEW m, Quiet(adapter, m),
           messages' = Append(messages, m), adapter' = adapter,
           said' = said \o FlatMap(BlockAtoms, m.content), status' # "batch"
    PROVE  Transcript'
<1>1. adapter \in {"anthropic", "compatible", "codex", "openrouter"}
  BY AdapterIs DEF FourAdapters
<1>2. m \in Fitting(adapter)
  BY DEF Quiet
<1>3. PICK xs : xs = <<m>>
  OBVIOUS
<1>4. xs \in Seq(Fitting(adapter)) /\ CallsAnsweredNext(ToWire(xs))
  BY <1>1, <1>2, <1>3, OneOf, QuietNext
<1>5. messages \in Seq(Fitting(adapter)) /\ said = Spoken(messages) /\ CallsAnsweredNext(ToWire(messages))
  BY DEF Transcript
<1>6. messages' = messages \o xs
  BY <1>2, <1>3, <1>5
<1>7. Spoken(xs) = FlatMap(BlockAtoms, m.content)
  BY <1>2, <1>3, SpokenIs
<1>8. said' = Spoken(messages) \o Spoken(xs)
  BY <1>5, <1>7
<1> QED
  BY <1>4, <1>5, <1>6, <1>8, TranscriptMore

LEMMA ExchangeAdded ==
    ASSUME CallTypes, Transcript, status = "batch", NEW a, NEW r, Exchange(adapter, a, r),
           a.content = result.content,
           messages' = messages \o <<a, r>>, adapter' = adapter,
           said' = said \o FlatMap(BlockAtoms, r.content), status' # "batch"
    PROVE  Transcript'
<1>1. adapter \in {"anthropic", "compatible", "codex", "openrouter"}
  BY AdapterIs DEF FourAdapters
<1>2. a \in Fitting(adapter) /\ r \in Fitting(adapter)
  BY ExchangeIs
<1>3. PICK xs : xs = <<a, r>>
  OBVIOUS
<1>4. CallsAnsweredNext(ToWire(xs))
  BY <1>1, <1>3, ExchangeNext
<1>5. xs \in Seq(Fitting(adapter))
  BY <1>2, <1>3
<1>6. messages \in Seq(Fitting(adapter)) /\ CallsAnsweredNext(ToWire(messages))
  BY DEF Transcript
<1>7. Spoken(xs) = FlatMap(BlockAtoms, a.content) \o FlatMap(BlockAtoms, r.content)
  BY <1>2, <1>3, SpokenIs
<1>8. Spoken(messages) \in Seq(Atom)
  BY <1>6, SpokenIs
<1>9. FlatMap(BlockAtoms, a.content) \in Seq(Atom) /\ FlatMap(BlockAtoms, r.content) \in Seq(Atom)
  <2>1. a.content \in Seq(AnyBlock) /\ r.content \in Seq(AnyBlock)
    BY <1>2, FittingIs
  <2> QED
    BY <2>1, BlockAtomsConvert, FlatMapIs
<1>10. said = Spoken(messages) \o FlatMap(BlockAtoms, a.content)
  BY DEF Transcript
<1>11. said' = Spoken(messages) \o Spoken(xs)
  <2>1. PICK x, y, z : x = Spoken(messages) /\ y = FlatMap(BlockAtoms, a.content)
                       /\ z = FlatMap(BlockAtoms, r.content)
    OBVIOUS
  <2>2. x \in Seq(Atom) /\ y \in Seq(Atom) /\ z \in Seq(Atom)
    BY <1>8, <1>9, <2>1
  <2>3. (x \o y) \o z = x \o (y \o z)
    BY <2>2
  <2> QED
    BY <1>7, <1>10, <2>1, <2>3
<1> QED
  BY <1>3, <1>4, <1>5, <1>6, <1>11, TranscriptMore

\* A batch runs with its response still waiting.
LEMMA BatchWaits ==
    ASSUME Transcript, messages' = messages, adapter' = adapter,
           status' = "batch",
           (said = Spoken(messages) \o FlatMap(BlockAtoms, result.content))'
    PROVE  Transcript'
<1>1. Fitting(adapter') = Fitting(adapter)
  OBVIOUS
<1>2. CallsAnsweredNext(ToWire(messages))'
  <2>1. PICK w : w = ToWire(messages)
    OBVIOUS
  <2>2. ToWire(messages)' = w
    BY <2>1 DEF ToWire
  <2>3. CallsAnsweredNext(w)
    BY <2>1 DEF Transcript
  <2> QED
    BY <2>2, <2>3, SameWire
<1>3. (messages \in Seq(Fitting(adapter)))'
  BY <1>1 DEF Transcript
<1> QED
  BY <1>2, <1>3 DEF Transcript

\* What the loop hears is what the response says.
LEMMA HeardIs ==
    ASSUME CallTypes, CallReturns, phase = "done", result.ok
    PROVE  Heard = FlatMap(BlockAtoms, result.content)
<1>1. adapter \in {"anthropic", "compatible", "codex", "openrouter"}
  BY AdapterIs DEF FourAdapters
<1>2. CASE whole
  <2>1. PICK r : r = reply
    OBVIOUS
  <2>2. r \in Replies /\ result = Delivered(r)
    BY <1>2, <2>1 DEF CallReturns
  <2>3. SaysReply(adapter, result.content, r)
    BY <1>1, <2>2, DeliveredSays
  <2> QED
    BY <1>2, <2>1, <2>3 DEF Heard, SaysReply
<1>3. CASE ~whole
  <2>1. result.content \in ResponseContent(adapter)
    BY DEF CallReturns
  <2>2. result.content \in Seq(ContentBlock)
    BY <2>1, ResponseContentIs
  <2> QED
    BY <1>3, <2>2, ContentSays DEF Heard
<1> QED
  BY <1>2, <1>3

TalkInv == TurnInv /\ Transcript /\ CallInv

Talks == Transcript' /\ CallInv'

\* Between calls nothing is asked of the call.
LEMMA CallIsOver ==
    ASSUME CallInv, phase' = "idle", status' \in {"idle", "ask"} PROVE CallInv'
BY DEF CallInv, CallIsMade, StreamIsWhole, CallReturns

LEMMA PromptTalks == ASSUME TalkInv, Prompt PROVE Talks
<1>1. CallTypes /\ Transcript /\ CallInv
  BY DEF TalkInv, TurnInv
<1>2. /\ status = "idle" /\ status' = "ask" /\ adapter' = adapter /\ phase' = phase
      /\ messages' = Append(messages, UserText(<<"prompt">>))
      /\ said' = Append(said, <<"text", "prompt">>)
  BY DEF Prompt, callVars
<1>3. PICK t : t = <<"prompt">>
  OBVIOUS
<1>4. t \in Seq(Fragment) /\ Atoms("text", t) = <<<<"text", "prompt">>>>
  <2>1. "prompt" \in Fragment
    BY DEF Fragment
  <2>2. t \in Seq(Fragment)
    BY <1>3, <2>1
  <2>3. Atoms("text", t) = <<<<"text", "prompt">>>>
    BY <1>3 DEF Atoms
  <2> QED
    BY <2>2, <2>3
<1>5. PICK m : m = UserText(<<"prompt">>)
  OBVIOUS
<1>6. PICK b : b = Text(t)
  OBVIOUS
<1>7. b \in TextBlock /\ b.text = t
  BY <1>4, <1>6 DEF Text, TextBlock
<1>8. m.role = "user" /\ m.content = <<b>> /\ m = [role |-> "user", content |-> <<b>>]
  BY <1>3, <1>5, <1>6 DEF UserText
<1>9. <<b>> \in Seq(TextBlock)
  BY <1>7
<1>10. Quiet(adapter, m)
  <2>1. ToolUses(<<b>>) = <<>> /\ Select(<<b>>, IsResult) = <<>>
    BY <1>9, TextsOnly
  <2>2. m \in UserMessage
    BY <1>8, <1>9 DEF UserMessage
  <2>3. m \in Fitting(adapter)
    BY <2>2 DEF Fitting
  <2>4. m.content = <<b>>
    BY <1>8
  <2> QED
    BY <2>1, <2>3, <2>4 DEF Quiet
<1>11. FlatMap(BlockAtoms, m.content) = <<<<"text", "prompt">>>>
  <2>1. BlockAtoms[b] = Atoms("text", t)
    BY <1>7, BlockAtomsOf
  <2>2. BlockAtoms[b] \in Seq(Atom)
    BY <1>4, <2>1, AtomsAre
  <2>3. FlatMap(BlockAtoms, <<b>>) = BlockAtoms[b]
    BY <2>2, FlatMapSingle
  <2> QED
    BY <1>4, <1>8, <2>1, <2>3
<1>12. said' = said \o FlatMap(BlockAtoms, m.content)
  <2>1. messages \in Seq(Fitting(adapter)) /\ said = Spoken(messages)
    BY <1>1, <1>2 DEF Transcript
  <2>2. said \in Seq(Atom)
    BY <2>1, SpokenIs
  <2>3. PICK x : x = <<"text", "prompt">>
    OBVIOUS
  <2>4. Append(said, x) = said \o <<x>>
    BY <2>2
  <2> QED
    BY <1>2, <1>11, <2>3, <2>4
<1>13. Transcript'
  <2>1. status # "batch" /\ status' # "batch" /\ messages' = Append(messages, m) /\ adapter' = adapter
    BY <1>2, <1>5
  <2> QED
    BY <1>1, <1>10, <1>12, <2>1, QuietAdded
<1>14. CallInv'
  <2>1. phase' = "idle"
    BY <1>1, <1>2 DEF CallInv, CallIsMade
  <2> QED
    BY <1>1, <1>2, <2>1, CallIsOver
<1> QED
  BY <1>13, <1>14 DEF Talks

LEMMA AskTalks == ASSUME TalkInv, Ask PROVE Talks
<1>1. Transcript /\ CallInv
  BY DEF TalkInv
<1>2. /\ status = "ask" /\ status' = "asking" /\ messages' = messages /\ said' = said
      /\ Call(messages)
  BY DEF Ask
<1>3. /\ adapter' = adapter /\ phase' = "sending" /\ request' = ToWire(messages)
      /\ sent' = 0 /\ ~whole' /\ acc' = NothingYet
  BY <1>2 DEF Call
<1>4. Transcript'
  BY <1>1, <1>2, <1>3, TranscriptStays
<1>5. (request = ToWire(messages))'
  BY <1>2, <1>3 DEF ToWire
<1>6. CallInv'
  BY <1>2, <1>3, <1>5 DEF CallInv, CallIsMade, StreamIsWhole, CallReturns
<1> QED
  BY <1>4, <1>6 DEF Talks

LEMMA LimitTalks == ASSUME TalkInv, TurnLimit PROVE Talks
<1>1. Transcript /\ CallInv
  BY DEF TalkInv
<1>2. /\ status = "ask" /\ status' = "idle" /\ messages' = messages /\ said' = said
      /\ adapter' = adapter /\ phase' = phase
  BY DEF TurnLimit, callVars
<1>3. Transcript'
  BY <1>1, <1>2, TranscriptStays
<1>4. phase' = "idle"
  BY <1>1, <1>2 DEF CallInv, CallIsMade
<1>5. CallInv'
  BY <1>1, <1>2, <1>4, CallIsOver
<1> QED
  BY <1>3, <1>5 DEF Talks

\* No step of a call changes the adapter.
LEMMA AdapterStays == ASSUME CallStep PROVE adapter' = adapter
BY DEF CallStep, TokenFails, Refused, Wake, Accepted, StreamStarts, StreamEvent, GarbledEvent,
       ErrorEvent, StreamBreaks, StreamEnds

LEMMA ProvideTalks == ASSUME TalkInv, Provide PROVE Talks
<1>1. CallTypes /\ Transcript /\ CallInv
  BY DEF TalkInv, TurnInv
<1>2. /\ status = "asking" /\ status' = status /\ messages' = messages /\ said' = said
      /\ CallStep
  BY DEF Provide
<1>3. Transcript'
  BY <1>1, <1>2, AdapterStays, TranscriptStays
<1>4. Asking
  BY <1>1, <1>2 DEF Asking
<1>5. CallInv'
  BY <1>2, <1>4, CallTalk
<1> QED
  BY <1>3, <1>5 DEF Talks

LEMMA ErrorTalks == ASSUME TalkInv, ProviderError PROVE Talks
<1>1. Transcript /\ CallInv
  BY DEF TalkInv
<1>2. /\ status = "asking" /\ status' = "idle" /\ messages' = messages /\ said' = said
      /\ adapter' = adapter /\ phase' = "idle"
  BY DEF ProviderError, Take
<1>3. Transcript'
  BY <1>1, <1>2, TranscriptStays
<1>4. CallInv'
  BY <1>1, <1>2, CallIsOver
<1> QED
  BY <1>3, <1>4 DEF Talks

\* A response is content of its adapter without results.
LEMMA NoResults ==
    ASSUME NEW content \in Seq(ContentBlock) PROVE Select(content, IsResult) = <<>>
<1>1. content \in Seq(AnyBlock)
  BY BlockKinds, SeqWider
<1>2. \A b \in ContentBlock : IfResult[b] = <<>>
  BY SelectionsOf DEF ContentBlock
<1> QED
  BY <1>1, <1>2, SelectionsAre, FlatMapNothing

LEMMA FinalTalks == ASSUME TalkInv, FinalAnswer PROVE Talks
<1>1. CallTypes /\ Transcript /\ CallInv
  BY DEF TalkInv, TurnInv
<1>2. /\ status = "asking" /\ status' = "idle" /\ messages' = Append(messages, Assistant(result.content))
      /\ result.ok /\ Calls = <<>> /\ said' = said \o Heard
      /\ adapter' = adapter /\ phase = "done" /\ phase' = "idle"
  BY DEF FinalAnswer, Take
<1>3. PICK content : content = result.content
  OBVIOUS
<1>4. content \in ResponseContent(adapter)
  BY <1>1, <1>2, <1>3 DEF CallInv, CallReturns
<1>5. PICK m : m = Assistant(content)
  OBVIOUS
<1>6. m = [role |-> "assistant", content |-> content] /\ m.content = content
  BY <1>5 DEF Assistant
<1>7. m \in Fitting(adapter)
  BY <1>4, <1>6 DEF Fitting
<1>8. ToolUses(content) = <<>> /\ Select(content, IsResult) = <<>>
  <2>1. content \in Seq(ContentBlock)
    BY <1>4, ResponseContentIs
  <2> QED
    BY <1>2, <1>3, <2>1, NoResults DEF Calls
<1>9. Quiet(adapter, m)
  BY <1>6, <1>7, <1>8 DEF Quiet
<1>10. said' = said \o FlatMap(BlockAtoms, m.content)
  <2>1. Heard = FlatMap(BlockAtoms, content)
    BY <1>1, <1>2, <1>3, HeardIs DEF CallInv
  <2> QED
    BY <1>2, <1>6, <2>1
<1>11. Transcript'
  <2>1. status # "batch" /\ status' # "batch" /\ messages' = Append(messages, m) /\ adapter' = adapter
    BY <1>2, <1>3, <1>5
  <2> QED
    BY <1>1, <1>9, <1>10, <2>1, QuietAdded
<1>12. CallInv'
  BY <1>1, <1>2, CallIsOver
<1> QED
  BY <1>11, <1>12 DEF Talks

LEMMA RequestTalks == ASSUME TalkInv, RequestTools PROVE Talks
<1>1. CallTypes /\ Transcript /\ CallInv
  BY DEF TalkInv, TurnInv
<1>2. /\ status = "asking" /\ status' = "batch" /\ messages' = messages
      /\ result.ok /\ said' = said \o Heard /\ result' = result
      /\ adapter' = adapter /\ phase = "done" /\ phase' = "idle"
  BY DEF RequestTools, Take
<1>3. (said = Spoken(messages) \o FlatMap(BlockAtoms, result.content))'
  <2>1. Heard = FlatMap(BlockAtoms, result.content)
    BY <1>1, <1>2, HeardIs DEF CallInv
  <2>2. said = Spoken(messages)
    BY <1>1, <1>2 DEF Transcript
  <2> QED
    BY <1>2, <2>1, <2>2
<1>4. Transcript'
  BY <1>1, <1>2, <1>3, BatchWaits
<1>5. CallInv'
  <2>1. result.content \in ResponseContent(adapter)
    BY <1>1, <1>2 DEF CallInv, CallReturns
  <2>2. (result.content \in ResponseContent(adapter))'
    BY <1>2, <2>1
  <2> QED
    BY <1>2, <2>2 DEF CallInv, CallIsMade, StreamIsWhole, CallReturns
<1> QED
  BY <1>4, <1>5 DEF Talks

\* Nothing of the conversation moves.
LEMMA NothingTalks ==
    ASSUME TalkInv, UNCHANGED callVars, messages' = messages, said' = said, status' = status PROVE Talks
<1>1. Transcript /\ CallInv
  BY DEF TalkInv
<1>2. /\ adapter' = adapter /\ phase' = phase /\ request' = request /\ reply' = reply
      /\ sent' = sent /\ acc' = acc /\ result' = result
  BY DEF callVars
<1>3. (whole' <=> whole) /\ whole' = whole
  BY DEF callVars
<1>4. Transcript'
  <2>1. CASE status = "batch"
    <3>1. said = Spoken(messages) \o FlatMap(BlockAtoms, result.content)
      BY <1>1, <2>1 DEF Transcript
    <3>2. (said = Spoken(messages) \o FlatMap(BlockAtoms, result.content))'
      BY <1>2, <3>1
    <3> QED
      BY <1>1, <1>2, <2>1, <3>2, BatchWaits
  <2>2. CASE status # "batch"
    BY <1>1, <1>2, <2>2, TranscriptStays
  <2> QED
    BY <2>1, <2>2
<1>5. CallIsMade'
  <2>1. ToWire(messages)' = ToWire(messages)
    BY <1>2 DEF ToWire
  <2> QED
    BY <1>1, <1>2, <1>3, <2>1 DEF CallInv, CallIsMade
<1>6. StreamIsWhole'
  BY <1>1, <1>2, <1>3 DEF CallInv, StreamIsWhole, Events
<1>7. CallReturns'
  <2>1. Delivered(reply)' = Delivered(reply)
    <3>1. PICK r : r = reply
      OBVIOUS
    <3>2. FromWire(r)' = FromWire(r)
      BY <1>2, Zenon DEF FromWire
    <3>3. Delivered(r)' = Delivered(r)
      BY <1>2, <3>2, Zenon DEF Delivered
    <3>4. reply' = r
      BY <1>2, <3>1
    <3>5. Delivered(reply)' = Delivered(r)'
      <4>1. FromWire(reply)' = FromWire(r)'
        BY <3>4, Zenon DEF FromWire
      <4>2. Finish(Full(reply))' = Finish(Full(r))
        BY <3>4, Zenon
      <4> QED
        BY <3>4, <4>1, <4>2, Zenon DEF Delivered
    <3> QED
      BY <3>1, <3>3, <3>5
  <2> QED
    BY <1>1, <1>2, <1>3, <2>1 DEF CallInv, CallReturns
<1> QED
  BY <1>4, <1>5, <1>6, <1>7 DEF Talks, CallInv

\* What the results of a batch say.
LEMMA BatchSays ==
    ASSUME BatchInv, CallTypes, BatchIsTheResponse, status = "batch", BatchIsDone
    PROVE  FlatMap(BlockAtoms, BatchResults)
           = [k \in Requests |-> <<IF call[k] = "error" THEN "error" ELSE "result", Calls[k].id>>]
<1>1. BatchTypeOK /\ result \in Results /\ OutputsInRequestOrder
  BY DEF BatchInv, CallTypes
<1>2. BatchResults \in Seq(ResultBlock) /\ DOMAIN BatchResults = DOMAIN Calls
  BY <1>1, ResultsAre
<1>3. FlatMap(BlockAtoms, BatchResults) = [k \in DOMAIN BatchResults |-> Answered(BatchResults[k])]
  BY <1>2, ResultsSay
<1>4. DOMAIN outputs = DOMAIN Calls
  BY <1>2 DEF BatchResults
<1>5. Requests = DOMAIN Calls
  <2>1. DOMAIN intents = DOMAIN Calls
    BY DEF BatchIsTheResponse
  <2>2. DOMAIN intents = Requests
    BY <1>1 DEF BatchTypeOK, Requests
  <2> QED
    BY <2>1, <2>2
<1>6. DOMAIN outputs = 1 .. Len(outputs)
  BY <1>1 DEF BatchTypeOK
<1>7. ASSUME NEW k \in DOMAIN Calls
      PROVE  Answered(BatchResults[k]) = <<IF call[k] = "error" THEN "error" ELSE "result", Calls[k].id>>
  <2>1. outputs[k] = Output(k)
    BY <1>1, <1>4, <1>6 DEF OutputsInRequestOrder
  <2>2. PICK bad : bad = (call[k] = "error")
    OBVIOUS
  <2>3. outputs[k].is_error = bad
    BY <2>1, <2>2 DEF Output
  <2>4. PICK b : b = BatchResults[k]
    OBVIOUS
  <2>5. b = ToolResult(Calls[k].id, outputs[k].is_error)
    BY <1>4, <2>4 DEF BatchResults
  <2>6. b.is_error = bad /\ b.tool_use_id = Calls[k].id
    BY <2>3, <2>5 DEF ToolResult
  <2>7. Answered(b) = <<IF bad THEN "error" ELSE "result", Calls[k].id>>
    BY <2>6 DEF Answered
  <2> QED
    BY <2>2, <2>4, <2>7
<1> QED
  BY <1>2, <1>3, <1>5, <1>7

LEMMA AnswerTalks == ASSUME TalkInv, ToolsAnswer PROVE Talks
<1>1. /\ BatchInv /\ BatchTypeOK /\ CallTypes /\ BatchIsTheResponse /\ Transcript /\ CallInv
      /\ result \in Results
  BY DEF TalkInv, TurnInv, BatchInv, CallTypes
<1>2. /\ status = "batch" /\ status' = "ask" /\ BatchIsDone /\ adapter' = adapter /\ phase' = phase
      /\ messages' = messages \o <<Assistant(result.content), ToolResults(BatchResults)>>
      /\ said' = said \o [k \in Requests |->
                             <<IF call[k] = "error" THEN "error" ELSE "result", Calls[k].id>>]
  BY DEF ToolsAnswer, TakeOutputs, callVars, BatchResults
<1>3. PICK a, r : a = Assistant(result.content) /\ r = ToolResults(BatchResults)
  OBVIOUS
<1>4. a.content = result.content /\ r.content = BatchResults
  BY <1>3 DEF Assistant, ToolResults
<1>5. /\ BatchResults \in Seq(ResultBlock) /\ DOMAIN BatchResults = DOMAIN Calls
      /\ \A n \in DOMAIN Calls : BatchResults[n].tool_use_id = Calls[n].id
  BY <1>1, <1>2, ResultsAre
<1>6. Exchange(adapter, a, r)
  <2>1. result.ok
    BY <1>1, <1>2 DEF BatchIsTheResponse
  <2>2. result.content \in ResponseContent(adapter)
    BY <1>1, <1>2, <2>1 DEF CallInv, CallReturns
  <2>3. a \in [role : {"assistant"}, content : ResponseContent(adapter)]
    BY <1>3, <2>2 DEF Assistant
  <2>4. r \in [role : {"user"}, content : Seq(ResultBlock)]
    BY <1>3, <1>5 DEF ToolResults
  <2>5. ToolUses(a.content) = Calls
    BY <1>4 DEF Calls
  <2>6. Calls # <<>>
    <3>1. intents = [k \in DOMAIN Calls |-> Calls[k].name] /\ intents # <<>>
      BY <1>1, <1>2 DEF BatchIsTheResponse, BatchIsDone
    <3>2. intents \in Seq(Names)
      BY <1>1 DEF BatchTypeOK
    <3>3. DOMAIN intents # {}
      BY <3>1, <3>2
    <3> QED
      BY <3>1, <3>3
  <2>7. Ids(Calls) = ResultIds(BatchResults)
    BY <1>5 DEF Ids, ResultIds
  <2> QED
    BY <1>4, <2>3, <2>4, <2>5, <2>6, <2>7 DEF Exchange
<1>7. said' = said \o FlatMap(BlockAtoms, r.content)
  BY <1>1, <1>2, <1>4, BatchSays
<1>8. Transcript'
  <2>1. messages' = messages \o <<a, r>> /\ status' # "batch"
    BY <1>2, <1>3
  <2> QED
    BY <1>1, <1>2, <1>4, <1>6, <1>7, <2>1, ExchangeAdded
<1>9. CallInv'
  <2>1. phase' = "idle"
    BY <1>1, <1>2 DEF CallInv, CallIsMade
  <2> QED
    BY <1>1, <1>2, <2>1, CallIsOver
<1> QED
  BY <1>8, <1>9 DEF Talks

LEMMA RunToolsTalks == ASSUME TalkInv, RunTools PROVE Talks
BY NothingTalks DEF RunTools

LEMMA StutterTalks == ASSUME TalkInv, UNCHANGED vars PROVE Talks
BY NothingTalks DEF vars

LEMMA TalkStep == ASSUME TalkInv, [Next]_vars PROVE TalkInv'
<1>1. Talks
  BY PromptTalks, AskTalks, LimitTalks, ProvideTalks, ErrorTalks, FinalTalks, RequestTalks,
     RunToolsTalks, AnswerTalks, StutterTalks DEF Next, Work
<1>2. TurnInv'
  BY TurnStep DEF TalkInv
<1> QED
  BY <1>1, <1>2 DEF Talks, TalkInv

\* At every step of a turn, whatever the adapter: the transcript is what was
\* said, its results answer its calls, the request is made of it, and the
\* response in hand is what was received (agent/src/lib.rs:223-330).
THEOREM TalkInvariant == Spec => []TalkInv
<1>1. Init => TalkInv
  BY InitTurn, InitTalk DEF TalkInv
<1>2. TalkInv /\ [Next]_vars => TalkInv'
  BY TalkStep
<1> QED
  BY <1>1, <1>2, PTL DEF Spec

LEMMA TalkIsFaithful == ASSUME TalkInv PROVE RequestIsFaithful
<1> SUFFICES ASSUME phase = "sending"
             PROVE  RequestAtoms(adapter, request) = said /\ CallsAnsweredNext(request)
  BY DEF RequestIsFaithful
<1>1. CallTypes /\ Transcript /\ CallIsMade
  BY DEF TalkInv, TurnInv, CallInv
<1>2. request = ToWire(messages) /\ status = "asking"
  BY <1>1 DEF CallIsMade
<1>3. messages \in Seq(Fitting(adapter)) /\ said = Spoken(messages)
  BY <1>1, <1>2 DEF Transcript
<1>4. adapter \in {"anthropic", "compatible", "codex", "openrouter"}
  BY <1>1, AdapterIs DEF FourAdapters
<1>5. PICK ms : ms = messages
  OBVIOUS
<1>6. RequestAtoms(adapter, ToWire(ms)) = Spoken(ms)
  BY <1>3, <1>4, <1>5, RequestRepeats
<1>7. PICK w : w = ToWire(messages)
  OBVIOUS
<1>8. CallsAnsweredNext(w)
  BY <1>1, <1>7 DEF Transcript
<1>9. w = request
  BY <1>2, <1>7
<1> QED
  BY <1>3, <1>5, <1>6, <1>7, <1>8, <1>9

\* Whatever the adapter and the replies, a request repeats in order all that was
\* said before it and keeps each call next to its results
\* (llm/src/codex.rs:157-228, llm/src/chatcompletions.rs:164-252,
\* llm/src/anthropic.rs:440-480, agent/src/lib.rs:262-280).
THEOREM RequestsAreFaithful == Spec => []RequestIsFaithful
<1>1. TalkInv => RequestIsFaithful
  BY TalkIsFaithful
<1> QED
  BY <1>1, TalkInvariant, PTL

-----------------------------------------------------------------------------
(* A reply that gets here whole comes out whole.                           *)

BadIn(calls) == \E k \in DOMAIN calls : ~Parses(calls[k].input)

LEMMA BadMore ==
    ASSUME NEW S, NEW s \in Seq(S), NEW x
    PROVE  BadIn(Append(s, x)) <=> BadIn(s) \/ ~Parses(x.input)
<1>1. PICK n \in Nat : n = Len(s) /\ DOMAIN s = 1 .. n
  OBVIOUS
<1>2. PICK t : t = Append(s, x)
  OBVIOUS
<1>3. DOMAIN t = 1 .. n + 1 /\ t[n + 1] = x /\ \A k \in 1 .. n : t[k] = s[k]
  BY <1>1, <1>2
<1>4. \A k : k \in 1 .. n + 1 <=> k \in 1 .. n \/ k = n + 1
  OBVIOUS
<1>5. BadIn(t) <=> BadIn(s) \/ ~Parses(x.input)
  BY <1>1, <1>3, <1>4 DEF BadIn
<1> QED
  BY <1>2, <1>5

LEMMA BadCallMore ==
    ASSUME NEW S, NEW s \in Seq(S), NEW x
    PROVE  BadCall(Append(s, x)) <=> BadCall(s) \/ (IsCall(x) /\ ~Parses(x.input))
<1>1. PICK n \in Nat : n = Len(s) /\ DOMAIN s = 1 .. n
  OBVIOUS
<1>2. PICK t : t = Append(s, x)
  OBVIOUS
<1>3. DOMAIN t = 1 .. n + 1 /\ t[n + 1] = x /\ \A k \in 1 .. n : t[k] = s[k]
  BY <1>1, <1>2
<1>4. \A k : k \in 1 .. n + 1 <=> k \in 1 .. n \/ k = n + 1
  OBVIOUS
<1>5. BadCall(t) <=> BadCall(s) \/ (IsCall(x) /\ ~Parses(x.input))
  BY <1>1, <1>3, <1>4 DEF BadCall
<1> QED
  BY <1>2, <1>5

\* A list of blocks has a call that does not parse if one of its calls does not.
LEMMA BadCallIs ==
    ASSUME NEW s \in Seq(AnyBlock)
    PROVE  BadCall(s) <=> BadIn(ToolUses(s))
<1>1. \A t \in Seq(AnyBlock) : ToolUses(t) = FlatMap(IfCall, t)
  BY SelectionsAre
<1>2. IfCall \in Conversion(AnyBlock, CallBlock)
  BY SelectionsConvert
<1> DEFINE G == {t \in Seq(AnyBlock) : BadCall(t) <=> BadIn(FlatMap(IfCall, t))}
<1>3. <<>> \in G
  <2>1. FlatMap(IfCall, <<>>) = <<>> /\ <<>> \in Seq(AnyBlock)
    BY FlatMapNone
  <2>2. ~BadCall(<<>>) /\ ~BadIn(<<>>)
    BY DEF BadCall, BadIn
  <2> QED
    BY <2>1, <2>2
<1>4. ASSUME NEW t \in Seq(AnyBlock), NEW x \in AnyBlock, t \in G
      PROVE  Append(t, x) \in G
  <2>1. BadCall(t) <=> BadIn(FlatMap(IfCall, t))
    BY <1>4
  <2>2. PICK calls : calls = FlatMap(IfCall, t)
    OBVIOUS
  <2>3. calls \in Seq(CallBlock)
    BY <1>2, <2>2, FlatMapIs
  <2>4. FlatMap(IfCall, Append(t, x)) = calls \o IfCall[x]
    BY <1>2, <2>2, FlatMapMore
  <2>5. BadCall(Append(t, x)) <=> BadCall(t) \/ (IsCall(x) /\ ~Parses(x.input))
    BY BadCallMore
  <2>6. IfCall[x] = IF IsCall(x) THEN <<x>> ELSE <<>>
    BY DEF IfCall
  <2>7. BadIn(calls \o IfCall[x]) <=> BadIn(calls) \/ (IsCall(x) /\ ~Parses(x.input))
    <3>1. CASE IsCall(x)
      <4>1. x \in CallBlock
        <5>1. IfCall[x] \in Seq(CallBlock)
          BY <1>2 DEF Conversion
        <5>2. IfCall[x] = <<x>>
          BY <2>6, <3>1
        <5>3. <<x>> \in Seq(CallBlock)
          BY <5>1, <5>2, Zenon
        <5>4. 1 \in DOMAIN <<x>> /\ <<x>>[1] = x
          OBVIOUS
        <5> QED
          BY <5>3, <5>4
      <4>2. calls \o <<x>> = Append(calls, x)
        BY <2>3, <4>1
      <4>3. BadIn(Append(calls, x)) <=> BadIn(calls) \/ ~Parses(x.input)
        BY <2>3, BadMore
      <4>4. IfCall[x] = <<x>>
        BY <2>6, <3>1
      <4> QED
        BY <3>1, <4>2, <4>3, <4>4
    <3>2. CASE ~IsCall(x)
      <4>1. IfCall[x] = <<>> /\ calls \o <<>> = calls
        BY <2>3, <2>6, <3>2
      <4> QED
        BY <3>2, <4>1
    <3> QED
      BY <3>1, <3>2
  <2>8. Append(t, x) \in Seq(AnyBlock)
    OBVIOUS
  <2> QED
    BY <2>1, <2>2, <2>4, <2>5, <2>7, <2>8
<1>5. Seq(AnyBlock) \subseteq G
  <2> HIDE DEF G
  <2> QED
    BY <1>3, <1>4, SeqInduction
<1> QED
  BY <1>1, <1>5

LEMMA ReplyBlocksAre ==
    ASSUME NEW r \in Replies
    PROVE  r.blocks \in Seq(ReplyBlock) /\ r.blocks \in Seq(AnyBlock) /\ r.stop \in {"end", "calls", "length"}
<1>1. r.blocks \in Seq(ReplyBlock) /\ r.stop \in {"end", "calls", "length"}
  BY ReplyIs DEF ReplyBlock
<1>2. ReplyBlock \subseteq AnyBlock
  BY BlockKinds DEF ReplyBlock
<1> QED
  BY <1>1, <1>2, SeqWider

\* The calls among the items of Codex.
IfCallItem == [i \in OutputItem |-> IF IsCallItem(i) THEN <<i>> ELSE <<>>]

BadArguments(calls) == \E k \in DOMAIN calls : ~Parses(calls[k].arguments)

LEMMA BadArgumentsMore ==
    ASSUME NEW S, NEW s \in Seq(S), NEW x
    PROVE  BadArguments(Append(s, x)) <=> BadArguments(s) \/ ~Parses(x.arguments)
<1>1. PICK n \in Nat : n = Len(s) /\ DOMAIN s = 1 .. n
  OBVIOUS
<1>2. PICK t : t = Append(s, x)
  OBVIOUS
<1>3. DOMAIN t = 1 .. n + 1 /\ t[n + 1] = x /\ \A k \in 1 .. n : t[k] = s[k]
  BY <1>1, <1>2
<1>4. \A k : k \in 1 .. n + 1 <=> k \in 1 .. n \/ k = n + 1
  OBVIOUS
<1>5. BadArguments(t) <=> BadArguments(s) \/ ~Parses(x.arguments)
  BY <1>1, <1>3, <1>4 DEF BadArguments
<1> QED
  BY <1>2, <1>5

LEMMA CodexItemOf ==
    ASSUME NEW b \in ReplyBlock
    PROVE  /\ CodexItem(b) \in OutputItem
           /\ IsCallItem(CodexItem(b)) <=> IsCall(b)
           /\ IsCall(b) => CodexItem(b).arguments = b.input
<1>1. CodexItem(b) \in OutputItem
  BY CodexItemIs DEF ReplyBlock
<1>2. CASE b \in TextBlock /\ IsText(b) /\ ~IsCall(b)
  <2>1. CodexItem(b) = MessageItem("assistant", <<b.text>>)
    <3>1. ~IsThinking(b)
      BY <1>2, KindsDiffer DEF IsThinking
    <3> QED
      BY <1>2, <3>1 DEF CodexItem
  <2>2. CodexItem(b).type = "message"
    BY <2>1 DEF MessageItem
  <2> QED
    BY <1>1, <1>2, <2>2 DEF IsCallItem
<1>3. CASE b \in CallBlock /\ IsCall(b) /\ ~IsText(b)
  <2>1. CodexItem(b) = CallItem(b)
    <3>1. ~IsThinking(b)
      BY <1>3, KindsDiffer DEF IsThinking
    <3> QED
      BY <1>3, <3>1 DEF CodexItem
  <2>2. CodexItem(b).type = "function_call" /\ CodexItem(b).arguments = b.input
    BY <2>1 DEF CallItem
  <2> QED
    BY <1>1, <1>3, <2>2 DEF IsCallItem
<1>4. CASE b \in ThinkingBlock /\ ~IsCall(b) /\ ~IsText(b)
  <2>1. b.type = "thinking" /\ b.item \in ReasoningItem
    BY <1>4 DEF ThinkingBlock
  <2>2. CodexItem(b) = b.item
    BY <1>4, <2>1 DEF CodexItem, IsThinking
  <2>3. CodexItem(b).type = "reasoning"
    BY <2>1, <2>2 DEF ReasoningItem
  <2> QED
    BY <1>1, <1>4, <2>3 DEF IsCallItem
<1> QED
  BY <1>2, <1>3, <1>4, ReplyKinds

LEMMA CallItemsConvert == IfCallItem \in Conversion(OutputItem, OutputItem)
<1>1. \A i \in OutputItem : <<i>> \in Seq(OutputItem) /\ <<>> \in Seq(OutputItem)
  <2> SUFFICES ASSUME NEW S, NEW i \in S PROVE <<i>> \in Seq(S) /\ <<>> \in Seq(S)
    OBVIOUS
  <2> QED
    OBVIOUS
<1>2. \A i \in OutputItem : (IF IsCallItem(i) THEN <<i>> ELSE <<>>) \in Seq(OutputItem)
  BY <1>1
<1> QED
  BY <1>2 DEF IfCallItem, Conversion

\* The calls among the items are the calls of the reply.
CallsSent(blocks) == FlatMap(IfCallItem, Items(blocks))

AsManyCalls(blocks) ==
    /\ CallsSent(blocks) = <<>> <=> ToolUses(blocks) = <<>>
    /\ BadArguments(CallsSent(blocks)) <=> BadIn(ToolUses(blocks))

LEMMA ItemsMore ==
    ASSUME NEW blocks \in Seq(ReplyBlock), NEW b \in ReplyBlock
    PROVE  Items(Append(blocks, b)) = Append(Items(blocks), CodexItem(b))
<1>1. PICK s, t : s = Items(blocks) /\ t = Items(Append(blocks, b))
  OBVIOUS
<1>2. s \in Seq(OutputItem) /\ DOMAIN s = DOMAIN blocks
  BY <1>1, OutputItemsAre
<1>3. PICK n \in Nat : n = Len(blocks) /\ n = Len(s) /\ DOMAIN blocks = 1 .. n
  <2>1. DOMAIN blocks = 1 .. Len(blocks) /\ Len(blocks) \in Nat
    <3> HIDE DEF ReplyBlock
    <3> QED
      OBVIOUS
  <2>2. Len(s) = Len(blocks)
    <3>1. DOMAIN s = 1 .. Len(s) /\ Len(s) \in Nat
      BY <1>2
    <3> QED
      BY <1>2, <2>1, <3>1
  <2> QED
    BY <2>1, <2>2
<1>4. PICK more : more = Append(blocks, b)
  OBVIOUS
<1>5. DOMAIN more = 1 .. n + 1 /\ more[n + 1] = b /\ \A k \in 1 .. n : more[k] = blocks[k]
  <2> HIDE DEF ReplyBlock
  <2> QED
    BY <1>3, <1>4
<1>6. t = [k \in 1 .. n + 1 |-> CodexItem(more[k])]
  BY <1>1, <1>4, <1>5 DEF Items
<1>7. s = [k \in 1 .. n |-> CodexItem(blocks[k])]
  BY <1>1, <1>3 DEF Items
<1>8. CodexItem(b) \in OutputItem
  BY CodexItemOf
<1>9. Extended(OutputItem, s, CodexItem(b), t)
  <2>1. t[n + 1] = CodexItem(b)
    BY <1>5, <1>6
  <2>2. \A k \in 1 .. n : t[k] = s[k]
    BY <1>5, <1>6, <1>7
  <2>3. t = [k \in 1 .. n + 1 |-> t[k]]
    BY <1>6
  <2> QED
    BY <1>2, <1>3, <1>8, <2>1, <2>2, <2>3 DEF Extended
<1> QED
  BY <1>1, <1>9, IsAppend

LEMMA CallMore ==
    ASSUME NEW blocks \in Seq(ReplyBlock), NEW b \in ReplyBlock
    PROVE  ToolUses(Append(blocks, b)) = ToolUses(blocks) \o IfCall[b]
<1>1. blocks \in Seq(AnyBlock) /\ b \in AnyBlock
  <2>1. ReplyBlock \subseteq AnyBlock
    BY BlockKinds DEF ReplyBlock
  <2> HIDE DEF ReplyBlock
  <2> QED
    BY <2>1, SeqWider
<1>2. Append(blocks, b) \in Seq(AnyBlock)
  BY <1>1
<1>3. ToolUses(blocks) = FlatMap(IfCall, blocks) /\ ToolUses(Append(blocks, b)) = FlatMap(IfCall, Append(blocks, b))
  BY <1>1, <1>2, SelectionsAre
<1>4. IfCall \in Conversion(AnyBlock, CallBlock)
  BY SelectionsConvert
<1>5. FlatMap(IfCall, Append(blocks, b)) = FlatMap(IfCall, blocks) \o IfCall[b]
  BY <1>1, <1>4, FlatMapMore
<1> QED
  BY <1>3, <1>5

LEMMA ToolUsesAre ==
    ASSUME NEW blocks \in Seq(ReplyBlock) PROVE ToolUses(blocks) \in Seq(CallBlock)
<1>1. blocks \in Seq(AnyBlock)
  <2>1. ReplyBlock \subseteq AnyBlock
    BY BlockKinds DEF ReplyBlock
  <2> QED
    BY <2>1, SeqWider
<1>2. ToolUses(blocks) = FlatMap(IfCall, blocks)
  BY <1>1, SelectionsAre
<1>3. IfCall \in Conversion(AnyBlock, CallBlock)
  BY SelectionsConvert
<1>4. FlatMap(IfCall, blocks) \in Seq(CallBlock)
  BY <1>1, <1>3, FlatMapIs
<1> QED
  BY <1>2, <1>4

LEMMA CallItemsMore ==
    ASSUME NEW blocks \in Seq(ReplyBlock), NEW b \in ReplyBlock
    PROVE  CallsSent(blocks) \in Seq(OutputItem)
           /\ CallsSent(Append(blocks, b)) = CallsSent(blocks) \o IfCallItem[CodexItem(b)]
<1>1. PICK s : s = Items(blocks)
  OBVIOUS
<1>2. s \in Seq(OutputItem)
  BY <1>1, OutputItemsAre
<1>3. CodexItem(b) \in OutputItem
  BY CodexItemOf
<1>4. FlatMap(IfCallItem, Append(s, CodexItem(b))) = FlatMap(IfCallItem, s) \o IfCallItem[CodexItem(b)]
  BY <1>2, <1>3, CallItemsConvert, FlatMapMore
<1>5. FlatMap(IfCallItem, s) \in Seq(OutputItem)
  BY <1>2, CallItemsConvert, FlatMapIs
<1>6. Items(Append(blocks, b)) = Append(s, CodexItem(b))
  BY <1>1, ItemsMore
<1> QED
  BY <1>1, <1>4, <1>5, <1>6 DEF CallsSent

LEMMA AsManyMore ==
    ASSUME NEW blocks \in Seq(ReplyBlock), NEW b \in ReplyBlock, AsManyCalls(blocks)
    PROVE  AsManyCalls(Append(blocks, b))
<1>1. PICK c, u, more, i : c = CallsSent(blocks) /\ u = ToolUses(blocks) /\ more = Append(blocks, b) /\ i = CodexItem(b)
  OBVIOUS
<1>2. c \in Seq(OutputItem) /\ CallsSent(more) = c \o IfCallItem[i]
  BY <1>1, CallItemsMore
<1>3. u \in Seq(CallBlock) /\ ToolUses(more) = u \o IfCall[b]
  BY <1>1, CallMore, ToolUsesAre
<1>4. (c = <<>> <=> u = <<>>) /\ (BadArguments(c) <=> BadIn(u))
  BY <1>1 DEF AsManyCalls
<1>5. i \in OutputItem /\ (IsCallItem(i) <=> IsCall(b)) /\ (IsCall(b) => i.arguments = b.input)
  BY <1>1, CodexItemOf
<1>6. IfCallItem[i] = IF IsCallItem(i) THEN <<i>> ELSE <<>>
  BY <1>5 DEF IfCallItem
<1>7. CASE IsCall(b)
  <2>1. b \in CallBlock /\ IfCall[b] = <<b>>
    BY <1>7, ReplyKinds, SelectionsOf
  <2>2. IfCallItem[i] = <<i>>
    BY <1>5, <1>6, <1>7
  <2>3. CallsSent(more) = Append(c, i)
    BY <1>2, <1>5, <2>2
  <2>4. ToolUses(more) = Append(u, b)
    BY <1>3, <2>1
  <2>5. BadArguments(Append(c, i)) <=> BadArguments(c) \/ ~Parses(i.arguments)
    BY <1>2, BadArgumentsMore
  <2>6. BadIn(Append(u, b)) <=> BadIn(u) \/ ~Parses(b.input)
    BY <1>3, BadMore
  <2>7. i.arguments = b.input
    BY <1>5, <1>7
  <2>8. BadArguments(CallsSent(more)) <=> BadIn(ToolUses(more))
    BY <1>4, <2>3, <2>4, <2>5, <2>6, <2>7
  <2>9. CallsSent(more) # <<>> /\ ToolUses(more) # <<>>
    <3>1. Append(c, i) # <<>>
      BY <1>2, <1>5, LastOf
    <3>2. Append(u, b) # <<>>
      BY <1>3, <2>1
    <3> QED
      BY <2>3, <2>4, <3>1, <3>2
  <2> QED
    BY <1>1, <2>8, <2>9 DEF AsManyCalls
<1>8. CASE ~IsCall(b)
  <2>1. IfCall[b] = <<>>
    <3>1. b \in TextBlock \/ b \in ThinkingBlock
      BY <1>8, ReplyKinds
    <3>2. CASE b \in TextBlock
      BY <3>2, SelectionsOf
    <3>3. CASE b \in ThinkingBlock
      <4>1. b \in ThinkingBlock \union OpaqueBlock \union [type : {"ignored"}]
        BY <3>3
      <4> QED
        BY <4>1, SelectionsOf
    <3> QED
      BY <3>1, <3>2, <3>3
  <2>2. IfCallItem[i] = <<>>
    BY <1>5, <1>6, <1>8
  <2>3. CallsSent(more) = c
    BY <1>2, <2>2
  <2>4. ToolUses(more) = u
    BY <1>3, <2>1
  <2> QED
    BY <1>1, <1>4, <2>3, <2>4 DEF AsManyCalls
<1> QED
  BY <1>7, <1>8

LEMMA CodexCalls ==
    ASSUME NEW blocks \in Seq(ReplyBlock) PROVE AsManyCalls(blocks)
<1> DEFINE G == {s \in Seq(ReplyBlock) : AsManyCalls(s)}
<1>1. <<>> \in G
  <2>1. Items(<<>>) = <<>>
    BY DEF Items
  <2>2. CallsSent(<<>>) = <<>>
    BY <2>1, FlatMapNone DEF CallsSent
  <2>3. ToolUses(<<>>) = <<>>
    <3>1. <<>> \in Seq(AnyBlock)
      OBVIOUS
    <3> QED
      BY <3>1, SelectionsAre, FlatMapNone
  <2>4. ~BadArguments(<<>>) /\ ~BadIn(<<>>)
    BY DEF BadArguments, BadIn
  <2>5. AsManyCalls(<<>>)
    BY <2>2, <2>3, <2>4 DEF AsManyCalls
  <2>6. <<>> \in Seq(ReplyBlock)
    <3> HIDE DEF ReplyBlock
    <3> QED
      OBVIOUS
  <2> QED
    BY <2>5, <2>6
<1>2. ASSUME NEW s \in Seq(ReplyBlock), NEW b \in ReplyBlock, s \in G
      PROVE  Append(s, b) \in G
  <2>1. AsManyCalls(Append(s, b))
    BY <1>2, AsManyMore
  <2>2. Append(s, b) \in Seq(ReplyBlock)
    <3> HIDE DEF ReplyBlock
    <3> QED
      OBVIOUS
  <2> QED
    BY <2>1, <2>2
<1>3. Seq(ReplyBlock) \subseteq G
  <2> HIDE DEF G
  <2> QED
    BY <1>1, <1>2, SeqInduction
<1> QED
  BY <1>3

-----------------------------------------------------------------------------
(* The response a whole reply comes out as.                                *)

LEMMA SaidConverts == IfSaid \in Conversion(AnyBlock, AnyBlock)
<1>1. \A b \in AnyBlock : <<b>> \in Seq(AnyBlock) /\ <<>> \in Seq(AnyBlock)
  <2> SUFFICES ASSUME NEW S, NEW i \in S PROVE <<i>> \in Seq(S) /\ <<>> \in Seq(S)
    OBVIOUS
  <2> QED
    OBVIOUS
<1>2. \A b \in AnyBlock : (IF IsCall(b) \/ (IsText(b) /\ b.text # <<>>) THEN <<b>> ELSE <<>>) \in Seq(AnyBlock)
  BY <1>1
<1> QED
  BY <1>2 DEF IfSaid, Conversion

LEMMA SaidKinds ==
    ASSUME NEW b \in HeardBlock
    PROVE  /\ (IfSaid[b] = <<b>> /\ b \in SpokenBlock) \/ IfSaid[b] = <<>>
           /\ (IfKnown[b] = <<b>> /\ b \in SpokenBlock) \/ (IfKnown[b] = <<>> /\ IfSaid[b] = <<>>)
<1>1. CASE b \in TextBlock
  <2>1. b \in SpokenBlock
    BY <1>1 DEF SpokenBlock
  <2>2. IfKnown[b] = <<b>> /\ (IfSaid[b] = <<b>> \/ IfSaid[b] = <<>>)
    BY <1>1, KeptIs
  <2> QED
    BY <2>1, <2>2
<1>2. CASE b \in CallBlock
  <2>1. b \in SpokenBlock
    BY <1>2 DEF SpokenBlock
  <2>2. IfKnown[b] = <<b>> /\ IfSaid[b] = <<b>>
    BY <1>2, KeptIs
  <2> QED
    BY <2>1, <2>2
<1>3. CASE b \in ThinkingBlock \union [type : {"ignored"}]
  BY <1>3, KeptIs
<1> QED
  BY <1>1, <1>2, <1>3, HeardKinds

LEMMA SaidOnce ==
    ASSUME NEW s \in Seq(HeardBlock)
    PROVE  /\ FlatMap(IfSaid, FlatMap(IfSaid, s)) = FlatMap(IfSaid, s)
           /\ FlatMap(IfSaid, FlatMap(IfKnown, s)) = FlatMap(IfSaid, s)
<1>1. Through(HeardBlock, SpokenBlock, AnyBlock, IfSaid, IfSaid, IfSaid)
  <2>1. \A b \in HeardBlock : (IfSaid[b] = <<b>> /\ b \in SpokenBlock) \/ (IfSaid[b] = <<>> /\ IfSaid[b] = <<>>)
    BY SaidKinds
  <2> QED
    BY <2>1, SaidConverts, ThroughKept
<1>2. Through(HeardBlock, SpokenBlock, AnyBlock, IfKnown, IfSaid, IfSaid)
  <2>1. \A b \in HeardBlock : (IfKnown[b] = <<b>> /\ b \in SpokenBlock) \/ (IfKnown[b] = <<>> /\ IfSaid[b] = <<>>)
    BY SaidKinds
  <2> QED
    BY <2>1, SaidConverts, ThroughKept
<1>3. FlatMap(IfSaid, FlatMap(IfSaid, s)) = FlatMap(IfSaid, s)
  BY <1>1, FlatMapThrough
<1>4. FlatMap(IfSaid, FlatMap(IfKnown, s)) = FlatMap(IfSaid, s)
  BY <1>2, FlatMapThrough
<1> QED
  BY <1>3, <1>4

LEMMA NotBlankIs ==
    ASSUME NEW s \in Seq(SpokenBlock)
    PROVE  Select(s, LAMBDA b : ~IsText(b) \/ b.text # <<>>) = FlatMap(IfSaid, s)
<1>1. \A k \in DOMAIN s : s[k] \in SpokenBlock
  <2> HIDE DEF SpokenBlock
  <2> QED
    OBVIOUS
<1>2. \A b \in SpokenBlock : (IF ~IsText(b) \/ b.text # <<>> THEN <<b>> ELSE <<>>) = IfSaid[b]
  <2> SUFFICES ASSUME NEW b \in SpokenBlock
               PROVE  (IF ~IsText(b) \/ b.text # <<>> THEN <<b>> ELSE <<>>) = IfSaid[b]
    OBVIOUS
  <2>1. CASE b \in TextBlock
    <3>1. IsText(b) /\ IfSaid[b] = IF b.text # <<>> THEN <<b>> ELSE <<>>
      BY <2>1, KeptIs, KindsDiffer
    <3> QED
      BY <3>1
  <2>2. CASE b \in CallBlock
    <3>1. ~IsText(b) /\ IfSaid[b] = <<b>>
      BY <2>2, KeptIs, KindsDiffer
    <3> QED
      BY <3>1
  <2> QED
    BY <2>1, <2>2 DEF SpokenBlock
<1>3. [k \in DOMAIN s |-> IF ~IsText(s[k]) \/ s[k].text # <<>> THEN <<s[k]>> ELSE <<>>]
      = [k \in DOMAIN s |-> IfSaid[s[k]]]
  BY <1>1, <1>2
<1> QED
  BY <1>3 DEF Select, FlatMap

LEMMA SubstanceOf ==
    ASSUME NEW content \in Seq(SpokenBlock), NEW stop, NEW d, d = Response(content, stop)
    PROVE  Substance(d) = [content |-> FlatMap(IfSaid, content), stop_reason |-> stop]
<1>1. d.content = content /\ d.stop_reason = stop
  BY DEF Response
<1>2. Select(d.content, LAMBDA b : ~IsText(b) \/ b.text # <<>>) = FlatMap(IfSaid, content)
  BY <1>1, NotBlankIs
<1> QED
  BY <1>1, <1>2 DEF Substance

\* Blank texts aside, it is the same whether it is streamed or not.
LEMMA SameSubstance ==
    ASSUME NEW blocks \in Seq(ReplyBlock), NEW stop
    PROVE  Substance(Response(FlatMap(IfSaid, Collected(blocks)), stop))
           = Substance(Response(FlatMap(IfKnown, blocks), stop))
<1>1. PICK c : c = Collected(blocks)
  OBVIOUS
<1>2. c \in Seq(HeardBlock)
  <2>1. c \in Seq(OpenBlock) /\ OpenBlock \subseteq HeardBlock
    BY <1>1, CollectedIs, HeardKinds
  <2> QED
    BY <2>1, SeqWider
<1>3. blocks \in Seq(HeardBlock)
  <2>1. ReplyBlock \subseteq HeardBlock
    BY HeardKinds
  <2> QED
    BY <2>1, SeqWider
<1>4. PICK said_, known : said_ = FlatMap(IfSaid, c) /\ known = FlatMap(IfKnown, blocks)
  OBVIOUS
<1>5. said_ \in Seq(SpokenBlock) /\ known \in Seq(SpokenBlock)
  BY <1>2, <1>3, <1>4, KeptContent, KeptSays
<1>6. FlatMap(IfSaid, said_) = said_ /\ FlatMap(IfSaid, known) = FlatMap(IfSaid, blocks)
  BY <1>2, <1>3, <1>4, SaidOnce
<1>7. said_ = FlatMap(IfSaid, blocks)
  <2>1. \A b \in ReplyBlock : IfSaid[Received(b)] = IfSaid[b]
    <3> SUFFICES ASSUME NEW b \in ReplyBlock PROVE IfSaid[Received(b)] = IfSaid[b]
      OBVIOUS
    <3>1. CASE IsText(b) \/ IsCall(b)
      BY <3>1, ReceivedIs
    <3>2. CASE ~IsText(b) /\ ~IsCall(b)
      <4>1. b \in ThinkingBlock
        BY <3>2, ReplyKinds
      <4>2. Received(b) = [type |-> "ignored"]
        BY <3>2, ReceivedIs
      <4>3. PICK x : x = Received(b)
        OBVIOUS
      <4>4. x \in ThinkingBlock \union [type : {"ignored"}] /\ b \in ThinkingBlock \union [type : {"ignored"}]
        BY <4>1, <4>2, <4>3
      <4>5. IfSaid[x] = <<>> /\ IfSaid[b] = <<>>
        BY <4>4, KeptIs
      <4> QED
        BY <4>3, <4>5
    <3> QED
      BY <3>1, <3>2
  <2> QED
    BY <1>1, <1>4, <2>1, CollectedAlike
<1>8. PICK d, e : d = Response(said_, stop) /\ e = Response(known, stop)
  OBVIOUS
<1>9. /\ Substance(d) = [content |-> FlatMap(IfSaid, said_), stop_reason |-> stop]
      /\ Substance(e) = [content |-> FlatMap(IfSaid, known), stop_reason |-> stop]
  BY <1>5, <1>8, SubstanceOf
<1> QED
  BY <1>1, <1>4, <1>6, <1>7, <1>8, <1>9

LEMMA StopsAre ==
    ASSUME NEW stop \in {"end", "calls", "length"}
    PROVE  /\ AnthropicStop[stop] # "none"
           /\ (StopReason(AnthropicStop[stop]) = "MaxTokens") <=> stop = "length"
           /\ (FinishReason(ChatStop[stop]) = "MaxTokens") <=> stop = "length"
           /\ (CodexStatus[stop] = "max_output_tokens") <=> stop = "length"
<1>1. CASE stop = "end"
  BY <1>1 DEF AnthropicStop, ChatStop, CodexStatus, StopReason, FinishReason
<1>2. CASE stop = "calls"
  BY <1>2 DEF AnthropicStop, ChatStop, CodexStatus, StopReason, FinishReason
<1>3. CASE stop = "length"
  BY <1>3 DEF AnthropicStop, ChatStop, CodexStatus, StopReason, FinishReason
<1> QED
  BY <1>1, <1>2, <1>3

\* What a whole reply must come out as.
ComesOut(r, d) ==
    IF BadIn(ToolUses(r.blocks)) THEN adapter # "compatible" => ~d.ok
    ELSE /\ d.ok
         /\ Substance(d) = Substance(FromWire(r))
         /\ ToolUses(d.content) = ToolUses(r.blocks)
         /\ TextOf(d.content) = TextOf(r.blocks)
         /\ (d.stop_reason = "MaxTokens") <=> (r.stop = "length" /\
                (adapter \in {"codex", "openrouter"} => ToolUses(r.blocks) = <<>>))

LEMMA DeliveredHas ==
    ASSUME adapter \in FourAdapters, NEW r \in Replies, NEW d, d = Delivered(r), d.ok
    PROVE  ToolUses(d.content) = ToolUses(r.blocks) /\ TextOf(d.content) = TextOf(r.blocks)
BY DeliveredSays DEF SaysReply, FourAdapters

LEMMA StreamComesOut ==
    ASSUME adapter = "anthropic", NEW r \in Replies, NEW d, d = Delivered(r)
    PROVE  ComesOut(r, d)
<1>1. PICK a, blocks : a = Full(r) /\ blocks = r.blocks
  OBVIOUS
<1>2. /\ a \in Accumulator /\ a.blocks = Collected(blocks) /\ a.stop_reason = AnthropicStop[r.stop]
      /\ d = Finish(a)
  BY <1>1, FullIs DEF Delivered
<1>3. blocks \in Seq(ReplyBlock) /\ blocks \in Seq(AnyBlock) /\ r.stop \in {"end", "calls", "length"}
  BY <1>1, ReplyBlocksAre
<1>4. BadCall(a.blocks) <=> BadIn(ToolUses(blocks))
  <2>1. BadCall(Collected(blocks)) = BadCall(blocks)
    BY <1>3, CollectedSays
  <2>2. BadCall(blocks) <=> BadIn(ToolUses(blocks))
    BY <1>3, BadCallIs
  <2> QED
    BY <1>2, <2>1, <2>2
<1>5. PICK stop : stop = StopReason(AnthropicStop[r.stop])
  OBVIOUS
<1>6. d = IF BadCall(a.blocks) THEN Failed("malformed") ELSE Response(FlatMap(IfSaid, Collected(blocks)), stop)
  <2>1. a.stop_reason # "none"
    BY <1>2, <1>3, StopsAre
  <2>2. Finish(a) = IF BadCall(a.blocks) THEN Failed("malformed")
                    ELSE Response(FlatMap(IfSaid, a.blocks),
                                  IF a.stop_reason = "none" THEN "EndTurn" ELSE StopReason(a.stop_reason))
    BY <1>2, FinishAs
  <2> QED
    BY <1>2, <1>5, <2>1, <2>2, Zenon
<1>7. CASE BadIn(ToolUses(blocks))
  <2>1. d = Failed("malformed")
    BY <1>4, <1>6, <1>7
  <2>2. ~d.ok
    BY <2>1, FailedHasNone
  <2> QED
    BY <1>1, <1>7, <2>2 DEF ComesOut
<1>8. CASE ~BadIn(ToolUses(blocks))
  <2>1. PICK content : content = FlatMap(IfSaid, Collected(blocks))
    OBVIOUS
  <2>2. d = Response(content, stop)
    BY <1>4, <1>6, <1>8, <2>1
  <2>3. d.ok /\ d.stop_reason = stop
    BY <2>2 DEF Response
  <2>4. FromWire(r) = Response(FlatMap(IfKnown, blocks), stop)
    <3>1. FromWire(r) = AnthropicResponse(AnthropicBody(r))
      BY DEF FromWire
    <3> QED
      BY <1>1, <1>5, <3>1, BodyAs
  <2>5. Substance(d) = Substance(FromWire(r))
    BY <1>3, <2>1, <2>2, <2>4, SameSubstance
  <2>6. ToolUses(d.content) = ToolUses(blocks) /\ TextOf(d.content) = TextOf(blocks)
    BY <1>1, <2>3, DeliveredHas DEF FourAdapters
  <2>7. d.stop_reason = "MaxTokens" <=> r.stop = "length"
    BY <1>3, <1>5, <2>3, StopsAre
  <2> QED
    BY <1>1, <1>8, <2>3, <2>5, <2>6, <2>7 DEF ComesOut
<1> QED
  BY <1>7, <1>8

LEMMA BodyComesOut ==
    ASSUME adapter = "compatible", NEW r \in Replies, NEW d, d = Delivered(r)
    PROVE  ComesOut(r, d)
<1>1. d = FromWire(r) /\ d = AnthropicResponse(AnthropicBody(r))
  BY DEF Delivered, FromWire
<1>2. PICK stop : stop = StopReason(AnthropicStop[r.stop])
  OBVIOUS
<1>3. d = Response(FlatMap(IfKnown, r.blocks), stop)
  BY <1>1, <1>2, BodyAs
<1>4. d.ok /\ d.stop_reason = stop
  BY <1>3 DEF Response
<1>5. ToolUses(d.content) = ToolUses(r.blocks) /\ TextOf(d.content) = TextOf(r.blocks)
  BY <1>4, DeliveredHas DEF FourAdapters
<1>6. d.stop_reason = "MaxTokens" <=> r.stop = "length"
  BY <1>2, <1>4, ReplyBlocksAre, StopsAre
<1> QED
  BY <1>1, <1>4, <1>5, <1>6 DEF ComesOut

LEMMA ChatComesOut ==
    ASSUME adapter = "openrouter", NEW r \in Replies, NEW d, d = Delivered(r)
    PROVE  ComesOut(r, d)
<1>1. d = FromWire(r) /\ d = ChatResponse(ChatBody(r))
  BY DEF Delivered, FromWire
<1>2. PICK t, calls : /\ t = IF TextOf(r.blocks) = <<>> THEN <<>> ELSE <<Text(TextOf(r.blocks))>>
                      /\ calls = ToolUses(r.blocks)
  OBVIOUS
<1>3. PICK stop : stop = IF calls # <<>> THEN "ToolUse" ELSE FinishReason(ChatStop[r.stop])
  OBVIOUS
<1>4. d = IF BadIn(calls) THEN Failed("malformed") ELSE Response(t \o calls, stop)
  BY <1>1, <1>2, <1>3, ChatAs DEF BadIn
<1>5. CASE BadIn(calls)
  <2>1. ~d.ok
    BY <1>4, <1>5, FailedHasNone
  <2> QED
    BY <1>2, <1>5, <2>1 DEF ComesOut
<1>6. CASE ~BadIn(calls)
  <2>1. d.ok /\ d.stop_reason = stop
    BY <1>4, <1>6 DEF Response
  <2>2. ToolUses(d.content) = ToolUses(r.blocks) /\ TextOf(d.content) = TextOf(r.blocks)
    BY <2>1, DeliveredHas DEF FourAdapters
  <2>3. d.stop_reason = "MaxTokens" <=> (r.stop = "length" /\ calls = <<>>)
    <3>1. (FinishReason(ChatStop[r.stop]) = "MaxTokens") <=> r.stop = "length"
      BY ReplyBlocksAre, StopsAre
    <3> QED
      BY <1>3, <2>1, <3>1
  <2> QED
    BY <1>1, <1>2, <1>6, <2>1, <2>2, <2>3 DEF ComesOut
<1> QED
  BY <1>5, <1>6

LEMMA CodexComesOut ==
    ASSUME adapter = "codex", NEW r \in Replies, NEW d, d = Delivered(r)
    PROVE  ComesOut(r, d)
<1>1. d = FromWire(r) /\ d = ParseStream(CodexBody(CodexEvents(r)))
  BY DEF Delivered, FromWire
<1>2. PICK body : /\ d = CodexResponse(body) /\ body.output = Items(r.blocks)
                  /\ body.error = FALSE /\ body.status = CodexStatus[r.stop]
  BY <1>1, CodexStreamAs
<1>3. PICK blocks, items : blocks = r.blocks /\ items = Items(r.blocks)
  OBVIOUS
<1>4. blocks \in Seq(ReplyBlock) /\ r.stop \in {"end", "calls", "length"}
  BY <1>3, ReplyBlocksAre
<1>5. items \in Seq(OutputItem)
  BY <1>3, <1>4, OutputItemsAre
<1>6. Select(items, IsCallItem) = CallsSent(blocks)
  <2>1. \A k \in DOMAIN items : items[k] \in OutputItem
    <3> HIDE DEF OutputItem
    <3> QED
      BY <1>5
  <2>2. [k \in DOMAIN items |-> IF IsCallItem(items[k]) THEN <<items[k]>> ELSE <<>>]
        = [k \in DOMAIN items |-> IfCallItem[items[k]]]
    BY <2>1 DEF IfCallItem
  <2> QED
    BY <1>3, <2>2 DEF Select, FlatMap, CallsSent
<1>7. PICK calls, content : /\ calls = CallsSent(blocks)
                            /\ content = FlattenSeq([k \in DOMAIN items |-> ItemBlock(items[k])])
  OBVIOUS
<1>8. PICK stop : stop = CASE calls # <<>> -> "ToolUse"
                           [] calls = <<>> /\ body.status = "max_output_tokens" -> "MaxTokens"
                           [] OTHER -> "EndTurn"
  OBVIOUS
<1>9. body.output = items /\ Select(body.output, IsCallItem) = calls
  BY <1>2, <1>3, <1>6, <1>7
<1>10. d = IF BadArguments(calls) THEN Failed("malformed") ELSE Response(content, stop)
  BY <1>2, <1>7, <1>8, <1>9 DEF CodexResponse, BadArguments
<1>11. (calls = <<>> <=> ToolUses(blocks) = <<>>) /\ (BadArguments(calls) <=> BadIn(ToolUses(blocks)))
  BY <1>4, <1>7, CodexCalls DEF AsManyCalls
<1>12. CASE BadIn(ToolUses(blocks))
  <2>1. ~d.ok
    BY <1>10, <1>11, <1>12, FailedHasNone
  <2> QED
    BY <1>3, <1>12, <2>1 DEF ComesOut
<1>13. CASE ~BadIn(ToolUses(blocks))
  <2>1. d.ok /\ d.stop_reason = stop
    BY <1>10, <1>11, <1>13 DEF Response
  <2>2. ToolUses(d.content) = ToolUses(r.blocks) /\ TextOf(d.content) = TextOf(r.blocks)
    BY <2>1, DeliveredHas DEF FourAdapters
  <2>3. body.status = "max_output_tokens" <=> r.stop = "length"
    BY <1>2, <1>4, StopsAre
  <2>4. stop = "MaxTokens" <=> (calls = <<>> /\ body.status = "max_output_tokens")
    BY <1>8
  <2>5. d.stop_reason = "MaxTokens" <=> (r.stop = "length" /\ ToolUses(r.blocks) = <<>>)
    BY <1>3, <1>11, <2>1, <2>3, <2>4
  <2> QED
    BY <1>1, <1>3, <1>13, <2>1, <2>2, <2>5 DEF ComesOut
<1> QED
  BY <1>12, <1>13

LEMMA ReplyComesOut ==
    ASSUME adapter \in FourAdapters, NEW r \in Replies, NEW d, d = Delivered(r)
    PROVE  ComesOut(r, d)
BY StreamComesOut, BodyComesOut, ChatComesOut, CodexComesOut DEF FourAdapters

-----------------------------------------------------------------------------
(* What is shown of a stream is what the accumulator takes of it.          *)

LEMMA FrontAndLast ==
    ASSUME NEW S, NEW t \in Seq(S), t # <<>>
    PROVE  \E s \in Seq(S), x \in S : t = Append(s, x) /\ Len(t) = Len(s) + 1
<1>1. PICK m \in Nat : m = Len(t) /\ DOMAIN t = 1 .. m /\ t = [k \in 1 .. m |-> t[k]]
  OBVIOUS
<1>2. PICK n \in Nat : m = n + 1
  <2>1. m # 0
    BY <1>1
  <2>2. m - 1 \in Nat /\ m = (m - 1) + 1
    BY <2>1
  <2> QED
    BY <2>2
<1>3. PICK s : s = [k \in 1 .. n |-> t[k]]
  OBVIOUS
<1>4. \A k \in 1 .. n + 1 : t[k] \in S
  BY <1>1, <1>2
<1>5. s \in Seq(S)
  <2>1. \A k \in 1 .. n : t[k] \in S
    BY <1>4
  <2> QED
    BY <1>3, <2>1
<1>6. Len(s) = n
  BY <1>3
<1>7. PICK x : x = t[n + 1]
  OBVIOUS
<1>8. x \in S
  BY <1>4, <1>7
<1>9. Extended(S, s, x, t)
  BY <1>1, <1>2, <1>3, <1>5, <1>6, <1>7, <1>8 DEF Extended
<1>10. t = Append(s, x)
  BY <1>9, IsAppend
<1> QED
  BY <1>1, <1>2, <1>5, <1>6, <1>8, <1>10

Types(blocks) == [k \in DOMAIN blocks |-> blocks[k].type]

LEMMA ShapeIs == ASSUME NEW a PROVE Shape(a) = Types(a.blocks)
BY DEF Shape, Types

LEMMA OpenTypes == ASSUME NEW b \in OpenBlock PROVE b.type \in {"text", "tool_use", "ignored"}
BY KindsDiffer DEF OpenBlock

LEMMA TypesMore ==
    ASSUME NEW blocks \in Seq(OpenBlock), NEW b \in OpenBlock
    PROVE  Types(Append(blocks, b)) = Append(Types(blocks), b.type)
<1>1. PICK n \in Nat : n = Len(blocks) /\ DOMAIN blocks = 1 .. n
  OBVIOUS
<1>2. PICK more : more = Append(blocks, b)
  OBVIOUS
<1>3. DOMAIN more = 1 .. n + 1 /\ more[n + 1] = b /\ \A k \in 1 .. n : more[k] = blocks[k]
  BY <1>1, <1>2
<1>4. PICK S : S = {"text", "tool_use", "ignored"}
  OBVIOUS
<1>5. PICK s, t : s = Types(blocks) /\ t = Types(more)
  OBVIOUS
<1>6. s = [k \in 1 .. n |-> blocks[k].type] /\ t = [k \in 1 .. n + 1 |-> more[k].type]
  BY <1>1, <1>3, <1>5 DEF Types
<1>7. \A k \in 1 .. n : blocks[k].type \in S
  <2>1. \A k \in 1 .. n : blocks[k] \in OpenBlock
    <3> HIDE DEF OpenBlock
    <3> QED
      BY <1>1
  <2> QED
    BY <1>4, <2>1, OpenTypes
<1>8. s \in Seq(S) /\ Len(s) = n
  BY <1>6, <1>7
<1>9. b.type \in S
  BY <1>4, OpenTypes
<1>10. Extended(S, s, b.type, t)
  <2>1. t[n + 1] = b.type
    BY <1>3, <1>6
  <2>2. \A k \in 1 .. n : t[k] = s[k]
    BY <1>3, <1>6
  <2>3. t = [k \in 1 .. n + 1 |-> t[k]]
    BY <1>6
  <2> QED
    BY <1>8, <1>9, <2>1, <2>2, <2>3 DEF Extended
<1> QED
  BY <1>2, <1>5, <1>10, IsAppend

\* The last block as a delta leaves it.
Grew(x, e) ==
    CASE e.delta = "text_delta" /\ IsText(x) -> Text(Append(x.text, e.part))
      [] e.delta = "input_json_delta" /\ IsCall(x) -> ToolUse(x.id, x.name, Append(x.input, e.part))
      [] OTHER -> x

ShownOf(x, e) == IF e.delta = "text_delta" /\ IsText(x) THEN <<e.part>> ELSE <<>>

LEMMA GrewIs ==
    ASSUME NEW x \in OpenBlock, NEW e \in DeltaEvent
    PROVE  /\ Grew(x, e) \in OpenBlock /\ Grew(x, e).type = x.type
           /\ ItsText[Grew(x, e)] = ItsText[x] \o ShownOf(x, e)
<1>1. PICK y : y = Grew(x, e)
  OBVIOUS
<1>2. PICK part : part = e.part
  OBVIOUS
<1>3. part \in Fragment
  BY <1>2 DEF DeltaEvent
<1>4. CASE e.delta = "text_delta" /\ IsText(x)
  <2>1. x \in TextBlock /\ ItsText[x] = x.text
    BY <1>4, OpenKinds
  <2>2. x.text \in Seq(Fragment) /\ x.type = "text"
    BY <2>1 DEF TextBlock
  <2>3. PICK more : more = Append(x.text, part)
    OBVIOUS
  <2>4. more \in Seq(Fragment) /\ more = x.text \o <<part>>
    BY <1>3, <2>2, <2>3
  <2>5. y = Text(more)
    BY <1>1, <1>2, <1>4, <2>3 DEF Grew
  <2>6. y \in TextBlock /\ y.text = more /\ y.type = "text"
    BY <2>4, <2>5 DEF Text, TextBlock
  <2>7. ItsText[y] = more
    BY <2>6, SelectionsOf
  <2>8. ShownOf(x, e) = <<part>>
    BY <1>2, <1>4 DEF ShownOf
  <2>9. y \in OpenBlock
    BY <2>6 DEF OpenBlock
  <2> QED
    BY <1>1, <2>1, <2>2, <2>4, <2>6, <2>7, <2>8, <2>9
<1>5. CASE e.delta = "input_json_delta" /\ IsCall(x)
  <2>1. x \in CallBlock /\ ~IsText(x) /\ ItsText[x] = <<>>
    BY <1>5, OpenKinds
  <2>2. x.input \in Seq(Fragment) /\ x.type = "tool_use" /\ x.id \in STRING /\ x.name \in Names
    BY <2>1 DEF CallBlock
  <2>3. PICK more : more = Append(x.input, part)
    OBVIOUS
  <2>4. more \in Seq(Fragment)
    BY <1>3, <2>2, <2>3
  <2>5. y = ToolUse(x.id, x.name, more)
    BY <1>1, <1>2, <1>5, <2>1, <2>3 DEF Grew
  <2>6. y \in CallBlock /\ y.type = "tool_use"
    BY <2>2, <2>4, <2>5 DEF ToolUse, CallBlock
  <2>7. ItsText[y] = <<>>
    BY <2>6, SelectionsOf
  <2>8. ShownOf(x, e) = <<>>
    BY <2>1 DEF ShownOf
  <2>9. y \in OpenBlock
    BY <2>6 DEF OpenBlock
  <2> QED
    BY <1>1, <2>1, <2>2, <2>6, <2>7, <2>8, <2>9
<1>6. CASE ~(e.delta = "text_delta" /\ IsText(x)) /\ ~(e.delta = "input_json_delta" /\ IsCall(x))
  <2>1. y = x
    BY <1>1, <1>6 DEF Grew
  <2>2. ShownOf(x, e) = <<>>
    BY <1>6 DEF ShownOf
  <2>3. ItsText[x] \in Seq(Fragment)
    BY OpenKinds
  <2>4. ItsText[x] \o <<>> = ItsText[x]
    BY <2>3
  <2> QED
    BY <1>1, <2>1, <2>2, <2>4
<1> QED
  BY <1>4, <1>5, <1>6

LEMMA GrownLast ==
    ASSUME NEW s \in Seq(OpenBlock), NEW x \in OpenBlock, NEW e \in DeltaEvent, e.index = Len(s) + 1
    PROVE  Grown(Append(s, x), e) = Append(s, Grew(x, e))
<1>1. PICK k \in Nat : k = Len(s) + 1
  OBVIOUS
<1>2. PICK y, part : y = Grew(x, e) /\ part = e.part
  OBVIOUS
<1>3. y \in OpenBlock
  BY <1>2, GrewIs
<1>4. PICK t : t = Append(s, x)
  OBVIOUS
<1>5. k \in DOMAIN t /\ t[k] = x
  BY <1>1, <1>4, LastOf
<1>6. [t EXCEPT ![k] = y] = Append(s, y)
  BY <1>1, <1>3, <1>4, LastReplaced
<1>7. e.index = k
  BY <1>1
<1>8. CASE e.delta = "text_delta" /\ IsText(x)
  <2>1. x \in TextBlock
    BY <1>8, OpenKinds
  <2>2. PICK more : more = Append(x.text, part)
    OBVIOUS
  <2>3. y = Text(more)
    BY <1>2, <1>8, <2>2 DEF Grew
  <2>4. y = [x EXCEPT !.text = more]
    <3>1. x = [type |-> "text", text |-> x.text]
      BY <2>1 DEF TextBlock
    <3> QED
      BY <2>3, <3>1 DEF Text
  <2>5. Grown(t, e) = [t EXCEPT ![k].text = Append(@, part)]
    BY <1>2, <1>5, <1>7, <1>8 DEF Grown
  <2>6. [t EXCEPT ![k].text = Append(@, part)] = [t EXCEPT ![k] = [x EXCEPT !.text = more]]
    BY <1>5, <2>2
  <2> QED
    BY <1>2, <1>4, <1>6, <2>4, <2>5, <2>6
<1>9. CASE e.delta = "input_json_delta" /\ IsCall(x)
  <2>1. x \in CallBlock /\ ~IsText(x)
    BY <1>9, OpenKinds
  <2>2. PICK more : more = Append(x.input, part)
    OBVIOUS
  <2>3. y = ToolUse(x.id, x.name, more)
    BY <1>2, <1>9, <2>1, <2>2 DEF Grew
  <2>4. y = [x EXCEPT !.input = more]
    <3>1. x = [type |-> "tool_use", id |-> x.id, name |-> x.name, input |-> x.input]
      BY <2>1 DEF CallBlock
    <3> QED
      BY <2>3, <3>1 DEF ToolUse
  <2>5. Grown(t, e) = [t EXCEPT ![k].input = Append(@, part)]
    BY <1>2, <1>5, <1>7, <1>9, <2>1 DEF Grown
  <2>6. [t EXCEPT ![k].input = Append(@, part)] = [t EXCEPT ![k] = [x EXCEPT !.input = more]]
    BY <1>5, <2>2
  <2> QED
    BY <1>2, <1>4, <1>6, <2>4, <2>5, <2>6
<1>10. CASE ~(e.delta = "text_delta" /\ IsText(x)) /\ ~(e.delta = "input_json_delta" /\ IsCall(x))
  <2>1. y = x
    BY <1>2, <1>10 DEF Grew
  <2>2. Grown(t, e) = t
    BY <1>5, <1>7, <1>10 DEF Grown
  <2> QED
    BY <1>2, <1>4, <2>1, <2>2
<1> QED
  BY <1>8, <1>9, <1>10

ShapeAfter(shape, e) ==
    IF e.type = "content_block_start" THEN Append(shape, Opened(e.block).type) ELSE shape

Shows(a, e) ==
    /\ TextOf(Handle(a, e).blocks) = TextOf(a.blocks) \o Forwarded(e)
    /\ Shape(Handle(a, e)) = ShapeAfter(Shape(a), e)

LEMMA TextOfOpen == ASSUME NEW blocks \in Seq(OpenBlock) PROVE TextOf(blocks) \in Seq(Fragment)
<1>1. blocks \in Seq(AnyBlock)
  <2>1. OpenBlock \subseteq AnyBlock
    BY BlockKinds
  <2> QED
    BY <2>1, SeqWider
<1>2. ItsText \in Conversion(AnyBlock, Fragment)
  BY SelectionsConvert
<1>3. FlatMap(ItsText, blocks) \in Seq(Fragment)
  BY <1>1, <1>2, FlatMapIs
<1> QED
  BY <1>1, <1>3, SelectionsAre

LEMMA StartShows ==
    ASSUME NEW a \in Accumulator, NEW e, e.type = "content_block_start",
           e.block \in TextBlock \union CallBlock \union ThinkingBlock, Fits(a, e)
    PROVE  Shows(a, e)
<1>1. PICK blocks, b, x : blocks = a.blocks /\ b = e.block /\ x = Opened(e.block)
  OBVIOUS
<1>2. blocks \in Seq(OpenBlock) /\ x \in OpenBlock
  BY <1>1, OpenedIs DEF Accumulator
<1>3. Handle(a, e) = [a EXCEPT !.blocks = Append(blocks, x)]
  BY <1>1 DEF Handle
<1>4. Handle(a, e).blocks = Append(blocks, x)
  BY <1>3 DEF Accumulator
<1>5. ItsText[x] = <<>>
  <2>1. CASE b \in TextBlock
    <3>1. IsText(b) /\ b.type = "text"
      BY <2>1, KindsDiffer
    <3>2. b.text = <<>>
      BY <1>1, <3>1 DEF Fits
    <3>3. x = Text(<<>>)
      BY <1>1, <3>1, <3>2 DEF Opened
    <3>4. x \in TextBlock /\ x.text = <<>>
      BY <3>3 DEF Text, TextBlock
    <3> QED
      BY <3>4, SelectionsOf
  <2>2. CASE b \in CallBlock
    <3>1. b.type = "tool_use"
      BY <2>2, KindsDiffer
    <3>2. x = ToolUse(b.id, b.name, <<>>)
      BY <1>1, <3>1 DEF Opened
    <3>3. ~IsText(x)
      BY <3>2 DEF ToolUse, IsText
    <3> QED
      BY <1>2, <3>3, OpenKinds
  <2>3. CASE b \in ThinkingBlock
    <3>1. b.type = "thinking"
      BY <2>3, KindsDiffer
    <3>2. x = [type |-> "ignored"]
      BY <1>1, <3>1 DEF Opened
    <3>3. ~IsText(x)
      BY <3>2 DEF IsText
    <3> QED
      BY <1>2, <3>3, OpenKinds
  <2> QED
    BY <1>1, <2>1, <2>2, <2>3
<1>6. Forwarded(e) = <<>>
  BY DEF Forwarded
<1>7. TextOf(Append(blocks, x)) = TextOf(blocks) \o ItsText[x]
  BY <1>2, TextMore
<1>8. Types(Append(blocks, x)) = Append(Types(blocks), x.type)
  BY <1>2, TypesMore
<1>9. Shape(Handle(a, e)) = ShapeAfter(Shape(a), e)
  BY <1>1, <1>4, <1>8, ShapeIs DEF ShapeAfter
<1> QED
  BY <1>1, <1>4, <1>5, <1>6, <1>7, <1>9 DEF Shows

LEMMA DeltaShows ==
    ASSUME NEW a \in Accumulator, NEW e \in DeltaEvent, Fits(a, e)
    PROVE  Shows(a, e)
<1>1. PICK blocks : blocks = a.blocks
  OBVIOUS
<1>2. e.type = "content_block_delta" /\ e.part \in Fragment
  BY DEF DeltaEvent
<1>3. blocks \in Seq(OpenBlock) /\ blocks # <<>> /\ e.index = Len(blocks)
  BY <1>1, <1>2 DEF Accumulator, Fits
<1>4. PICK s \in Seq(OpenBlock), x \in OpenBlock : blocks = Append(s, x) /\ Len(blocks) = Len(s) + 1
  BY <1>3, FrontAndLast
<1>5. PICK y : y = Grew(x, e)
  OBVIOUS
<1>6. Grown(blocks, e) = Append(s, y)
  BY <1>3, <1>4, <1>5, GrownLast
<1>7. Handle(a, e).blocks = Append(s, y)
  <2>1. Handle(a, e) = [a EXCEPT !.blocks = Grown(blocks, e)]
    BY <1>1, <1>2 DEF Handle
  <2> QED
    BY <1>6, <2>1 DEF Accumulator
<1>8. y \in OpenBlock /\ y.type = x.type /\ ItsText[y] = ItsText[x] \o ShownOf(x, e)
  BY <1>5, GrewIs
<1>9. ShownOf(x, e) = Forwarded(e)
  <2>1. e.delta = "text_delta" => IsText(blocks[e.index])
    BY <1>1, <1>2 DEF Fits
  <2>2. blocks[e.index] = x
    BY <1>3, <1>4, LastOf
  <2> QED
    BY <1>2, <2>1, <2>2 DEF ShownOf, Forwarded
<1>10. TextOf(Append(s, y)) = TextOf(blocks) \o Forwarded(e)
  <2>1. PICK p, q, f : p = TextOf(s) /\ q = ItsText[x] /\ f = Forwarded(e)
    OBVIOUS
  <2>2. p \in Seq(Fragment) /\ q \in Seq(Fragment)
    BY <2>1, TextOfOpen, OpenKinds
  <2>3. f \in Seq(Fragment)
    BY <1>2, <2>1 DEF Forwarded
  <2>4. TextOf(blocks) = p \o q
    BY <1>4, <2>1, TextMore
  <2>5. TextOf(Append(s, y)) = p \o ItsText[y]
    BY <1>8, <2>1, TextMore
  <2>6. ItsText[y] = q \o f
    BY <1>8, <1>9, <2>1
  <2>7. p \o (q \o f) = (p \o q) \o f
    BY <2>2, <2>3
  <2> QED
    BY <2>1, <2>4, <2>5, <2>6, <2>7
<1>11. Types(Append(s, y)) = Types(blocks)
  <2>1. Types(Append(s, y)) = Append(Types(s), y.type)
    BY <1>8, TypesMore
  <2>2. Types(Append(s, x)) = Append(Types(s), x.type)
    BY TypesMore
  <2> QED
    BY <1>4, <1>8, <2>1, <2>2
<1>12. Shape(Handle(a, e)) = ShapeAfter(Shape(a), e)
  BY <1>1, <1>2, <1>7, <1>11, ShapeIs DEF ShapeAfter
<1> QED
  BY <1>1, <1>7, <1>10, <1>12 DEF Shows

LEMMA RestShows ==
    ASSUME NEW a \in Accumulator, NEW e, e.type \in {"message_delta", "message_stop", "error"}
    PROVE  Shows(a, e)
<1>1. Handle(a, e).blocks = a.blocks
  <2>1. Handle(a, e) = a \/ \E stop : Handle(a, e) = [a EXCEPT !.stop_reason = stop]
    BY DEF Handle
  <2> QED
    BY <2>1 DEF Accumulator
<1>2. Forwarded(e) = <<>>
  BY DEF Forwarded
<1>3. TextOf(a.blocks) \o <<>> = TextOf(a.blocks)
  <2>1. TextOf(a.blocks) \in Seq(Fragment)
    BY TextOfOpen DEF Accumulator
  <2> QED
    BY <2>1
<1>4. Shape(Handle(a, e)) = ShapeAfter(Shape(a), e)
  BY <1>1, ShapeIs DEF ShapeAfter
<1> QED
  BY <1>1, <1>2, <1>3, <1>4 DEF Shows

LEMMA EventKinds ==
    ASSUME NEW e \in StreamedEvent
    PROVE  \/ e.type = "content_block_start" /\ e.block \in TextBlock \union CallBlock \union ThinkingBlock
           \/ e \in DeltaEvent
           \/ e.type \in {"message_delta", "message_stop", "error"}
BY DEF StreamedEvent

LEMMA HandleShows ==
    ASSUME NEW a \in Accumulator, NEW e \in StreamedEvent, Fits(a, e)
    PROVE  Shows(a, e)
BY EventKinds, StartShows, DeltaShows, RestShows

\* An event fits as well whatever the blocks hold.
LEMMA FitsAlike ==
    ASSUME NEW a \in Accumulator, NEW c \in Accumulator, Shape(a) = Shape(c), NEW e, Fits(a, e)
    PROVE  Fits(c, e)
<1>1. PICK s, t : s = a.blocks /\ t = c.blocks
  OBVIOUS
<1>2. s \in Seq(OpenBlock) /\ t \in Seq(OpenBlock)
  BY <1>1 DEF Accumulator
<1>3. Types(s) = Types(t)
  BY <1>1, ShapeIs
<1>4. DOMAIN s = DOMAIN t /\ \A k \in DOMAIN s : s[k].type = t[k].type
  <2>1. DOMAIN Types(s) = DOMAIN s /\ DOMAIN Types(t) = DOMAIN t
    BY DEF Types
  <2>2. \A k \in DOMAIN s : Types(s)[k] = s[k].type
    BY DEF Types
  <2>3. \A k \in DOMAIN t : Types(t)[k] = t[k].type
    BY DEF Types
  <2> QED
    BY <1>3, <2>1, <2>2, <2>3
<1>5. PICK n \in Nat, m \in Nat : n = Len(s) /\ DOMAIN s = 1 .. n /\ m = Len(t) /\ DOMAIN t = 1 .. m
  BY <1>2
<1>6. n = m
  <2>1. 1 .. n = 1 .. m
    BY <1>4, <1>5
  <2>2. n = 0 \/ n \in 1 .. m
    BY <2>1
  <2>3. m = 0 \/ m \in 1 .. n
    BY <2>1
  <2> QED
    BY <2>2, <2>3
<1>7. SUFFICES ASSUME e.type = "content_block_delta"
               PROVE  /\ t # <<>> /\ e.index = Len(t)
                      /\ e.delta = "text_delta" => IsText(t[e.index])
  BY <1>1 DEF Fits
<1>8. s # <<>> /\ e.index = Len(s) /\ (e.delta = "text_delta" => IsText(s[e.index]))
  BY <1>1, <1>7 DEF Fits
<1>9. n \in DOMAIN s
  BY <1>2, <1>5, <1>8
<1>10. t # <<>>
  BY <1>2, <1>5, <1>6, <1>9
<1>11. IsText(s[n]) => IsText(t[n])
  BY <1>4, <1>9 DEF IsText
<1> QED
  BY <1>5, <1>6, <1>8, <1>10, <1>11

-----------------------------------------------------------------------------
(* What was shown, step by step.                                           *)

\* What has been shown is the text received so far, and the blocks are of the
\* kinds of the reply's: every delta to come finds its block.
StreamShown ==
    phase = "streaming" =>
        /\ deltas = TextOf(acc.blocks)
        /\ sent < Len(Events) => Shape(acc) = Shape(Replayed(reply)[sent])

ShownInv ==
    /\ phase \in {"sending", "backoff"} => deltas = <<>>
    /\ StreamShown
    /\ phase = "done" /\ result.ok => deltas = TextOf(result.content)

Showing == Asking /\ ShownInv

LEMMA FailsShown ==
    ASSUME phase' = "done", ~result'.ok PROVE ShownInv'
BY DEF ShownInv, StreamShown

LEMMA RefusedShown == ASSUME Showing, NEW a \in Answer, Refused(a) PROVE ShownInv'
<1>1. phase = "sending" /\ deltas' = deltas
  BY DEF Refused
<1>2. deltas = <<>>
  BY <1>1 DEF Showing, ShownInv
<1>3. CASE phase' = "backoff"
  BY <1>1, <1>2, <1>3 DEF ShownInv, StreamShown
<1>4. CASE \E error : phase' = "done" /\ result' = Failed(error)
  BY <1>4, FailedHasNone, FailsShown
<1> QED
  BY <1>3, <1>4 DEF Refused, Return

LEMMA WakeShown == ASSUME Showing, Wake PROVE ShownInv'
<1>1. phase = "backoff" /\ phase' = "sending" /\ deltas' = deltas
  BY DEF Wake
<1>2. deltas = <<>>
  BY <1>1 DEF Showing, ShownInv
<1> QED
  BY <1>1, <1>2 DEF ShownInv, StreamShown

LEMMA AcceptedShown == ASSUME Showing, NEW r \in Replies, Accepted(r) PROVE ShownInv'
<1>1. PICK d, intact : Buffered(d, intact)
  BY DEF Accepted
<1>2. phase' = "done" /\ result' = d /\ deltas' = IF d.ok THEN TextOf(d.content) ELSE <<>>
  BY <1>1 DEF Buffered, Return
<1>3. result'.ok => deltas' = TextOf(result'.content)
  BY <1>2
<1> QED
  BY <1>2, <1>3 DEF ShownInv, StreamShown

LEMMA StartsShown == ASSUME Showing, NEW r \in Replies, StreamStarts(r) PROVE ShownInv'
<1>1. /\ phase = "sending" /\ phase' = "streaming" /\ reply' = r
      /\ UNCHANGED <<sent, acc, deltas>>
  BY DEF StreamStarts, Succeeds
<1>2. sent = 0 /\ acc = NothingYet /\ deltas = <<>>
  BY <1>1 DEF Showing, ShownInv, Asking, CallInv, CallIsMade
<1>3. PICK n \in Nat : n = Len(AnthropicEvents(r))
  <2>1. AnthropicEvents(r) \in Seq(StreamedEvent)
    BY StreamIs
  <2> QED
    BY <2>1
<1>4. Replayed(r)[0] = NothingYet
  BY <1>3, ReplayAt
<1>5. TextOf(acc.blocks) = <<>>
  <2>1. acc.blocks = <<>>
    BY <1>2 DEF NothingYet
  <2>2. TextOf(<<>>) = <<>>
    <3>1. <<>> \in Seq(AnyBlock)
      OBVIOUS
    <3> QED
      BY <3>1, SelectionsAre, FlatMapNone
  <2> QED
    BY <2>1, <2>2
<1>6. deltas' = TextOf(acc'.blocks)
  BY <1>1, <1>2, <1>5
<1>7. Shape(acc') = Shape(Replayed(reply')[sent'])
  BY <1>1, <1>2, <1>4
<1>8. StreamShown'
  BY <1>1, <1>6, <1>7 DEF StreamShown, Shape
<1> QED
  BY <1>1, <1>8 DEF ShownInv

\* The next event fits what has been put together, whole or not.
LEMMA NextFits ==
    ASSUME CallTypes, ShownInv, phase = "streaming", sent < Len(Events),
           NEW next, next = sent + 1
    PROVE  /\ Events[next] \in StreamedEvent /\ Fits(acc, Events[next])
           /\ Shape(Replayed(reply)[next]) = ShapeAfter(Shape(acc), Events[next])
           /\ next \in 0 .. Len(Events)
<1>1. next \in 0 .. Len(Events) /\ next \in 1 .. Len(Events) /\ next - 1 = sent /\ sent \in Nat
  BY NextEvent
<1>2. PICK r, F : r = reply /\ F = Replayed(reply)
  OBVIOUS
<1>3. r \in Replies /\ Events = AnthropicEvents(r) /\ Len(Events) \in Nat
  BY <1>2, EventsHere
<1>4. PICK e : e = Events[next]
  OBVIOUS
<1>5. F[next] = Handle(F[sent], e) /\ Fits(F[sent], e)
  BY <1>1, <1>2, <1>3, <1>4, ReplayAt
<1>6. sent \in 0 .. Len(Events)
  BY <1>1, <1>3
<1>7. F[sent] \in Accumulator
  BY <1>2, <1>3, <1>6, ReplayAt
<1>8. e \in StreamedEvent
  <2>1. Events \in Seq(StreamedEvent)
    BY <1>3, StreamIs
  <2> QED
    BY <1>1, <1>4, <2>1
<1>9. Shape(acc) = Shape(F[sent])
  BY <1>2 DEF ShownInv, StreamShown
<1>10. acc \in Accumulator
  BY DEF CallTypes
<1>11. Fits(acc, e)
  BY <1>5, <1>7, <1>9, <1>10, FitsAlike
<1>12. Shape(F[next]) = ShapeAfter(Shape(F[sent]), e)
  BY <1>5, <1>7, <1>8, HandleShows DEF Shows
<1> QED
  BY <1>1, <1>2, <1>4, <1>8, <1>9, <1>11, <1>12

\* A stream goes on, with the event it sent or what became of it.
LEMMA EventShown ==
    ASSUME CallTypes, ShownInv, phase = "streaming", sent < Len(Events), phase' = phase,
           NEW e \in StreamedEvent, NEW next, next = sent + 1,
           Fits(acc, e), ShapeAfter(Shape(acc), e) = ShapeAfter(Shape(acc), Events[next]),
           Handled(e), sent' = next, reply' = reply
    PROVE  ShownInv'
<1>1. acc \in Accumulator /\ deltas = TextOf(acc.blocks)
  BY DEF CallTypes, ShownInv, StreamShown
<1>2. Shows(acc, e)
  BY <1>1, HandleShows
<1>3. acc' = Handle(acc, e) /\ deltas' = deltas \o Forwarded(e)
  BY DEF Handled
<1>4. PICK made : made = Handle(acc, e)
  OBVIOUS
<1>5. deltas' = TextOf(made.blocks)
  BY <1>1, <1>2, <1>3, <1>4 DEF Shows
<1>6. Shape(made) = Shape(Replayed(reply)[next])
  BY <1>2, <1>4, NextFits DEF Shows
<1>7. Events' = Events
  BY DEF Events
<1>8. Shape(acc)' = Shape(made)
  BY <1>3, <1>4 DEF Shape
<1>9. StreamShown'
  <2>1. deltas' = TextOf(acc'.blocks)
    BY <1>3, <1>4, <1>5
  <2>2. (Shape(Replayed(reply)[sent]))' = Shape(Replayed(reply)[next])
    BY DEF Shape
  <2>3. (Shape(acc) = Shape(Replayed(reply)[sent]))'
    BY <1>6, <1>8, <2>2
  <2> QED
    BY <2>1, <2>3 DEF StreamShown
<1> QED
  BY <1>9 DEF ShownInv

LEMMA NextShown == ASSUME Showing, StreamEvent PROVE ShownInv'
<1>1. PICK next : next = sent + 1
  OBVIOUS
<1>2. /\ phase = "streaming" /\ sent < Len(Events) /\ Handled(Events[next])
      /\ sent' = next /\ UNCHANGED <<phase, reply>>
  BY <1>1 DEF StreamEvent
<1>3. CallTypes /\ ShownInv
  BY DEF Showing, Asking
<1>4. Events[next] \in StreamedEvent /\ Fits(acc, Events[next])
  BY <1>1, <1>2, <1>3, NextFits
<1>5. PICK e : e = Events[next]
  OBVIOUS
<1>6. e \in StreamedEvent /\ Fits(acc, e) /\ Handled(e)
  BY <1>2, <1>4, <1>5
<1>7. ShapeAfter(Shape(acc), e) = ShapeAfter(Shape(acc), Events[next])
  BY <1>5
<1> QED
  BY <1>1, <1>2, <1>3, <1>6, <1>7, EventShown

LEMMA GarbledShown == ASSUME Showing, GarbledEvent PROVE ShownInv'
<1>1. PICK next : next = sent + 1
  OBVIOUS
<1>2. PICK e, g : e = Events[next] /\ g = [e EXCEPT !.part = "garbled"]
  OBVIOUS
<1>3. /\ phase = "streaming" /\ sent < Len(Events) /\ Handled(g) /\ Forwarded(e) # <<>>
      /\ sent' = next /\ UNCHANGED <<phase, reply>>
  BY <1>1, <1>2 DEF GarbledEvent
<1>4. CallTypes /\ ShownInv
  BY DEF Showing, Asking
<1>5. e \in StreamedEvent /\ Fits(acc, e)
  BY <1>1, <1>2, <1>3, <1>4, NextFits
<1>6. g \in StreamedEvent
  BY <1>2, <1>3, <1>5, GarbledIs
<1>7. e.type = "content_block_delta" /\ e \in DeltaEvent
  <2>1. e.type = "content_block_delta"
    BY <1>3 DEF Forwarded
  <2> QED
    BY <1>5, <2>1, EventKinds
<1>8. g.type = "content_block_delta" /\ g.index = e.index /\ g.delta = e.delta
  BY <1>2, <1>7 DEF DeltaEvent
<1>9. Fits(acc, g)
  BY <1>5, <1>7, <1>8 DEF Fits
<1>10. ShapeAfter(Shape(acc), g) = ShapeAfter(Shape(acc), Events[next])
  BY <1>2, <1>7, <1>8 DEF ShapeAfter
<1> QED
  BY <1>1, <1>3, <1>4, <1>6, <1>9, <1>10, EventShown

LEMMA ErrorShown == ASSUME Showing, ErrorEvent PROVE ShownInv'
<1>1. PICK e : e = [type |-> "error"]
  OBVIOUS
<1>2. phase = "streaming" /\ Handled(e) /\ sent' = Len(Events) /\ UNCHANGED <<phase, reply>>
  BY <1>1 DEF ErrorEvent
<1>3. acc \in Accumulator /\ deltas = TextOf(acc.blocks) /\ Len(Events) \in Nat
  BY <1>2, EventsHere DEF Showing, Asking, CallTypes, ShownInv, StreamShown
<1>4. e.type \in {"message_delta", "message_stop", "error"}
  BY <1>1
<1>5. Shows(acc, e)
  BY <1>3, <1>4, RestShows
<1>6. deltas' = TextOf(acc'.blocks)
  <2>1. PICK made : made = Handle(acc, e)
    OBVIOUS
  <2>2. acc' = made /\ deltas' = deltas \o Forwarded(e)
    BY <1>2, <2>1 DEF Handled
  <2> QED
    BY <1>3, <1>5, <2>1, <2>2 DEF Shows
<1>7. ~(sent' < Len(Events'))
  <2>1. Events' = Events
    BY <1>2 DEF Events
  <2> QED
    BY <1>2, <1>3, <2>1
<1>8. StreamShown'
  BY <1>6, <1>7 DEF StreamShown
<1> QED
  BY <1>2, <1>8 DEF ShownInv

LEMMA EndsShown == ASSUME Showing, StreamEnds PROVE ShownInv'
<1>1. phase = "streaming" /\ phase' = "done" /\ result' = Finish(acc) /\ deltas' = deltas
  BY DEF StreamEnds, Return
<1>2. acc \in Accumulator /\ deltas = TextOf(acc.blocks)
  BY <1>1 DEF Showing, Asking, CallTypes, ShownInv, StreamShown
<1>3. PICK d : d = Finish(acc)
  OBVIOUS
<1>4. d.ok => TextOf(d.content) = TextOf(acc.blocks)
  BY <1>2, <1>3, FinishSays
<1>5. result'.ok => deltas' = TextOf(result'.content)
  BY <1>1, <1>2, <1>3, <1>4
<1> QED
  BY <1>1, <1>5 DEF ShownInv, StreamShown

LEMMA CallShown == ASSUME Showing, CallStep PROVE ShownInv'
<1>1. CASE TokenFails
  BY <1>1, FailedHasNone, FailsShown DEF TokenFails, Return
<1>2. CASE \E a \in Answer : Refused(a)
  BY <1>2, RefusedShown
<1>3. CASE Wake
  BY <1>3, WakeShown
<1>4. CASE \E r \in Replies : Accepted(r)
  BY <1>4, AcceptedShown
<1>5. CASE \E r \in Replies : StreamStarts(r)
  BY <1>5, StartsShown
<1>6. CASE StreamEvent
  BY <1>6, NextShown
<1>7. CASE GarbledEvent
  BY <1>7, GarbledShown
<1>8. CASE ErrorEvent
  BY <1>8, ErrorShown
<1>9. CASE StreamBreaks
  BY <1>9, FailedHasNone, FailsShown DEF StreamBreaks, Return
<1>10. CASE StreamEnds
  BY <1>10, EndsShown
<1> QED
  BY <1>1, <1>2, <1>3, <1>4, <1>5, <1>6, <1>7, <1>8, <1>9, <1>10 DEF CallStep

LEMMA QuietShown == ASSUME ShownInv, UNCHANGED callVars PROVE ShownInv'
<1>1. UNCHANGED <<phase, reply, sent, acc, deltas, result>>
  BY DEF callVars
<1>2. Events' = Events
  BY <1>1 DEF Events
<1>3. StreamShown'
  BY <1>1, <1>2 DEF ShownInv, StreamShown
<1> QED
  BY <1>1, <1>3 DEF ShownInv

LEMMA IdleShown == ASSUME phase' = "idle" PROVE ShownInv'
BY DEF ShownInv, StreamShown

LEMMA ShownStep == ASSUME TalkInv, ShownInv, [Next]_vars PROVE ShownInv'
<1>1. CASE Ask
  BY <1>1 DEF Ask, Call, ShownInv, StreamShown
<1>2. CASE Provide
  <2>1. Asking /\ CallStep
    BY <1>2 DEF Provide, Asking, TalkInv, TurnInv
  <2> QED
    BY <2>1, CallShown DEF Showing
<1>3. CASE ProviderError \/ FinalAnswer \/ RequestTools
  BY <1>3, IdleShown DEF ProviderError, FinalAnswer, RequestTools, Take
<1>4. CASE Prompt \/ TurnLimit \/ RunTools \/ ToolsAnswer
  BY <1>4, QuietShown DEF Prompt, TurnLimit, RunTools, ToolsAnswer
<1>5. CASE UNCHANGED vars
  BY <1>5, QuietShown DEF vars
<1> QED
  BY <1>1, <1>2, <1>3, <1>4, <1>5 DEF Next, Work

LEMMA ShownIsDelivered == ASSUME TalkInv, ShownInv PROVE WholeReplyIsDelivered
<1>1. phase = "done" /\ result.ok => deltas = TextOf(result.content)
  BY DEF ShownInv
<1>2. ASSUME phase = "done", whole PROVE ComesOut(reply, result)
  <2>1. reply \in Replies /\ result = Delivered(reply)
    BY <1>2 DEF TalkInv, CallInv, CallReturns
  <2>2. adapter \in FourAdapters
    BY AdapterIs DEF TalkInv, TurnInv
  <2>3. PICK r, d : r = reply /\ d = result
    OBVIOUS
  <2>4. ComesOut(r, d)
    BY <2>1, <2>2, <2>3, ReplyComesOut
  <2> QED
    BY <2>3, <2>4
<1> QED
  BY <1>1, <1>2 DEF WholeReplyIsDelivered, ComesOut, BadIn

\* Whatever the adapter, a reply that arrives whole is delivered as it was given,
\* and what the user was shown is what the transcript keeps
\* (llm/src/anthropic.rs:315-387, llm/src/codex.rs:253-391).
THEOREM WholeRepliesAreDelivered == Spec => []WholeReplyIsDelivered
<1>1. Init => ShownInv
  BY DEF Init, CallInit, ShownInv, StreamShown
<1>2. TalkInv /\ ShownInv /\ [Next]_vars => ShownInv'
  BY ShownStep
<1>3. TalkInv /\ ShownInv => WholeReplyIsDelivered
  BY ShownIsDelivered
<1> QED
  BY <1>1, <1>2, <1>3, TalkInvariant, PTL DEF Spec

=============================================================================
