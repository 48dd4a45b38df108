-------------------------------- MODULE Texts --------------------------------
(* The functions of common/CommonTools.cpp that cut and filter texts.       *)
(* A text is a sequence of bytes, and a byte is what the functions tell     *)
(* apart: 1 is an ASCII character, 0 a byte 10xxxxxx that continues one,     *)
(* 2 .. 6 a byte that begins a character of so many bytes, 7 is 0xFE, 0xFF. *)
(* A behaviour makes a text, byte by byte, and calls a function whose loop  *)
(* walks over it; what has no such loop is an operator.                      *)
EXTENDS Integers, Sequences, FiniteSetsExt

CONSTANTS TextBytes, MaxText    \* classes of bytes, and length

ASSUME TextsAssumption == TextBytes \subseteq 0 .. 7 /\ MaxText \in Nat

VARIABLES
  text,
  reading,    \* the function at work: "none", "filter" or "length"
  place,      \* the position of p in the text
  filtered,   \* what FilterNoneUtf8Chars has copied
  len         \* the argument of GetSubStrLen

textVars == <<text, reading, place, filtered, len>>

Prefix(s, n) == SubSeq(s, 1, n)

-----------------------------------------------------------------------------
(* UTF-8 as the functions know it: sequences of up to six bytes, whatever  *)
(* code point they encode.  Char(s, p): a whole character begins at p.      *)
Char(s, p) ==
  /\ s[p] \in 1 .. 6
  /\ p + s[p] - 1 <= Len(s)
  /\ \A i \in p + 1 .. p + s[p] - 1 : s[i] = 0

CharAt(s, p) == p .. p + s[p] - 1

(* The characters cover the text, and none overlaps another.                *)
WellFormed(s) ==
  \E starts \in SUBSET DOMAIN s :
    /\ \A p \in starts : Char(s, p)
    /\ \A i \in DOMAIN s : \E p \in starts : i \in CharAt(s, p)
    /\ \A p, q \in starts : CharAt(s, p) \cap CharAt(s, q) # {} => p = q

(* GB2312: every run of bytes above 0x7F is made of pairs.                 *)
IsChinese(b) == b # 1

Paired(s) ==
  \E firsts \in SUBSET (1 .. Len(s) - 1) :
    \A i \in DOMAIN s :
      IF IsChinese(s[i]) THEN (i \in firsts) # (i - 1 \in firsts)
      ELSE i \notin firsts /\ i - 1 \notin firsts

-----------------------------------------------------------------------------
TextInit ==
  /\ text = <<>> /\ reading = "none" /\ place = 1 /\ filtered = <<>> /\ len = 0

MoreText ==
  /\ reading = "none" /\ Len(text) < MaxText
  /\ \E b \in TextBytes : text' = Append(text, b)
  /\ UNCHANGED <<reading, place, filtered, len>>

(* Mutant: the last byte of a character is not tested.                      *)
KeepsUntested(s, p) ==
  /\ s[p] \in 1 .. 6
  /\ p + s[p] - 1 <= Len(s)
  /\ \A i \in p + 1 .. p + s[p] - 2 : s[i] = 0

(* The tests of both loops of FilterNoneUtf8Chars: the byte at p begins a  *)
(* character, pCharEnd is not past the end, and the rest continues it.     *)
Keeps(s, p) ==
  /\ s[p] \in 1 .. 6
  /\ p + s[p] - 1 <= Len(s)
  /\ \A i \in p + 1 .. p + s[p] - 1 : s[i] = 0

(* Its buffer is allocated: where malloc fails the code empties the text    *)
(* instead.  The terminator after the last byte is not part of a text.      *)
FilterNoneUtf8Chars ==
  /\ reading = "none" /\ reading' = "filter"
  /\ UNCHANGED <<text, place, filtered, len>>

(* A character is copied whole ...                                          *)
CopyChar ==
  /\ reading = "filter" /\ place <= Len(text) /\ Keeps(text, place)
  /\ filtered' = filtered \o SubSeq(text, place, place + text[place] - 1)
  /\ place' = place + text[place]
  /\ UNCHANGED <<text, reading, len>>

(* ... and a byte that begins none is skipped, and the next one looked at. *)
SkipByte ==
  /\ reading = "filter" /\ place <= Len(text) /\ ~Keeps(text, place)
  /\ place' = place + 1
  /\ UNCHANGED <<text, reading, filtered, len>>

FilterDone == reading = "filter" /\ place > Len(text)

(* GetSubStrLen of a text that is not shorter than len.                     *)
GetSubStrLen ==
  /\ reading = "none" /\ reading' = "length"
  /\ len' \in 0 .. Len(text)
  /\ UNCHANGED <<text, place, filtered>>

(* It takes 1111111x for a lead byte of six as well; the byte after the    *)
(* text is its terminator.                                                  *)
CharLength(s, p) ==
  IF p > Len(s) \/ s[p] = 0 THEN 1 ELSE IF s[p] = 7 THEN 6 ELSE s[p]

(* The loop counts n = place - 1 bytes.                                     *)
CountChar ==
  /\ reading = "length" /\ place - 1 + CharLength(text, place) <= len
  /\ place' = place + CharLength(text, place)
  /\ UNCHANGED <<text, reading, filtered, len>>

CountDone == reading = "length" /\ place - 1 + CharLength(text, place) > len

TextNext ==
  \/ MoreText \/ FilterNoneUtf8Chars \/ CopyChar \/ SkipByte \/ GetSubStrLen \/ CountChar

TextsSpec == TextInit /\ [][TextNext]_textVars

-----------------------------------------------------------------------------
(* HalfChinese_UTF8 of the first n > 0 bytes: when the last one continues  *)
(* a character the output ends before the nearest byte that does not       *)
(* continue one, the character's first, so a whole character goes as well; *)
(* a lead byte at the end stays.                                           *)
HalfChinese_UTF8(s, n) ==
  IF s[n] = 0 THEN Prefix(s, Max({i \in 1 .. n : s[i] # 0}) - 1) ELSE Prefix(s, n)

(* MoveEnglish: the length and once more the characters that are English.  *)
MoveEnglish(s, n) == n + Cardinality({i \in 1 .. n : ~IsChinese(s[i])})

(* HalfChinese_GBK of the first n > 0 bytes.                               *)
HalfChinese_GBK(s, n) ==
  IF IsChinese(s[n]) /\ MoveEnglish(s, n) % 2 # 0 THEN Prefix(s, n - 1) ELSE Prefix(s, n)

-----------------------------------------------------------------------------
(* The bytes of whole characters.                                           *)
Whole(s) == {i \in DOMAIN s : \E p \in DOMAIN s : Char(s, p) /\ i \in CharAt(s, p)}
WholeUpTo(s, i) == Cardinality(Whole(s) \cap 1 .. i)

(* The filter returns UTF-8 whatever it is given; it keeps the bytes of    *)
(* every whole character and no other, in their order; and it changes      *)
(* nothing in a text that is UTF-8 already, so it need not be called twice. *)
FilterYieldsUtf8 ==
  FilterDone =>
    /\ WellFormed(filtered)
    /\ Len(filtered) = WholeUpTo(text, Len(text))
    /\ \A i \in Whole(text) : filtered[WholeUpTo(text, i)] = text[i]
    /\ WellFormed(text) => filtered = text

(* Both ways to cut a text cut between characters: GetSubStrLen keeps as   *)
(* many as fit, and HalfChinese_UTF8 leaves a part of one only when the    *)
(* cut is right after its first byte.                                       *)
CutsBetweenCharacters ==
  WellFormed(text) =>
    /\ CountDone => place - 1 = Max({i \in 0 .. len : WellFormed(Prefix(text, i))})
    /\ \A n \in DOMAIN text :
         WellFormed(HalfChinese_UTF8(text, n)) \/ text[n] \in 2 .. 6

(* A text in GB2312 is cut between characters, and loses no whole one.     *)
CutsBetweenPairs ==
  Paired(text) =>
    \A n \in DOMAIN text :
      HalfChinese_GBK(text, n) =
        Prefix(text, IF Paired(Prefix(text, n)) THEN n ELSE n - 1)

(* Filtering and cutting a text leave whole characters.                    *)
TextsSound == FilterYieldsUtf8 /\ CutsBetweenCharacters /\ CutsBetweenPairs
=============================================================================
