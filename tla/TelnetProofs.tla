---------------------------- MODULE TelnetProofs ----------------------------
(***************************************************************************)
(* Proofs about client_telnet_receive, for a buffer of any size and for    *)
(* whatever bytes a terminal sends, split in any way: every turn of the    *)
(* lexer's loop consumes a byte, and none reads past the buffer; and that  *)
(* what terminals send arrives as it was meant, unless it is split, and    *)
(* that splitting it may lose a direction but makes none up.               *)
(***************************************************************************)
EXTENDS TelnetProps, WellFoundedInduction, TLAPS

(* Every set of natural numbers that is not empty has a least element. *)
LEMMA LeastNumber ==
  ASSUME NEW T, T \subseteq Nat, T # {}
  PROVE  \E n \in T : \A m \in T : n <= m
<1> DEFINE R == OpToRel(<, Nat)
<1>1. IsWellFoundedOn(R, Nat)
  BY NatLessThanWellFounded
<1>2. \A m, n \in Nat : m < n => <<m, n>> \in R
  BY DEF OpToRel
<1> HIDE DEF R
<1>3. PICK n \in T : \A m \in T : ~(<<m, n>> \in R)
  BY <1>1, WFMin
<1>4. n \in Nat
  BY <1>3
<1>5. \A m \in T : m \in Nat /\ ~(m < n)
  BY <1>2, <1>3, <1>4
<1> QED
  BY <1>3, <1>4, <1>5

-----------------------------------------------------------------------------
(* The lexer: what it returns when it is called with h bytes consumed of b *)

(* The loop of parse_number stops within the buffer, at the end of the digits. *)
LEMMA NumberStops ==
  ASSUME NEW b \in Seq(Byte), NEW h \in 0 .. Len(b)
  PROVE  LET e == NumberEnd(b, h)
         IN  /\ e \in h .. Len(b) /\ (e = Len(b) \/ ~IsDigit(b[e + 1]))
             /\ \A k \in h .. e - 1 : IsDigit(b[k + 1])
<1> DEFINE Stops == {e \in h .. Len(b) : e = Len(b) \/ ~IsDigit(b[e + 1])}
           Right(e) == /\ e = Len(b) \/ ~IsDigit(b[e + 1])
                       /\ \A k \in h .. e - 1 : IsDigit(b[k + 1])
<1>1. Len(b) \in Nat /\ Len(b) \in Stops /\ Stops \subseteq Nat
  OBVIOUS
<1> HIDE DEF Stops
<1>2. PICK e \in Stops : \A m \in Stops : e <= m
  BY <1>1, LeastNumber
<1> USE DEF Stops
<1>3. e \in h .. Len(b) /\ (e = Len(b) \/ ~IsDigit(b[e + 1]))
  BY <1>2
<1>4. ASSUME NEW k \in h .. e - 1
      PROVE  IsDigit(b[k + 1])
  <2>1. k \in h .. Len(b) /\ ~(e <= k)
    BY <1>1, <1>3
  <2>2. k \notin Stops
    BY <1>2, <2>1
  <2> QED
    BY <2>1, <2>2
<1>5. Right(e)
  BY <1>3, <1>4
<1>6. NumberEnd(b, h) = CHOOSE k \in h .. Len(b) : Right(k)
  BY DEF NumberEnd
<1> HIDE DEF Right
<1>7. NumberEnd(b, h) \in h .. Len(b) /\ Right(NumberEnd(b, h))
  BY <1>3, <1>5, <1>6
<1> QED
  BY <1>7 DEF Right

LEMMA NumberEnds ==
  ASSUME NEW b \in Seq(Byte), NEW h \in 0 .. Len(b)
  PROVE  NumberEnd(b, h) \in h .. Len(b)
  BY NumberStops

(* A result that has consumed something, nothing past the end, and that tells of
   at most one key stroke or one size. *)
Sound(r, h, b) ==
  /\ r.head \in h + 1 .. Len(b)
  /\ r.keys \in Seq(KeyStroke) /\ r.size \in Size
  /\ r.res \in {"ok", "err", "unfinished"}

(* The kinds of results there are. *)
LEMMA SoundResults ==
  ASSUME NEW b, NEW h \in Nat, NEW k \in h + 1 .. Len(b)
  PROVE  /\ \A key \in KeyStroke : Sound(Ok(k, key), h, b)
         /\ Sound(Err(k), h, b) /\ Sound(Unfinished(k), h, b)
<1>1. <<>> \in Size /\ <<>> \in Seq(KeyStroke) /\ \A key \in KeyStroke : <<key>> \in Seq(KeyStroke)
  BY DEF Size
<1>2. /\ Err(k) = [res |-> "err", head |-> k, keys |-> <<>>, size |-> <<>>]
      /\ Unfinished(k) = [res |-> "unfinished", head |-> k, keys |-> <<>>, size |-> <<>>]
      /\ \A key : Ok(k, key) = [res |-> "ok", head |-> k, keys |-> <<key>>, size |-> <<>>]
  BY DEF Ok, Err, Unfinished, Result
<1>3. Sound(Err(k), h, b)
  BY <1>1, <1>2 DEF Sound
<1>4. Sound(Unfinished(k), h, b)
  BY <1>1, <1>2 DEF Sound
<1>5. ASSUME NEW key \in KeyStroke
      PROVE  Sound(Ok(k, key), h, b)
  <2>1. Ok(k, key) = [res |-> "ok", head |-> k, keys |-> <<key>>, size |-> <<>>]
    BY <1>2
  <2>2. <<key>> \in Seq(KeyStroke)
    BY <1>1
  <2> QED
    BY <1>1, <2>1, <2>2 DEF Sound
<1> QED
  BY <1>3, <1>4, <1>5

(* Consuming more first does no harm. *)
LEMMA SoundFromLater ==
  ASSUME NEW b, Len(b) \in Nat, NEW h \in Nat, NEW k \in Nat, h <= k, NEW r, Sound(r, k, b)
  PROVE  Sound(r, h, b)
  BY DEF Sound

LEMMA ModifiersKeepStrokes ==
  \A k \in KeyStroke : [k EXCEPT !.ctrl = TRUE] \in KeyStroke /\ [k EXCEPT !.shift = TRUE] \in KeyStroke
  BY DEF KeyStroke

LEMMA KeysAreStrokes ==
  /\ \A k \in 0 .. 301 : Plain(k) \in KeyStroke
  /\ \A m : \A k \in 0 .. 301 : Modified(k, m) \in KeyStroke
  BY DEF Plain, Modified, KeyStroke

(* The tables hold codes of key.h. *)
LEMMA TablesHoldKeys ==
  /\ \A c : Known(csiKeys, c) => KeyOf(csiKeys, c) \in 0 .. 301
  /\ \A c : Known(ss3Keys, c) => KeyOf(ss3Keys, c) \in 0 .. 301
  /\ \A c : Known(tildeKeys, c) => KeyOf(tildeKeys, c) \in 0 .. 301
<1>1. ASSUME NEW table, \A e \in table : e[2] \in 0 .. 301, NEW c, Known(table, c)
      PROVE  KeyOf(table, c) \in 0 .. 301
  <2>1. PICK e \in table : e[1] = c
    BY <1>1 DEF Known
  <2>2. (CHOOSE d \in table : d[1] = c) \in table
    BY <2>1
  <2> QED
    BY <1>1, <2>2 DEF KeyOf
<1>2. /\ \A e \in csiKeys : e[2] \in 0 .. 301
      /\ \A e \in ss3Keys : e[2] \in 0 .. 301
      /\ \A e \in tildeKeys : e[2] \in 0 .. 301
  BY DEF csiKeys, ss3Keys, tildeKeys
<1> QED
  BY <1>1, <1>2

(* A letter that ends a sequence. *)
LEMMA LetterSound ==
  ASSUME NEW b \in Seq(Byte), NEW h \in Nat, h < Len(b), NEW m,
         NEW table \in {csiKeys, ss3Keys}
  PROVE  Sound(Letter(b, h, table, m), h, b)
<1>1. h + 1 \in h + 1 .. Len(b)
  OBVIOUS
<1>2. CASE Known(table, b[h + 1])
  <2>1. Modified(KeyOf(table, b[h + 1]), m) \in KeyStroke
    <3>1. KeyOf(table, b[h + 1]) \in 0 .. 301
      BY <1>2, TablesHoldKeys
    <3> QED
      BY <3>1, KeysAreStrokes
  <2>2. Letter(b, h, table, m) = Ok(h + 1, Modified(KeyOf(table, b[h + 1]), m))
    BY <1>2 DEF Letter
  <2> QED
    BY <1>1, <2>1, <2>2, SoundResults
<1>3. CASE ~Known(table, b[h + 1])
  <2>1. Letter(b, h, table, m) = Err(h + 1)
    BY <1>3 DEF Letter
  <2> QED
    BY <1>1, <2>1, SoundResults
<1> QED
  BY <1>2, <1>3

LEMMA TildeSound ==
  ASSUME NEW b \in Seq(Byte), NEW h \in Nat, h < Len(b), NEW n
  PROVE  Sound(parse_tilde(b, h, n), h, b)
<1> DEFINE k == IF Known(tildeKeys, n % 256) THEN KeyOf(tildeKeys, n % 256) ELSE 0
           e == NumberEnd(b, h + 1)
<1>1. Len(b) \in Nat /\ h + 1 \in 0 .. Len(b) /\ h + 1 \in h + 1 .. Len(b)
  OBVIOUS
<1>2. e \in h + 1 .. Len(b)
  BY <1>1, NumberEnds
<1>3. k \in 0 .. 301
  BY TablesHoldKeys
<1>4. parse_tilde(b, h, n) =
        CASE b[h + 1] = TILDE -> Ok(h + 1, Plain(k))
          [] b[h + 1] = SEMICOLON ->
               IF Ends(b, e) THEN Unfinished(e)
               ELSE IF b[e + 1] = TILDE THEN Ok(e + 1, Modified(k, Number(b, h + 1, e)))
               ELSE Err(e + 1)
          [] OTHER -> Err(h + 1)
  BY DEF parse_tilde
<1> HIDE DEF k, e
<1>5. Plain(k) \in KeyStroke /\ Modified(k, Number(b, h + 1, e)) \in KeyStroke
  BY <1>3, KeysAreStrokes
<1>6. ~Ends(b, e) => e + 1 \in h + 1 .. Len(b)
  BY <1>1, <1>2 DEF Ends
<1>7. parse_tilde(b, h, n) \in
        {Ok(h + 1, Plain(k)), Unfinished(e), Err(h + 1)}
          \cup IF Ends(b, e) THEN {}
               ELSE {Ok(e + 1, Modified(k, Number(b, h + 1, e))), Err(e + 1)}
  BY <1>4 DEF TILDE, SEMICOLON
<1> QED
  BY <1>1, <1>2, <1>5, <1>6, <1>7, SoundResults

(* ESC [ and what follows; the bytes before h are ESC and [. *)
LEMMA CsiSound ==
  ASSUME NEW b \in Seq(Byte), NEW h \in Nat \ {0}, h <= Len(b)
  PROVE  Sound(parse_csi(b, h), h - 1, b)
<1> DEFINE e == NumberEnd(b, h)
           n == Number(b, h, e)
           f == NumberEnd(b, e + 1)
<1>1. Len(b) \in Nat /\ h \in 0 .. Len(b) /\ h - 1 \in Nat /\ h - 1 + 1 = h
  OBVIOUS
<1>2. e \in h .. Len(b)
  BY <1>1, NumberEnds
<1>3. parse_csi(b, h) =
        CASE Ends(b, e) -> Unfinished(e)
          [] ~Ends(b, e) /\ n = 0 -> Letter(b, e, csiKeys, 1)
          [] ~Ends(b, e) /\ n \notin {0, 1} -> parse_tilde(b, e, n)
          [] ~Ends(b, e) /\ n = 1 ->
               CASE b[e + 1] = TILDE -> Ok(e + 1, Plain(KEY_HOME))
                 [] b[e + 1] = SEMICOLON ->
                      IF Ends(b, f) THEN Unfinished(f)
                      ELSE Letter(b, f, csiKeys, Number(b, e + 1, f))
                 [] OTHER -> Err(e + 1)
  BY DEF parse_csi
<1> HIDE DEF e, n
<1>4. CASE Ends(b, e)
  <2>1. parse_csi(b, h) = Unfinished(e)
    BY <1>3, <1>4
  <2>2. e \in h - 1 + 1 .. Len(b)
    BY <1>1, <1>2
  <2> QED
    BY <1>1, <2>1, <2>2, SoundResults
<1>5. CASE ~Ends(b, e)
  <2>1. e < Len(b) /\ e \in Nat /\ h - 1 <= e /\ e + 1 \in h - 1 + 1 .. Len(b) /\ e + 1 \in 0 .. Len(b)
    BY <1>1, <1>2, <1>5 DEF Ends
  <2>2. f \in e + 1 .. Len(b)
    BY <2>1, NumberEnds
  <2> HIDE DEF f
  <2>3. CASE n = 0
    <3>1. parse_csi(b, h) = Letter(b, e, csiKeys, 1)
      BY <1>3, <1>5, <2>3
    <3> QED
      BY <1>1, <2>1, <3>1, LetterSound, SoundFromLater
  <2>4. CASE n \notin {0, 1}
    <3>1. parse_csi(b, h) = parse_tilde(b, e, n)
      BY <1>3, <1>5, <2>4
    <3> QED
      BY <1>1, <2>1, <3>1, TildeSound, SoundFromLater
  <2>5. CASE n = 1
    <3>1. parse_csi(b, h) =
               CASE b[e + 1] = TILDE -> Ok(e + 1, Plain(KEY_HOME))
                 [] b[e + 1] = SEMICOLON ->
                      IF Ends(b, f) THEN Unfinished(f)
                      ELSE Letter(b, f, csiKeys, Number(b, e + 1, f))
                 [] OTHER -> Err(e + 1)
      BY <1>3, <1>5, <2>5
    <3>2. CASE b[e + 1] = TILDE
      <4>1. parse_csi(b, h) = Ok(e + 1, Plain(KEY_HOME))
        BY <3>1, <3>2 DEF TILDE, SEMICOLON
      <4>2. Plain(KEY_HOME) \in KeyStroke
        BY KeysAreStrokes DEF KEY_HOME
      <4> QED
        BY <1>1, <2>1, <4>1, <4>2, SoundResults
    <3>3. CASE b[e + 1] = SEMICOLON /\ Ends(b, f)
      <4>1. parse_csi(b, h) = Unfinished(f)
        BY <3>1, <3>3 DEF TILDE, SEMICOLON
      <4>2. f \in h - 1 + 1 .. Len(b)
        BY <1>1, <2>1, <2>2
      <4> QED
        BY <1>1, <4>1, <4>2, SoundResults
    <3>4. CASE b[e + 1] = SEMICOLON /\ ~Ends(b, f)
      <4>1. parse_csi(b, h) = Letter(b, f, csiKeys, Number(b, e + 1, f))
        BY <3>1, <3>4 DEF TILDE, SEMICOLON
      <4>2. f \in Nat /\ f < Len(b) /\ h - 1 <= f
        BY <1>1, <2>1, <2>2, <3>4 DEF Ends
      <4>3. Sound(Letter(b, f, csiKeys, Number(b, e + 1, f)), f, b)
        BY <4>2, LetterSound
      <4> QED
        BY <1>1, <4>1, <4>2, <4>3, SoundFromLater
    <3>5. CASE b[e + 1] \notin {TILDE, SEMICOLON}
      <4>1. parse_csi(b, h) = Err(e + 1)
        BY <3>1, <3>5
      <4> QED
        BY <1>1, <2>1, <4>1, SoundResults
    <3> QED
      BY <3>2, <3>3, <3>4, <3>5
  <2> QED
    BY <2>3, <2>4, <2>5
<1> QED
  BY <1>4, <1>5

LEMMA Ss3Sound ==
  ASSUME NEW b \in Seq(Byte), NEW h \in Nat \ {0}, h <= Len(b)
  PROVE  Sound(parse_ss3(b, h), h - 1, b)
<1>1. Len(b) \in Nat /\ h - 1 \in Nat /\ h \in h - 1 + 1 .. Len(b) /\ h - 1 <= h
  OBVIOUS
<1>2. CASE Ends(b, h)
  BY <1>1, <1>2, SoundResults DEF parse_ss3
<1>3. CASE ~Ends(b, h)
  <2>1. h < Len(b)
    BY <1>1, <1>3 DEF Ends
  <2>2. Sound(Letter(b, h, ss3Keys, 1), h, b)
    BY <2>1, LetterSound
  <2> QED
    BY <1>1, <1>3, <2>2, SoundFromLater DEF parse_ss3
<1> QED
  BY <1>2, <1>3

LEMMA EscapedSound ==
  ASSUME NEW b \in Seq(Byte), NEW h \in Nat, h < Len(b)
  PROVE  Sound(parse_escaped_character(b, h), h, b)
<1>1. Len(b) \in Nat /\ h + 1 \in h + 1 .. Len(b)
  OBVIOUS
<1>2. ASSUME curr(b, h + 1) \in {CSI, SS3}
      PROVE  h + 2 <= Len(b) /\ h + 2 \in Nat \ {0} /\ h <= h + 2 - 1 /\ h + 2 - 1 \in Nat
  BY <1>1, <1>2 DEF curr, Ends, CSI, SS3
<1>3. CASE curr(b, h + 1) = CSI
  <2>1. parse_escaped_character(b, h) = parse_csi(b, h + 2)
    BY <1>3 DEF parse_escaped_character, CSI, SS3
  <2>2. Sound(parse_csi(b, h + 2), h + 2 - 1, b)
    BY <1>2, <1>3, CsiSound
  <2> QED
    BY <1>1, <1>2, <1>3, <2>1, <2>2, SoundFromLater
<1>4. CASE curr(b, h + 1) = SS3
  <2>1. parse_escaped_character(b, h) = parse_ss3(b, h + 2)
    BY <1>4 DEF parse_escaped_character, CSI, SS3
  <2>2. Sound(parse_ss3(b, h + 2), h + 2 - 1, b)
    BY <1>2, <1>4, Ss3Sound
  <2> QED
    BY <1>1, <1>2, <1>4, <2>1, <2>2, SoundFromLater
<1>5. CASE curr(b, h + 1) \notin {CSI, SS3}
  <2>1. parse_escaped_character(b, h) = Ok(h + 1, Plain(KEY_ESCAPE))
    BY <1>5 DEF parse_escaped_character
  <2>2. Plain(KEY_ESCAPE) \in KeyStroke
    BY KeysAreStrokes DEF KEY_ESCAPE
  <2> QED
    BY <1>1, <2>1, <2>2, SoundResults
<1> QED
  BY <1>3, <1>4, <1>5

LEMMA SimpleSound ==
  ASSUME NEW b \in Seq(Byte), NEW h \in Nat, h < Len(b)
  PROVE  Sound(parse_simple_character(b, h), h, b)
<1> DEFINE c == b[h + 1]
           key == CASE c = 9 -> Plain(KEY_TAB)
                    [] c \in 1 .. 26 \ {9} -> [Plain(c + 96) EXCEPT !.ctrl = TRUE]
                    [] c \in 65 .. 90 -> [Plain(c + 32) EXCEPT !.shift = TRUE]
                    [] OTHER -> Plain(c)
<1>1. h + 1 \in h + 1 .. Len(b) /\ c \in 0 .. 255
  <2>1. h + 1 \in h + 1 .. Len(b) /\ h + 1 \in 1 .. Len(b)
    OBVIOUS
  <2>2. b[h + 1] \in Byte
    BY <2>1
  <2> QED
    BY <2>1, <2>2 DEF Byte
<1>2. parse_simple_character(b, h) = Ok(h + 1, key)
  BY DEF parse_simple_character
<1> HIDE DEF c
<1>3. key \in KeyStroke
  <2>1. CASE c = 9
    BY <2>1, KeysAreStrokes DEF KEY_TAB
  <2>2. CASE c \in 1 .. 26 \ {9}
    <3>1. c # 9 /\ c \notin 65 .. 90 /\ c + 96 \in 0 .. 301
      BY <2>2
    <3>2. key = [Plain(c + 96) EXCEPT !.ctrl = TRUE]
      BY <2>2, <3>1
    <3>3. Plain(c + 96) \in KeyStroke
      BY <3>1, KeysAreStrokes
    <3> HIDE DEF key
    <3> QED
      BY <3>2, <3>3, ModifiersKeepStrokes
  <2>3. CASE c \in 65 .. 90
    <3>1. c # 9 /\ c \notin 1 .. 26 \ {9} /\ c + 32 \in 0 .. 301
      BY <2>3
    <3>2. key = [Plain(c + 32) EXCEPT !.shift = TRUE]
      BY <2>3, <3>1
    <3>3. Plain(c + 32) \in KeyStroke
      BY <3>1, KeysAreStrokes
    <3> HIDE DEF key
    <3> QED
      BY <3>2, <3>3, ModifiersKeepStrokes
  <2>4. CASE c # 9 /\ c \notin 1 .. 26 \ {9} /\ c \notin 65 .. 90
    <3>1. c \in 0 .. 301
      BY <1>1
    <3>2. key = Plain(c)
      BY <2>4
    <3> HIDE DEF key
    <3> QED
      BY <3>1, <3>2, KeysAreStrokes
  <2> HIDE DEF key
  <2> QED
    BY <2>1, <2>2, <2>3, <2>4
<1> HIDE DEF key
<1> QED
  BY <1>1, <1>2, <1>3, SoundResults

(* Four bytes are two numbers of 16 bits. *)
LEMMA ReportIsSize ==
  ASSUME NEW w1 \in Byte, NEW w2 \in Byte, NEW h1 \in Byte, NEW h2 \in Byte
  PROVE  <<256 * w1 + w2, 256 * h1 + h2>> \in Size
<1>1. UINT16_MAX \in Nat
  BY DEF UINT16_MAX
<1>2. \A n \in Int : 0 <= n /\ n <= UINT16_MAX => n \in Short
  BY <1>1 DEF Short
<1>3. \A u, v \in Int : 0 <= u /\ u <= 255 /\ 0 <= v /\ v <= 255
        => 256 * u + v \in Int /\ 0 <= 256 * u + v /\ 256 * u + v <= UINT16_MAX
  BY DEF UINT16_MAX
<1>4. ASSUME NEW x \in Byte, NEW y \in Byte
      PROVE  256 * x + y \in Short
  <2>1. x \in Int /\ 0 <= x /\ x <= 255 /\ y \in Int /\ 0 <= y /\ y <= 255
    BY DEF Byte
  <2>2. 256 * x + y \in Int /\ 0 <= 256 * x + y /\ 256 * x + y <= UINT16_MAX
    BY <1>3, <2>1
  <2> QED
    BY <1>2, <2>2
<1>5. 256 * w1 + w2 \in Short /\ 256 * h1 + h2 \in Short
  BY <1>4
<1> QED
  BY <1>5 DEF Size

LEMMA CommandSound ==
  ASSUME NEW b \in Seq(Byte), NEW h \in Nat, h < Len(b)
  PROVE  Sound(parse_telnet_command(b, h), h, b)
<1> DEFINE Wrong(k) == SizeReport[k] # -1 /\ b[h + k] # SizeReport[k]
           there == {k \in 1 .. 9 : h + k <= Len(b)}
           First(k) == Wrong(k) /\ \A l \in 1 .. k - 1 : ~Wrong(l)
           first == CHOOSE k \in there : First(k)
           reported == <<256 * b[h + 4] + b[h + 5], 256 * b[h + 6] + b[h + 7]>>
           report == [Result("ok", h + 9, <<>>) EXCEPT !.size = reported]
<1>1. Len(b) \in Nat /\ there \subseteq 1 .. 9
  OBVIOUS
<1>2. parse_telnet_command(b, h) =
        IF \E k \in there : Wrong(k) THEN Err(h + first)
        ELSE IF 9 \notin there THEN Unfinished(Len(b)) ELSE report
  BY DEF parse_telnet_command
<1>3. CASE \E k \in there : Wrong(k)
  <2> DEFINE Wrongs == {k \in there : Wrong(k)}
  <2>1. Wrongs \subseteq Nat /\ Wrongs # {}
    <3> HIDE DEF Wrong
    <3>1. Wrongs \subseteq there
      OBVIOUS
    <3> QED
      BY <1>1, <1>3, <3>1
  <2>2. PICK k \in Wrongs : \A m \in Wrongs : k <= m
    <3> HIDE DEF Wrongs
    <3> QED
      BY <2>1, LeastNumber
  <2>3. k \in there /\ Wrong(k)
    BY <2>2
  <2>4. \A l \in 1 .. k - 1 : ~Wrong(l)
    <3> SUFFICES ASSUME NEW l \in 1 .. k - 1, Wrong(l) PROVE FALSE
      OBVIOUS
    <3>1. l \in there /\ ~(k <= l)
      BY <1>1, <2>3
    <3>2. l \in Wrongs
      BY <3>1
    <3> HIDE DEF Wrongs
    <3> QED
      BY <2>2, <3>1, <3>2
  <2>5. First(k)
    BY <2>3, <2>4
  <2> HIDE DEF First
  <2>6. first \in there
    BY <2>3, <2>5
  <2>7. h + first \in h + 1 .. Len(b)
    <3> HIDE DEF first
    <3> QED
      BY <1>1, <2>6
  <2> HIDE DEF first, there, Wrong
  <2> QED
    BY <1>2, <1>3, <2>7, SoundResults
<1>4. CASE ~(\E k \in there : Wrong(k)) /\ 9 \notin there
  <2>1. parse_telnet_command(b, h) = Unfinished(Len(b))
    BY <1>2, <1>4
  <2>2. Len(b) \in h + 1 .. Len(b)
    BY <1>1
  <2> QED
    BY <2>1, <2>2, SoundResults
<1>5. CASE ~(\E k \in there : Wrong(k)) /\ 9 \in there
  <2>1. parse_telnet_command(b, h) = report
    BY <1>2, <1>5
  <2>2. h + 9 <= Len(b)
    BY <1>5
  <2>3. /\ b[h + 4] \in Byte /\ b[h + 5] \in Byte
        /\ b[h + 6] \in Byte /\ b[h + 7] \in Byte
    <3>1. /\ h + 4 \in 1 .. Len(b) /\ h + 5 \in 1 .. Len(b)
          /\ h + 6 \in 1 .. Len(b) /\ h + 7 \in 1 .. Len(b)
      BY <1>1, <2>2
    <3> QED
      BY <3>1
  <2>4. reported \in Size
    BY <2>3, ReportIsSize
  <2> HIDE DEF reported
  <2>5. report = [res |-> "ok", head |-> h + 9, keys |-> <<>>, size |-> reported]
    BY DEF Result
  <2> HIDE DEF report
  <2> QED
    BY <2>1, <2>2, <2>4, <2>5 DEF Sound
<1> QED
  BY <1>3, <1>4, <1>5

(* Every message, recognised or not, consumes at least its first byte. *)
LEMMA MessageSound ==
  ASSUME NEW b \in Seq(Byte), NEW h \in Nat, h < Len(b)
  PROVE  Sound(parse_message(b, h), h, b)
<1>1. parse_message(b, h) \in {parse_telnet_command(b, h), parse_escaped_character(b, h),
                               parse_simple_character(b, h)}
  BY DEF parse_message, IAC, ESC
<1> QED
  BY <1>1, CommandSound, EscapedSound, SimpleSound

-----------------------------------------------------------------------------
(* The specification *)

LEMMA TypesInit == Init => TypeOK
<1> SUFFICES ASSUME Init PROVE TypeOK
  OBVIOUS
<1>1. <<>> \in Seq(Byte) /\ <<>> \in Seq(KeyStroke) /\ Len(<<>>) = 0
  OBVIOUS
<1>2. <<>> \in Size
  BY DEF Size
<1>3. 0 <= IN_BUFFER
  BY TelnetAssumption
<1>4. wire \in Seq(Byte) /\ ends \subseteq 1 .. Len(wire) /\ torn \in BOOLEAN
  BY <1>1 DEF Init
<1>5. in_buffer \in Seq(Byte) /\ in_len = 0
  BY <1>1 DEF Init, in_len
<1>6. /\ phase \in {"idle", "lexing", "finishing"} /\ head = 0 /\ handled = 0 /\ typed = 0
      /\ pressed \in Seq(KeyStroke) /\ meant \in Seq(KeyStroke)
      /\ terminal \in Size /\ meantSize \in Size
  BY <1>1, <1>2 DEF Init
<1> QED
  BY <1>3, <1>4, <1>5, <1>6 DEF TypeOK

LEMMA SendStep ==
  ASSUME TypeOK, Send
  PROVE  TypeOK'
<1>1. typed + 1 \in 1 .. MaxTyped
  BY TelnetAssumption DEF Send, TypeOK
<1>2. PICK k \in Keyboard(typed + 1) :
        /\ wire' = wire \o k.bytes
        /\ ends' = ends \cup {Len(wire')}
        /\ meant' = meant \o k.keys
        /\ meantSize' = IF k.size = <<>> THEN meantSize ELSE k.size
  BY DEF Send
<1>3. k \in [bytes : Seq(Byte) \ {<<>>}, keys : Seq(KeyStroke), size : Size]
  BY <1>1, TelnetAssumption
<1>4. k.bytes \in Seq(Byte) /\ k.bytes # <<>> /\ k.keys \in Seq(KeyStroke) /\ k.size \in Size
  BY <1>3
<1>5. wire \in Seq(Byte) /\ Len(wire) \in Nat /\ ends \subseteq 1 .. Len(wire)
  BY DEF TypeOK
<1>6. Len(k.bytes) \in Nat \ {0}
  BY <1>4
<1>7. wire' \in Seq(Byte) /\ Len(wire') = Len(wire) + Len(k.bytes)
  BY <1>2, <1>4, <1>5
<1>8. ends' \subseteq 1 .. Len(wire')
  <2> SUFFICES ASSUME NEW x \in ends' PROVE x \in 1 .. Len(wire')
    OBVIOUS
  <2>1. x \in ends \/ x = Len(wire')
    BY <1>2
  <2>2. x \in ends => x \in 1 .. Len(wire)
    BY <1>5
  <2> QED
    BY <1>5, <1>6, <1>7, <2>1, <2>2
<1>9. meant' \in Seq(KeyStroke) /\ meantSize' \in Size
  BY <1>2, <1>4 DEF TypeOK
<1>10. UNCHANGED <<torn, in_buffer, lexVars, pressed, terminal>> /\ typed' \in Nat
  BY DEF Send, TypeOK
<1> QED
  BY <1>7, <1>8, <1>9, <1>10 DEF TypeOK, lexVars, in_len

LEMMA RecvStep ==
  ASSUME TypeOK, Recv
  PROVE  TypeOK'
<1>1. PICK n \in Readable :
        /\ in_buffer' = in_buffer \o SubSeq(wire, 1, n)
        /\ wire' = SubSeq(wire, n + 1, Len(wire))
        /\ ends' = {e - n : e \in {e \in ends : e > n}}
        /\ torn' = (torn \/ n \notin ends)
  BY DEF Recv
<1>2. /\ wire \in Seq(Byte) /\ Len(wire) \in Nat /\ ends \subseteq 1 .. Len(wire)
      /\ in_buffer \in Seq(Byte) /\ Len(in_buffer) \in Nat
      /\ n \in 1 .. Len(wire) /\ Len(in_buffer) + n <= IN_BUFFER
  BY TelnetAssumption DEF TypeOK, Readable, in_len
<1>3. SubSeq(wire, 1, n) \in Seq(Byte) /\ Len(SubSeq(wire, 1, n)) = n
  BY <1>2
<1>4. in_buffer' \in Seq(Byte) /\ Len(in_buffer') = Len(in_buffer) + n
  BY <1>1, <1>2, <1>3
<1>5. wire' \in Seq(Byte) /\ Len(wire') = Len(wire) - n
  BY <1>1, <1>2
<1>6. ends' \subseteq 1 .. Len(wire')
  <2> SUFFICES ASSUME NEW x \in ends' PROVE x \in 1 .. Len(wire')
    OBVIOUS
  <2>1. PICK e \in ends : e > n /\ x = e - n
    BY <1>1
  <2>2. e \in 1 .. Len(wire)
    BY <1>2
  <2> QED
    BY <1>2, <1>5, <2>1, <2>2
<1>7. /\ phase' = "lexing" /\ head' = 0 /\ handled' = 0 /\ torn' \in BOOLEAN
      /\ UNCHANGED <<pressed, terminal, userVars>>
  BY <1>1 DEF Recv, TypeOK
<1> QED
  BY <1>2, <1>4, <1>5, <1>6, <1>7 DEF TypeOK, userVars, in_len

(* One turn of the loop, and what it consumes. *)
LEMMA LexStep ==
  ASSUME TypeOK, Lex
  PROVE  TypeOK' /\ head < head' /\ head' <= in_len
<1> DEFINE r == parse_message(in_buffer, head)
<1>1. /\ head' = r.head
      /\ handled' = IF r.res = "unfinished" THEN handled ELSE r.head
      /\ phase' = IF r.res = "unfinished" THEN "finishing" ELSE "lexing"
      /\ pressed' = pressed \o r.keys
      /\ terminal' = IF r.size = <<>> THEN terminal ELSE r.size
      /\ UNCHANGED <<wireVars, in_buffer, userVars>>
  BY DEF Lex
<1>2. /\ in_buffer \in Seq(Byte) /\ Len(in_buffer) \in Nat
      /\ head \in Nat /\ head < Len(in_buffer)
  BY DEF TypeOK, Lex, Ends
<1>3. Sound(r, head, in_buffer)
  BY <1>2, MessageSound
<1> HIDE DEF r
<1>4. /\ r.head \in head + 1 .. Len(in_buffer)
      /\ r.keys \in Seq(KeyStroke) /\ r.size \in Size
  BY <1>3 DEF Sound
<1>5. head' \in Nat /\ head < head' /\ head' <= in_len
  BY <1>1, <1>2, <1>4 DEF in_len
<1>6. handled' \in Nat /\ handled' <= head'
  BY <1>1, <1>2, <1>4, <1>5 DEF TypeOK
<1>7. pressed' \in Seq(KeyStroke) /\ terminal' \in Size
  BY <1>1, <1>4 DEF TypeOK
<1> QED
  BY <1>1, <1>2, <1>5, <1>6, <1>7 DEF TypeOK, wireVars, userVars, in_len

LEMMA FinishStep ==
  ASSUME TypeOK, Finish
  PROVE  TypeOK'
<1>1. /\ in_buffer \in Seq(Byte) /\ Len(in_buffer) \in Nat /\ Len(in_buffer) <= IN_BUFFER
      /\ handled \in Nat /\ handled <= Len(in_buffer)
  BY DEF TypeOK, in_len
<1>2. /\ in_buffer' = Remainder /\ phase' = "idle" /\ head' = 0 /\ handled' = 0
      /\ UNCHANGED <<wireVars, pressed, terminal, userVars>>
  BY DEF Finish
<1>3. in_buffer' \in Seq(Byte) /\ Len(in_buffer') \in Nat /\ Len(in_buffer') <= IN_BUFFER
  <2>1. CASE in_buffer' = <<>>
    <3>1. Len(<<>>) = 0 /\ <<>> \in Seq(Byte)
      OBVIOUS
    <3> QED
      BY <2>1, <3>1, TelnetAssumption
  <2>2. CASE in_buffer' = SubSeq(in_buffer, handled + 1, Len(in_buffer))
    <3>1. Len(in_buffer') = Len(in_buffer) - handled /\ in_buffer' \in Seq(Byte)
      BY <1>1, <2>2
    <3> QED
      BY <1>1, <3>1, TelnetAssumption
  <2> QED
    BY <1>2, <2>1, <2>2 DEF Remainder, in_len
<1> QED
  BY <1>2, <1>3 DEF TypeOK, wireVars, userVars, in_len

LEMMA TypesStep == TypeOK /\ [Next]_vars => TypeOK'
<1>1. TypeOK /\ UNCHANGED vars => TypeOK'
  BY DEF TypeOK, vars, wireVars, lexVars, userVars, in_len
<1> QED
  BY <1>1, SendStep, RecvStep, LexStep, FinishStep DEF Next

(***************************************************************************)
(* Whatever a terminal sends and however it arrives, client_recv never     *)
(* fills in_buffer past its end, the lexer's head stays in it, and what    *)
(* the lexer reports are key strokes and sizes.                            *)
(***************************************************************************)
THEOREM TypeCorrect == Spec => []TypeOK
  BY TypesInit, TypesStep, PTL DEF Spec

(***************************************************************************)
(* Every turn of client_telnet_receive's loop consumes a byte and none     *)
(* reads past in_len, whatever the bytes are: the loop ends.               *)
(***************************************************************************)
THEOREM LexerAdvances == Spec => LexerProgress
<1>1. TypeOK /\ [Next]_vars
        => [phase = "lexing" /\ phase' # "idle" /\ typed' = typed
              => head < head' /\ head' <= in_len]_vars
  <2> SUFFICES ASSUME TypeOK, Next, phase = "lexing", phase' # "idle", typed' = typed
               PROVE  head < head' /\ head' <= in_len
    OBVIOUS
  <2>1. ~Send
    BY DEF Send, TypeOK
  <2>2. ~Recv /\ ~Finish
    BY DEF Recv, Finish
  <2> QED
    BY <2>1, <2>2, LexStep DEF Next
<1> QED
  BY <1>1, TypeCorrect, PTL DEF Spec, LexerProgress

-----------------------------------------------------------------------------
(* What whole messages are decoded to *)

Messages == UNION {Keyboard(n) : n \in 1 .. MaxTyped}

(* s holds part from its i-th element on (counted from 0). *)
Holds(s, i, part) ==
  i + Len(part) <= Len(s) /\ \A j \in 1 .. Len(part) : s[i + j] = part[j]

(***************************************************************************)
(* The lexer, called where a message begins that is in the buffer as a     *)
(* whole, takes it for what the user meant by it, whatever is before it,   *)
(* and after it nothing or another message.                                *)
(***************************************************************************)
Decodable ==
  \A k \in Messages, b \in Seq(Byte), h \in Nat :
    /\ Holds(b, h, k.bytes)
    /\ h + Len(k.bytes) < Len(b) => \E l \in Messages : b[h + Len(k.bytes) + 1] = l.bytes[1]
    => LET r == parse_message(b, h)
       IN  /\ r.res # "unfinished" /\ r.head = h + Len(k.bytes)
           /\ r.keys = k.keys /\ r.size = k.size

(***************************************************************************)
(* The account of what has been sent: the messages in their order, all     *)
(* their bytes, and marks of how many bytes and key strokes they are up to *)
(* the i-th and which size was last reported by then.                      *)
(***************************************************************************)
Mark == [bytes : Nat, keys : Nat, size : Size]

Recorded(log, mark, sent) ==
  /\ log \in Seq(Messages) /\ sent \in Seq(Byte)
  /\ mark \in [0 .. Len(log) -> Mark]
  /\ mark[0] = [bytes |-> 0, keys |-> 0, size |-> <<>>]
  /\ \A i \in 1 .. Len(log) :
       /\ mark[i].bytes = mark[i - 1].bytes + Len(log[i].bytes)
       /\ mark[i].keys = mark[i - 1].keys + Len(log[i].keys)
       /\ mark[i].size = IF log[i].size = <<>> THEN mark[i - 1].size ELSE log[i].size
       /\ Holds(sent, mark[i - 1].bytes, log[i].bytes)
       /\ Holds(meant, mark[i - 1].keys, log[i].keys)
  /\ mark[Len(log)] = [bytes |-> Len(sent), keys |-> Len(meant), size |-> meantSize]
  /\ \A i, j \in 0 .. Len(log) :
       i < j => mark[i].bytes < mark[j].bytes /\ mark[i].keys <= mark[j].keys

(* Of these, r messages have been read and d decoded. *)
Accounted(log, mark, sent, d, r) ==
  /\ r \in 0 .. Len(log) /\ d \in 0 .. r
  /\ Len(pressed) = mark[d].keys /\ \A j \in 1 .. mark[d].keys : pressed[j] = meant[j]
  /\ terminal = mark[d].size
  /\ Len(wire) = Len(sent) - mark[r].bytes
  /\ \A x \in 1 .. Len(wire) : wire[x] = sent[mark[r].bytes + x]
  /\ ends = {mark[i].bytes - mark[r].bytes : i \in r + 1 .. Len(log)}
  /\ phase = "idle" => d = r /\ in_buffer = <<>>
  /\ phase # "idle" => /\ phase = "lexing" /\ in_len - head = mark[r].bytes - mark[d].bytes
                       /\ \A x \in 1 .. in_len - head :
                            in_buffer[head + x] = sent[mark[d].bytes + x]

InOrder ==
  ~torn => \E log, mark, sent : \E d, r :
             Recorded(log, mark, sent) /\ Accounted(log, mark, sent, d, r)

LEMMA MessageTypes ==
  \A k \in Messages :
    /\ k.bytes \in Seq(Byte) /\ k.bytes # <<>> /\ Len(k.bytes) \in Nat \ {0}
    /\ k.keys \in Seq(KeyStroke) /\ Len(k.keys) \in Nat /\ k.size \in Size
<1> SUFFICES ASSUME NEW k \in Messages
             PROVE  /\ k.bytes \in Seq(Byte) /\ k.bytes # <<>> /\ Len(k.bytes) \in Nat \ {0}
                    /\ k.keys \in Seq(KeyStroke) /\ Len(k.keys) \in Nat /\ k.size \in Size
  OBVIOUS
<1>1. PICK n \in 1 .. MaxTyped : k \in Keyboard(n)
  BY DEF Messages
<1>2. k \in [bytes : Seq(Byte) \ {<<>>}, keys : Seq(KeyStroke), size : Size]
  BY <1>1, TelnetAssumption
<1>3. k.bytes \in Seq(Byte) /\ k.bytes # <<>> /\ k.keys \in Seq(KeyStroke) /\ k.size \in Size
  BY <1>2
<1> QED
  BY <1>3

LEMMA HoldsLonger ==
  ASSUME NEW s, NEW t, Len(s) \in Nat, Len(t) \in Nat, Len(s) <= Len(t),
         \A i \in 1 .. Len(s) : t[i] = s[i],
         NEW i \in Nat, NEW part, Len(part) \in Nat, Holds(s, i, part)
  PROVE  Holds(t, i, part)
<1>1. i + Len(part) <= Len(t)
  BY DEF Holds
<1>2. ASSUME NEW j \in 1 .. Len(part)
      PROVE  t[i + j] = part[j]
  <2>1. i + j \in 1 .. Len(s)
    BY DEF Holds
  <2> QED
    BY <2>1 DEF Holds
<1> QED
  BY <1>1, <1>2 DEF Holds

(* The marks rise to what has been sent. *)
LEMMA MarksInRange ==
  ASSUME NEW log, NEW mark, NEW sent, Recorded(log, mark, sent), NEW i \in 0 .. Len(log)
  PROVE  /\ mark[i] \in Mark
         /\ mark[i].bytes \in Nat /\ mark[i].bytes <= Len(sent)
         /\ mark[i].keys \in Nat /\ mark[i].keys <= Len(meant)
<1>1. /\ Len(log) \in Nat /\ mark \in [0 .. Len(log) -> Mark]
      /\ mark[Len(log)] = [bytes |-> Len(sent), keys |-> Len(meant), size |-> meantSize]
  BY DEF Recorded
<1>2. \A x, y \in 0 .. Len(log) :
        x < y => mark[x].bytes < mark[y].bytes /\ mark[x].keys <= mark[y].keys
  BY DEF Recorded
<1>3. mark[i] \in Mark /\ mark[Len(log)] \in Mark
  BY <1>1
<1>4. /\ mark[i].bytes \in Nat /\ mark[i].keys \in Nat
      /\ mark[Len(log)].bytes \in Nat /\ mark[Len(log)].keys \in Nat
  BY <1>3 DEF Mark
<1>5. mark[Len(log)].bytes = Len(sent) /\ mark[Len(log)].keys = Len(meant)
  BY <1>1
<1>6. i = Len(log) \/ (i < Len(log) /\ Len(log) \in 0 .. Len(log))
  BY <1>1
<1> QED
  BY SMTT(30), <1>2, <1>3, <1>4, <1>5, <1>6

LEMMA MessageRecorded ==
  ASSUME NEW log, NEW mark, NEW sent, Recorded(log, mark, sent), NEW i \in Nat, i + 1 \in 1 .. Len(log)
  PROVE  /\ mark[i + 1].bytes = mark[i].bytes + Len(log[i + 1].bytes)
         /\ mark[i + 1].keys = mark[i].keys + Len(log[i + 1].keys)
         /\ mark[i + 1].size = IF log[i + 1].size = <<>> THEN mark[i].size ELSE log[i + 1].size
         /\ Holds(sent, mark[i].bytes, log[i + 1].bytes)
         /\ Holds(meant, mark[i].keys, log[i + 1].keys)
<1> DEFINE Right(j, p) ==
             /\ mark[j].bytes = mark[p].bytes + Len(log[j].bytes)
             /\ mark[j].keys = mark[p].keys + Len(log[j].keys)
             /\ mark[j].size = IF log[j].size = <<>> THEN mark[p].size ELSE log[j].size
             /\ Holds(sent, mark[p].bytes, log[j].bytes)
             /\ Holds(meant, mark[p].keys, log[j].keys)
<1>1. \A j \in 1 .. Len(log) : Right(j, j - 1)
  BY DEF Recorded
<1> HIDE DEF Right
<1>2. i + 1 - 1 = i
  OBVIOUS
<1>3. Right(i + 1, i + 1 - 1)
  BY <1>1
<1>4. Right(i + 1, i)
  BY <1>2, <1>3
<1> QED
  BY <1>4 DEF Right

LEMMA InOrderInit == Init => InOrder
<1> SUFFICES ASSUME Init PROVE InOrder
  OBVIOUS
<1> DEFINE start == [bytes |-> 0, keys |-> 0, size |-> <<>>]
           mark == [i \in 0 .. 0 |-> start]
<1>1. <<>> \in Size
  BY DEF Size
<1>2. start \in Mark
  BY <1>1 DEF Mark
<1>3. /\ <<>> \in Seq(Messages) /\ <<>> \in Seq(Byte) /\ Len(<<>>) = 0
      /\ mark \in [0 .. 0 -> Mark] /\ mark[0] = start
  BY <1>2
<1> HIDE DEF mark
<1>4. Recorded(<<>>, mark, <<>>)
  BY <1>3 DEF Recorded, Init
<1>5. Accounted(<<>>, mark, <<>>, 0, 0)
  BY <1>3 DEF Accounted, Init
<1> QED
  BY <1>4, <1>5 DEF InOrder

(* The account with the message k added. *)
Added(log, mark, sent, k, log2, mark2, sent2) ==
  /\ Len(log2) = Len(log) + 1 /\ Len(sent2) = Len(sent) + Len(k.bytes)
  /\ \A i \in 0 .. Len(log) : mark2[i] = mark[i]
  /\ mark2[Len(log) + 1].bytes = Len(sent2)
  /\ \A i \in 1 .. Len(sent) : sent2[i] = sent[i]
  /\ \A i \in 1 .. Len(k.bytes) : sent2[Len(sent) + i] = k.bytes[i]

Sends(k) ==
  /\ wire' = wire \o k.bytes
  /\ ends' = ends \cup {Len(wire')}
  /\ meant' = meant \o k.keys
  /\ meantSize' = IF k.size = <<>> THEN meantSize ELSE k.size

(* What a message that is sent adds to what was sent and meant. *)
LEMMA SendAdds ==
  ASSUME TypeOK, NEW k \in Messages, Sends(k)
  PROVE  /\ wire \in Seq(Byte) /\ meant \in Seq(KeyStroke) /\ meantSize' \in Size
         /\ Len(meant) \in Nat /\ Len(wire) \in Nat
         /\ meant' \in Seq(KeyStroke) /\ Len(meant') = Len(meant) + Len(k.keys)
         /\ \A i \in 1 .. Len(meant) : meant'[i] = meant[i]
         /\ \A i \in 1 .. Len(k.keys) : meant'[Len(meant) + i] = k.keys[i]
         /\ Len(wire') = Len(wire) + Len(k.bytes)
         /\ \A i \in 1 .. Len(wire) : wire'[i] = wire[i]
         /\ \A i \in 1 .. Len(k.bytes) : wire'[Len(wire) + i] = k.bytes[i]
<1>1. /\ k.bytes \in Seq(Byte) /\ k.keys \in Seq(KeyStroke) /\ k.size \in Size
  BY MessageTypes
<1>2. wire \in Seq(Byte) /\ meant \in Seq(KeyStroke) /\ meantSize \in Size
  BY DEF TypeOK
<1>3. /\ wire' = wire \o k.bytes /\ meant' = meant \o k.keys
      /\ meantSize' = IF k.size = <<>> THEN meantSize ELSE k.size
  BY DEF Sends
<1>4. meantSize' \in Size
  BY <1>1, <1>2, <1>3
<1>5. /\ meant' \in Seq(KeyStroke) /\ Len(meant') = Len(meant) + Len(k.keys)
      /\ \A i \in 1 .. Len(meant) : meant'[i] = meant[i]
      /\ \A i \in 1 .. Len(k.keys) : meant'[Len(meant) + i] = k.keys[i]
  BY <1>1, <1>2, <1>3
<1>6. /\ Len(wire') = Len(wire) + Len(k.bytes)
      /\ \A i \in 1 .. Len(wire) : wire'[i] = wire[i]
      /\ \A i \in 1 .. Len(k.bytes) : wire'[Len(wire) + i] = k.bytes[i]
  BY <1>1, <1>2, <1>3
<1> QED
  BY <1>2, <1>4, <1>5, <1>6

LEMMA SendRecorded ==
  ASSUME TypeOK, NEW k \in Messages, Sends(k),
         NEW log, NEW mark, NEW sent, Recorded(log, mark, sent)
  PROVE  \E log2, mark2, sent2 : /\ Added(log, mark, sent, k, log2, mark2, sent2)
                                 /\ Recorded(log2, mark2, sent2)'
<1>1. meantSize' = IF k.size = <<>> THEN meantSize ELSE k.size
  BY DEF Sends
<1>2. /\ k.bytes \in Seq(Byte) /\ Len(k.bytes) \in Nat \ {0}
      /\ k.keys \in Seq(KeyStroke) /\ Len(k.keys) \in Nat /\ k.size \in Size
  BY MessageTypes
<1>3. /\ log \in Seq(Messages) /\ sent \in Seq(Byte) /\ mark \in [0 .. Len(log) -> Mark]
      /\ Len(log) \in Nat /\ Len(sent) \in Nat
      /\ mark[Len(log)] = [bytes |-> Len(sent), keys |-> Len(meant), size |-> meantSize]
      /\ wire \in Seq(Byte) /\ meant \in Seq(KeyStroke) /\ Len(meant) \in Nat /\ Len(wire) \in Nat
      /\ meantSize \in Size
  <2>1. /\ log \in Seq(Messages) /\ sent \in Seq(Byte) /\ mark \in [0 .. Len(log) -> Mark]
        /\ mark[Len(log)] = [bytes |-> Len(sent), keys |-> Len(meant), size |-> meantSize]
    BY DEF Recorded
  <2>2. /\ wire \in Seq(Byte) /\ meant \in Seq(KeyStroke) /\ meantSize \in Size
    BY DEF TypeOK
  <2> QED
    BY <2>1, <2>2
<1> DEFINE N == Len(log) + 1
           log2 == Append(log, k)
           sent2 == sent \o k.bytes
<1>4. /\ log2 \in Seq(Messages) /\ Len(log2) = N /\ log2[N] = k
      /\ \A i \in 1 .. Len(log) : log2[i] = log[i]
  BY <1>3
<1>5. /\ sent2 \in Seq(Byte) /\ Len(sent2) = Len(sent) + Len(k.bytes)
      /\ \A i \in 1 .. Len(sent) : sent2[i] = sent[i]
      /\ \A i \in 1 .. Len(k.bytes) : sent2[Len(sent) + i] = k.bytes[i]
  BY <1>2, <1>3
<1>6. /\ meant' \in Seq(KeyStroke) /\ Len(meant') = Len(meant) + Len(k.keys)
      /\ \A i \in 1 .. Len(meant) : meant'[i] = meant[i]
      /\ \A i \in 1 .. Len(k.keys) : meant'[Len(meant) + i] = k.keys[i]
      /\ meantSize' \in Size
  BY SendAdds
<1> HIDE DEF log2, sent2
<1>7. /\ Len(sent2) \in Nat /\ Len(meant') \in Nat
      /\ Len(sent) <= Len(sent2) /\ Len(meant) <= Len(meant')
  <2>1. Len(k.bytes) \in Nat /\ Len(k.keys) \in Nat
    BY <1>2
  <2>2. Len(sent2) = Len(sent) + Len(k.bytes) /\ Len(meant') = Len(meant) + Len(k.keys)
    BY <1>5, <1>6
  <2> QED
    BY <1>3, <2>1, <2>2
<1>8. [bytes |-> Len(sent2), keys |-> Len(meant'), size |-> meantSize'] \in Mark
  BY <1>6, <1>7 DEF Mark
<1>9. PICK last \in Mark : last = [bytes |-> Len(sent2), keys |-> Len(meant'), size |-> meantSize']
  BY <1>8, Zenon
<1> DEFINE mark2 == [i \in 0 .. N |-> IF i = N THEN last ELSE mark[i]]
<1>10. mark2 \in [0 .. N -> Mark] /\ mark2[N] = last /\ \A i \in 0 .. Len(log) : mark2[i] = mark[i]
  BY <1>3, <1>9
<1> HIDE DEF mark2
<1>11. \A i \in 0 .. Len(log) : /\ mark[i].bytes \in Nat /\ mark[i].bytes <= Len(sent)
                                /\ mark[i].keys \in Nat /\ mark[i].keys <= Len(meant)
  BY MarksInRange
<1>12. Recorded(log2, mark2, sent2)'
  <2>1. mark2[0] = [bytes |-> 0, keys |-> 0, size |-> <<>>]
    BY <1>3, <1>10 DEF Recorded
  <2>2. ASSUME NEW i \in 1 .. Len(log2)
        PROVE  /\ mark2[i].bytes = mark2[i - 1].bytes + Len(log2[i].bytes)
               /\ mark2[i].keys = mark2[i - 1].keys + Len(log2[i].keys)
               /\ mark2[i].size = IF log2[i].size = <<>> THEN mark2[i - 1].size ELSE log2[i].size
               /\ Holds(sent2, mark2[i - 1].bytes, log2[i].bytes)
               /\ Holds(meant', mark2[i - 1].keys, log2[i].keys)
    <3>1. CASE i = N
      <4>1. i - 1 = Len(log) /\ log2[i] = k /\ mark2[i] = last /\ mark2[i - 1] = mark[Len(log)]
        BY <1>3, <1>4, <1>10, <3>1
      <4>2. /\ mark2[i - 1].bytes = Len(sent) /\ mark2[i - 1].keys = Len(meant)
            /\ mark2[i - 1].size = meantSize
        BY <1>3, <4>1
      <4>3. Holds(sent2, Len(sent), k.bytes)
        BY <1>5 DEF Holds
      <4>4. Holds(meant', Len(meant), k.keys)
        BY <1>6 DEF Holds
      <4> QED
        BY <1>1, <1>5, <1>6, <1>9, <4>1, <4>2, <4>3, <4>4
    <3>2. CASE i # N
      <4>1. i \in 1 .. Len(log) /\ i \in 0 .. Len(log) /\ i - 1 \in 0 .. Len(log)
        BY <1>3, <1>4, <3>2
      <4>2. log2[i] = log[i] /\ mark2[i] = mark[i] /\ mark2[i - 1] = mark[i - 1]
        BY <1>4, <1>10, <4>1
      <4>3. /\ mark[i].bytes = mark[i - 1].bytes + Len(log[i].bytes)
            /\ mark[i].keys = mark[i - 1].keys + Len(log[i].keys)
            /\ mark[i].size = IF log[i].size = <<>> THEN mark[i - 1].size ELSE log[i].size
            /\ Holds(sent, mark[i - 1].bytes, log[i].bytes)
            /\ Holds(meant, mark[i - 1].keys, log[i].keys)
        BY <4>1 DEF Recorded
      <4>4. log[i] \in Messages /\ mark[i - 1].bytes \in Nat /\ mark[i - 1].keys \in Nat
        BY <1>3, <1>11, <4>1
      <4>5. Len(log[i].bytes) \in Nat /\ Len(log[i].keys) \in Nat
        BY <4>4, MessageTypes
      <4>6. Holds(sent2, mark[i - 1].bytes, log[i].bytes)
        BY <1>3, <1>5, <1>7, <4>3, <4>4, <4>5, HoldsLonger
      <4>7. Holds(meant', mark[i - 1].keys, log[i].keys)
        BY <1>3, <1>6, <1>7, <4>3, <4>4, <4>5, HoldsLonger
      <4> QED
        BY <4>2, <4>3, <4>6, <4>7
    <3> QED
      BY <3>1, <3>2
  <2>3. mark2[Len(log2)] = [bytes |-> Len(sent2), keys |-> Len(meant'), size |-> meantSize']
    BY <1>4, <1>9, <1>10
  <2>4. ASSUME NEW i \in 0 .. Len(log2), NEW j \in 0 .. Len(log2), i < j
        PROVE  mark2[i].bytes < mark2[j].bytes /\ mark2[i].keys <= mark2[j].keys
    <3>1. i \in 0 .. Len(log) /\ mark2[i] = mark[i] /\ (j = N \/ j \in 0 .. Len(log))
      BY <1>3, <1>4, <1>10, <2>4
    <3>2. CASE j = N
      <4>1. mark2[j].bytes = Len(sent) + Len(k.bytes) /\ mark2[j].keys = Len(meant) + Len(k.keys)
        BY <1>5, <1>6, <1>9, <1>10, <3>2
      <4>2. mark[i].bytes < Len(sent) + Len(k.bytes)
        BY <1>2, <1>3, <1>11, <3>1
      <4>3. mark[i].keys <= Len(meant) + Len(k.keys)
        BY <1>2, <1>3, <1>11, <3>1
      <4> QED
        BY <3>1, <4>1, <4>2, <4>3
    <3>3. CASE j \in 0 .. Len(log)
      BY <1>10, <2>4, <3>1, <3>3 DEF Recorded
    <3> QED
      BY <3>1, <3>2, <3>3
  <2> QED
    BY <1>4, <1>5, <1>10, <2>1, <2>2, <2>3, <2>4 DEF Recorded
<1>13. Added(log, mark, sent, k, log2, mark2, sent2)
  BY SMTT(30), <1>4, <1>5, <1>9, <1>10 DEF Added
<1> QED
  BY <1>12, <1>13

(* Another message is sent. *)
LEMMA InOrderSend ==
  ASSUME TypeOK, InOrder, Send
  PROVE  InOrder'
<1> SUFFICES ASSUME ~torn PROVE InOrder'
  BY DEF Send, InOrder
<1>1. PICK log, mark, sent : \E d, r : Recorded(log, mark, sent) /\ Accounted(log, mark, sent, d, r)
  BY DEF InOrder
<1>2. PICK d, r : Recorded(log, mark, sent) /\ Accounted(log, mark, sent, d, r)
  BY <1>1
<1>3. PICK k \in Keyboard(typed + 1) : Sends(k)
  BY DEF Send, Sends
<1>4. k \in Messages
  <2>1. typed + 1 \in 1 .. MaxTyped
    BY TelnetAssumption DEF Send, TypeOK
  <2> QED
    BY <2>1, <1>3 DEF Messages
<1>5. /\ k.bytes \in Seq(Byte) /\ Len(k.bytes) \in Nat \ {0}
      /\ k.keys \in Seq(KeyStroke) /\ Len(k.keys) \in Nat /\ k.size \in Size
  BY <1>4, MessageTypes
<1>6. UNCHANGED <<torn, in_buffer, head, phase, pressed, terminal>>
  BY DEF Send, lexVars
<1>7. /\ Len(log) \in Nat /\ Len(sent) \in Nat /\ Len(meant) \in Nat /\ Len(wire) \in Nat
  BY <1>2 DEF Recorded, TypeOK
<1>8. PICK log2, mark2, sent2 : /\ Added(log, mark, sent, k, log2, mark2, sent2)
                                /\ Recorded(log2, mark2, sent2)'
  BY <1>2, <1>3, <1>4, SendRecorded
<1> DEFINE N == Len(log) + 1
<1>9. /\ Len(log2) = N /\ Len(sent2) = Len(sent) + Len(k.bytes)
      /\ mark2[N].bytes = Len(sent2) /\ \A i \in 0 .. Len(log) : mark2[i] = mark[i]
      /\ \A i \in 1 .. Len(sent) : sent2[i] = sent[i]
      /\ \A i \in 1 .. Len(k.bytes) : sent2[Len(sent) + i] = k.bytes[i]
  BY <1>8 DEF Added
<1>10. /\ \A i \in 1 .. Len(meant) : meant'[i] = meant[i]
       /\ Len(wire') = Len(wire) + Len(k.bytes)
       /\ \A i \in 1 .. Len(wire) : wire'[i] = wire[i]
       /\ \A i \in 1 .. Len(k.bytes) : wire'[Len(wire) + i] = k.bytes[i]
  BY <1>3, <1>4, SendAdds
<1>11. ends' = ends \cup {Len(wire')}
  BY <1>3 DEF Sends
<1>12. \A i \in 0 .. Len(log) : /\ mark[i].bytes \in Nat /\ mark[i].bytes <= Len(sent)
                                /\ mark[i].keys \in Nat /\ mark[i].keys <= Len(meant)
  BY <1>2, MarksInRange
<1>13. Accounted(log2, mark2, sent2, d, r)'
  <2>1. /\ r \in 0 .. Len(log) /\ d \in 0 .. r /\ d \in 0 .. Len(log)
        /\ mark2[r] = mark[r] /\ mark2[d] = mark[d]
        /\ mark[r].bytes \in Nat /\ mark[r].bytes <= Len(sent)
        /\ mark[d].bytes \in Nat /\ mark[d].bytes <= mark[r].bytes
        /\ mark[d].keys \in Nat /\ mark[d].keys <= Len(meant)
    <3>1. r \in 0 .. Len(log) /\ d \in 0 .. r
      BY <1>2 DEF Accounted
    <3>2. d \in 0 .. Len(log)
      BY <1>7, <3>1
    <3>3. mark[r].bytes \in Nat /\ mark[r].bytes <= Len(sent) /\ mark[d].bytes \in Nat /\ mark[d].keys \in Nat
      BY <1>12, <3>1, <3>2
    <3>4. d = r \/ mark[d].bytes < mark[r].bytes
      BY <1>2, <1>7, <3>1, <3>2 DEF Recorded
    <3> QED
      BY <1>9, <1>12, <3>1, <3>2, <3>3, <3>4
  <2>2. /\ Len(pressed) = mark[d].keys /\ \A j \in 1 .. mark[d].keys : pressed[j] = meant[j]
        /\ terminal = mark[d].size
        /\ Len(wire) = Len(sent) - mark[r].bytes
        /\ \A x \in 1 .. Len(wire) : wire[x] = sent[mark[r].bytes + x]
        /\ ends = {mark[i].bytes - mark[r].bytes : i \in r + 1 .. Len(log)}
        /\ phase = "idle" => d = r /\ in_buffer = <<>>
        /\ phase # "idle" => /\ phase = "lexing" /\ in_len - head = mark[r].bytes - mark[d].bytes
                             /\ \A x \in 1 .. in_len - head :
                                  in_buffer[head + x] = sent[mark[d].bytes + x]
    BY <1>2 DEF Accounted
  <2>3. r \in 0 .. Len(log2) /\ d \in 0 .. r
    BY <1>7, <1>9, <2>1
  <2>4. \A j \in 1 .. mark[d].keys : pressed'[j] = meant'[j]
    BY SMTT(30), <1>6, <1>7, <1>10, <2>1, <2>2
  <2>5. Len(wire') = Len(sent2) - mark[r].bytes
    <3>1. Len(wire) = Len(sent) - mark[r].bytes /\ mark[r].bytes \in Nat
      BY <2>1, <2>2
    <3>2. Len(wire) \in Nat /\ Len(sent) \in Nat /\ Len(k.bytes) \in Nat
      BY <1>5, <1>7
    <3> DEFINE u == Len(wire)
               v == Len(sent)
               w == mark[r].bytes
               z == Len(k.bytes)
    <3>3. u = v - w /\ u \in Int /\ v \in Int /\ w \in Int /\ z \in Int
      BY <3>1, <3>2
    <3>4. Len(wire') = u + z /\ Len(sent2) = v + z
      BY <1>9, <1>10
    <3> HIDE DEF u, v, w, z
    <3>5. Len(wire') = Len(sent2) - w
      BY <3>3, <3>4
    <3> QED
      BY <3>5, Zenon DEF w
  <2>6. ASSUME NEW x \in 1 .. Len(wire')
        PROVE  wire'[x] = sent2[mark[r].bytes + x]
    <3>1. CASE x <= Len(wire)
      <4>1. x \in 1 .. Len(wire) /\ mark[r].bytes + x \in 1 .. Len(sent)
        <5> DEFINE u == Len(wire)
                   v == Len(sent)
                   w == mark[r].bytes
        <5>1. u \in Nat /\ v \in Nat /\ w \in Nat /\ u = v - w /\ x <= u
          BY <1>7, <2>1, <2>2, <3>1
        <5> HIDE DEF u, v, w
        <5>2. x \in 1 .. u /\ w + x \in 1 .. v
          BY <5>1
        <5> QED
          BY <5>2 DEF u, v, w
      <4> QED
        BY <1>9, <1>10, <2>2, <4>1
    <3>2. CASE x > Len(wire)
      <4>1. PICK y \in 1 .. Len(k.bytes) : x = Len(wire) + y
        <5>1. x - Len(wire) \in 1 .. Len(k.bytes) /\ x = Len(wire) + (x - Len(wire))
          BY <1>5, <1>7, <1>10, <3>2
        <5> QED
          BY <5>1
      <4>2. mark[r].bytes + x = Len(sent) + y
        <5>1. Len(wire) = Len(sent) - mark[r].bytes /\ mark[r].bytes \in Nat
          BY <2>1, <2>2
        <5>2. Len(wire) \in Int /\ Len(sent) \in Int /\ y \in Int /\ mark[r].bytes \in Int
          BY <1>7, <4>1, <5>1
        <5> DEFINE u == Len(wire)
                   v == Len(sent)
                   w == mark[r].bytes
        <5>3. u = v - w /\ u \in Int /\ v \in Int /\ w \in Int
          BY <5>1, <5>2
        <5> HIDE DEF u, v, w
        <5>4. w + (u + y) = v + y
          BY <5>2, <5>3
        <5> QED
          BY <4>1, <5>4, Zenon DEF u, v, w
      <4> QED
        BY <1>9, <1>10, <4>1, <4>2
    <3> QED
      BY <1>5, <1>7, <1>10, <3>1, <3>2
  <2>7. ends' = {mark2[i].bytes - mark[r].bytes : i \in r + 1 .. Len(log2)}
    <3>1. mark2[N].bytes - mark[r].bytes = Len(wire')
      BY <1>9, <2>5
    <3>2. \A i \in r + 1 .. Len(log) : mark2[i] = mark[i]
      BY <1>7, <1>9, <2>1
    <3>3. r + 1 .. Len(log2) = (r + 1 .. Len(log)) \cup {N}
      BY <1>7, <1>9, <2>1
    <3>4. {mark2[i].bytes - mark[r].bytes : i \in r + 1 .. Len(log2)}
            = {mark2[i].bytes - mark[r].bytes : i \in r + 1 .. Len(log)}
                \cup {mark2[N].bytes - mark[r].bytes}
      BY <3>3, Zenon
    <3>5. {mark2[i].bytes - mark[r].bytes : i \in r + 1 .. Len(log)}
            = {mark[i].bytes - mark[r].bytes : i \in r + 1 .. Len(log)}
      BY <3>2
    <3>6. ends' = ends \cup {Len(wire')} /\ ends = {mark[i].bytes - mark[r].bytes : i \in r + 1 .. Len(log)}
      BY <1>11, <2>2
    <3> QED
      BY <3>1, <3>4, <3>5, <3>6, Zenon
  <2>8. \A x \in 1 .. in_len - head : sent2[mark[d].bytes + x] = sent[mark[d].bytes + x]
        \/ phase = "idle"
    <3> SUFFICES ASSUME phase # "idle", NEW x \in 1 .. in_len - head
                 PROVE  sent2[mark[d].bytes + x] = sent[mark[d].bytes + x]
      OBVIOUS
    <3>1. in_len - head = mark[r].bytes - mark[d].bytes
      BY <2>2
    <3> DEFINE v == Len(sent)
               w == mark[r].bytes
               o == mark[d].bytes
    <3>2. x \in 1 .. w - o /\ v \in Nat /\ w \in Nat /\ o \in Nat /\ o <= w /\ w <= v
      BY <1>7, <2>1, <3>1
    <3> HIDE DEF v, w, o
    <3>3. o + x \in 1 .. v
      BY <3>2
    <3> QED
      BY <1>9, <3>3 DEF o, v
  <2>9. /\ Len(pressed') = mark2[d].keys /\ \A j \in 1 .. mark2[d].keys : pressed'[j] = meant'[j]
        /\ terminal' = mark2[d].size
        /\ Len(wire') = Len(sent2) - mark2[r].bytes
        /\ \A x \in 1 .. Len(wire') : wire'[x] = sent2[mark2[r].bytes + x]
        /\ ends' = {mark2[i].bytes - mark2[r].bytes : i \in r + 1 .. Len(log2)}
    BY <1>6, <2>1, <2>2, <2>4, <2>5, <2>6, <2>7
  <2>10. /\ phase' = "idle" => d = r /\ in_buffer' = <<>>
         /\ phase' # "idle" => /\ phase' = "lexing"
                               /\ in_len' - head' = mark2[r].bytes - mark2[d].bytes
                               /\ \A x \in 1 .. in_len' - head' :
                                    in_buffer'[head' + x] = sent2[mark2[d].bytes + x]
    <3>1. in_len' = in_len
      BY <1>6 DEF in_len
    <3> QED
      BY <1>6, <2>1, <2>2, <2>8, <3>1
  <2> QED
    BY <2>3, <2>9, <2>10 DEF Accounted
<1> QED
  BY <1>6, <1>8, <1>13 DEF InOrder

(* Some more messages are read, each as a whole. *)
LEMMA InOrderRecv ==
  ASSUME TypeOK, InOrder, Recv
  PROVE  InOrder'
<1> SUFFICES ASSUME ~torn' PROVE InOrder'
  BY DEF InOrder
<1>1. PICK n \in Readable :
        /\ in_buffer' = in_buffer \o SubSeq(wire, 1, n)
        /\ wire' = SubSeq(wire, n + 1, Len(wire))
        /\ ends' = {e - n : e \in {e \in ends : e > n}}
        /\ torn' = (torn \/ n \notin ends)
  BY DEF Recv
<1>2. ~torn /\ n \in ends
  BY <1>1
<1>3. PICK log, mark, sent : \E d, r : Recorded(log, mark, sent) /\ Accounted(log, mark, sent, d, r)
  BY <1>2 DEF InOrder
<1>4. PICK d, r : Recorded(log, mark, sent) /\ Accounted(log, mark, sent, d, r)
  BY <1>3
<1>5. /\ phase = "idle" /\ phase' = "lexing" /\ head' = 0
      /\ UNCHANGED <<pressed, terminal, meant, meantSize>>
  BY DEF Recv, userVars
<1>6. /\ r \in 0 .. Len(log) /\ d = r /\ in_buffer = <<>> /\ Len(log) \in Nat
      /\ Len(pressed) = mark[d].keys /\ \A j \in 1 .. mark[d].keys : pressed[j] = meant[j]
      /\ terminal = mark[d].size
      /\ Len(wire) = Len(sent) - mark[r].bytes
      /\ \A x \in 1 .. Len(wire) : wire[x] = sent[mark[r].bytes + x]
      /\ ends = {mark[i].bytes - mark[r].bytes : i \in r + 1 .. Len(log)}
      /\ Len(sent) \in Nat
  BY <1>4, <1>5 DEF Accounted, Recorded
<1>7. PICK i \in r + 1 .. Len(log) : n = mark[i].bytes - mark[r].bytes
  BY <1>2, <1>6
<1>8. i \in 0 .. Len(log) /\ i \in Nat /\ d \in 0 .. i
  BY <1>6
<1>9. /\ \A j \in 0 .. Len(log) : mark[j].bytes \in Int
      /\ mark[i].bytes <= Len(sent) /\ mark[r].bytes \in Nat
  <2>1. \A j \in 0 .. Len(log) : mark[j].bytes \in Nat /\ mark[j].bytes <= Len(sent)
    BY <1>4, MarksInRange
  <2> QED
    BY <1>6, <1>8, <2>1
<1>10. wire \in Seq(Byte) /\ Len(wire) \in Nat /\ n \in 1 .. Len(wire)
  BY DEF TypeOK, Readable
<1>11. /\ Len(in_buffer') = n
       /\ \A x \in 1 .. n : in_buffer'[x] = wire[x]
  <2>1. SubSeq(wire, 1, n) \in Seq(Byte)
    BY <1>10
  <2>2. in_buffer' = SubSeq(wire, 1, n)
    BY <1>1, <1>6, <2>1
  <2> QED
    BY <1>10, <2>2
<1>12. /\ Len(wire') = Len(wire) - n
       /\ \A x \in 1 .. Len(wire) - n : wire'[x] = wire[n + x]
  BY <1>1, <1>10
<1>13. Recorded(log, mark, sent)'
  BY <1>4, <1>5 DEF Recorded
<1>14. Accounted(log, mark, sent, d, i)'
  <2>1. mark[r].bytes \in Int /\ mark[i].bytes \in Int /\ mark[r].bytes + n = mark[i].bytes
    BY <1>6, <1>7, <1>8, <1>9
  <2>2. Len(wire') = Len(sent) - mark[i].bytes
    <3>1. Len(wire) = Len(sent) - mark[r].bytes
      BY <1>6
    <3>2. Len(wire) \in Int /\ Len(sent) \in Int /\ n \in Int /\ mark[r].bytes \in Int
      BY <1>6, <1>10, <2>1
    <3> DEFINE u == Len(wire)
               v == Len(sent)
               w == mark[r].bytes
    <3>3. u = v - w /\ u \in Int /\ v \in Int /\ w \in Int
      BY <3>1, <3>2
    <3> HIDE DEF u, v, w
    <3>4. u - n = v - (w + n)
      BY <3>2, <3>3
    <3> QED
      BY <1>12, <2>1, <3>4 DEF u, v, w
  <2>3. ASSUME NEW x \in 1 .. Len(wire')
        PROVE  wire'[x] = sent[mark[i].bytes + x]
    <3>1. x \in 1 .. Len(wire) - n /\ n + x \in 1 .. Len(wire)
      BY <1>10, <1>12
    <3>2. wire'[x] = sent[mark[r].bytes + (n + x)]
      BY <1>6, <1>12, <3>1
    <3>3. mark[r].bytes + (n + x) = mark[i].bytes + x
      <4>1. x \in Int /\ n \in Int
        BY <1>10
      <4> QED
        BY <2>1, <4>1
    <3> QED
      BY <3>2, <3>3
  <2>4. ends' = {mark[j].bytes - mark[i].bytes : j \in i + 1 .. Len(log)}
    <3>1. ASSUME NEW e \in ends, e > n
          PROVE  e - n \in {mark[j].bytes - mark[i].bytes : j \in i + 1 .. Len(log)}
      <4>1. PICK j \in r + 1 .. Len(log) : e = mark[j].bytes - mark[r].bytes
        BY <1>6
      <4>2. j \in 0 .. Len(log) /\ mark[j].bytes \in Int
        BY <1>6, <1>9
      <4>3. mark[j].bytes > mark[i].bytes /\ e - n = mark[j].bytes - mark[i].bytes
        BY <1>7, <2>1, <3>1, <4>1, <4>2
      <4>4. j > i
        <5>1. i # j /\ ~(j < i)
          BY <1>4, <1>8, <2>1, <4>2, <4>3 DEF Recorded
        <5> QED
          BY <1>8, <4>2, <5>1
      <4>5. j \in i + 1 .. Len(log)
        BY <1>8, <4>2, <4>4
      <4> QED
        BY <4>3, <4>5
    <3>2. ASSUME NEW j \in i + 1 .. Len(log)
          PROVE  \E e \in ends : e > n /\ mark[j].bytes - mark[i].bytes = e - n
      <4>1. j \in r + 1 .. Len(log) /\ j \in 0 .. Len(log) /\ i < j
        BY <1>6, <1>8
      <4>2. mark[j].bytes \in Int /\ mark[i].bytes < mark[j].bytes
        BY <1>4, <1>8, <1>9, <4>1 DEF Recorded
      <4>3. mark[j].bytes - mark[r].bytes \in ends
        BY <1>6, <4>1
      <4>4. /\ mark[j].bytes - mark[r].bytes > n
            /\ mark[j].bytes - mark[i].bytes = mark[j].bytes - mark[r].bytes - n
        BY <1>7, <2>1, <4>2
      <4> QED
        BY <4>3, <4>4
    <3> QED
      BY <1>1, <3>1, <3>2
  <2>5. ASSUME NEW x \in 1 .. n
        PROVE  in_buffer'[x] = sent[mark[d].bytes + x]
    BY <1>6, <1>10, <1>11
  <2>6. in_len' - head' = mark[i].bytes - mark[d].bytes /\ in_len' - head' = n
    BY <1>5, <1>6, <1>7, <1>10, <1>11 DEF in_len
  <2>7. \A x \in 1 .. in_len' - head' : in_buffer'[head' + x] = sent[mark[d].bytes + x]
    BY <1>5, <1>10, <2>5, <2>6
  <2> QED
    BY <1>5, <1>6, <1>8, <2>2, <2>3, <2>4, <2>6, <2>7 DEF Accounted
<1> QED
  BY <1>13, <1>14 DEF InOrder

(* One message after the other is decoded. *)
LEMMA InOrderLex ==
  ASSUME Decodable, TypeOK, InOrder, Lex
  PROVE  InOrder'
<1> SUFFICES ASSUME ~torn PROVE InOrder'
  BY DEF Lex, wireVars, InOrder
<1>1. PICK log, mark, sent : \E d, r : Recorded(log, mark, sent) /\ Accounted(log, mark, sent, d, r)
  BY DEF InOrder
<1>2. PICK d, r : Recorded(log, mark, sent) /\ Accounted(log, mark, sent, d, r)
  BY <1>1
<1> DEFINE res == parse_message(in_buffer, head)
<1>3. /\ phase = "lexing" /\ head' = res.head
      /\ phase' = IF res.res = "unfinished" THEN "finishing" ELSE "lexing"
      /\ pressed' = pressed \o res.keys
      /\ terminal' = IF res.size = <<>> THEN terminal ELSE res.size
      /\ UNCHANGED <<wire, ends, torn, in_buffer, meant, meantSize>>
  BY DEF Lex, wireVars, userVars
<1>4. in_buffer \in Seq(Byte) /\ in_len \in Nat /\ head \in Nat /\ head < in_len
  BY DEF TypeOK, Lex, Ends, in_len
<1> HIDE DEF res
<1>5. /\ r \in 0 .. Len(log) /\ d \in 0 .. r /\ Len(log) \in Nat /\ log \in Seq(Messages)
      /\ Len(pressed) = mark[d].keys /\ \A j \in 1 .. mark[d].keys : pressed[j] = meant[j]
      /\ terminal = mark[d].size
      /\ in_len - head = mark[r].bytes - mark[d].bytes
      /\ \A x \in 1 .. in_len - head : in_buffer[head + x] = sent[mark[d].bytes + x]
  BY <1>2, <1>3 DEF Accounted, Recorded
<1>6. d \in 0 .. Len(log) /\ mark[d].bytes \in Nat /\ mark[r].bytes \in Nat /\ mark[d].keys \in Nat
  BY <1>2, <1>5, MarksInRange
<1>7. d < r /\ d + 1 \in 1 .. Len(log) /\ d + 1 \in 0 .. r /\ d + 1 \in 0 .. Len(log)
  <2>1. d # r
    BY <1>4, <1>5, <1>6
  <2> QED
    BY <1>5, <1>6, <2>1
<1> DEFINE k == log[d + 1]
<1>8. /\ k \in Messages /\ k.bytes # <<>>
      /\ Len(k.bytes) \in Nat \ {0} /\ Len(k.keys) \in Nat /\ k.keys \in Seq(KeyStroke)
  BY <1>5, <1>7, MessageTypes
<1>9. /\ mark[d + 1].bytes = mark[d].bytes + Len(k.bytes)
      /\ mark[d + 1].keys = mark[d].keys + Len(k.keys)
      /\ mark[d + 1].size = IF k.size = <<>> THEN mark[d].size ELSE k.size
      /\ Holds(sent, mark[d].bytes, k.bytes) /\ Holds(meant, mark[d].keys, k.keys)
  <2>1. d \in Nat
    BY <1>6
  <2> QED
    BY <1>2, <1>7, <2>1, MessageRecorded
<1>10. mark[d + 1].bytes \in Nat /\ (d + 1 = r \/ mark[d + 1].bytes < mark[r].bytes)
  <2>1. mark[d + 1].bytes \in Nat
    BY <1>2, <1>7, MarksInRange
  <2>2. d + 1 = r \/ (d + 1 < r /\ d + 1 \in 0 .. Len(log) /\ r \in 0 .. Len(log))
    BY <1>5, <1>7
  <2> QED
    BY <1>2, <2>1, <2>2 DEF Recorded
<1> HIDE DEF k
<1>11. /\ head + Len(k.bytes) <= in_len
       /\ head + Len(k.bytes) < in_len => d + 1 # r
       /\ in_len - (head + Len(k.bytes)) = mark[r].bytes - mark[d + 1].bytes
  <2>1. /\ mark[d].bytes + Len(k.bytes) <= mark[r].bytes => head + Len(k.bytes) <= in_len
        /\ head + Len(k.bytes) < in_len => mark[d].bytes + Len(k.bytes) # mark[r].bytes
        /\ in_len - (head + Len(k.bytes)) = mark[r].bytes - (mark[d].bytes + Len(k.bytes))
    <3>1. /\ in_len \in Int /\ head \in Int /\ Len(k.bytes) \in Int
          /\ mark[d].bytes \in Int /\ mark[r].bytes \in Int
      BY <1>4, <1>6, <1>8
    <3>2. in_len - head = mark[r].bytes - mark[d].bytes
      BY <1>5
    <3> DEFINE u == in_len
               v == head
               w == mark[r].bytes
               x == mark[d].bytes
               z == Len(k.bytes)
    <3>3. u - v = w - x /\ u \in Int /\ v \in Int /\ w \in Int /\ x \in Int /\ z \in Int
      BY <3>1, <3>2
    <3> HIDE DEF u, v, w, x, z
    <3>4. /\ x + z <= w => v + z <= u
          /\ v + z < u => x + z # w
          /\ u - (v + z) = w - (x + z)
      BY <3>3
    <3> QED
      BY <3>4, Zenon DEF u, v, w, x, z
  <2>2. mark[d + 1].bytes <= mark[r].bytes
    BY <1>6, <1>10
  <2> QED
    BY <1>9, <2>1, <2>2
<1>12. Holds(in_buffer, head, k.bytes)
  <2>1. ASSUME NEW j \in 1 .. Len(k.bytes)
        PROVE  in_buffer[head + j] = k.bytes[j]
    <3>1. j \in 1 .. in_len - head
      BY <1>4, <1>8, <1>11
    <3> QED
      BY <1>5, <1>9, <3>1 DEF Holds
  <2> QED
    BY <1>11, <2>1 DEF Holds, in_len
<1>13. ASSUME head + Len(k.bytes) < in_len
       PROVE  \E l \in Messages : in_buffer[head + Len(k.bytes) + 1] = l.bytes[1]
  <2>1. d + 1 < r /\ d + 2 \in 1 .. Len(log) /\ d + 2 - 1 = d + 1
    BY <1>5, <1>6, <1>7, <1>11, <1>13
  <2> DEFINE l == log[d + 2]
  <2>2. l \in Messages /\ Len(l.bytes) \in Nat \ {0}
    BY <1>5, <2>1, MessageTypes
  <2>3. Holds(sent, mark[d + 1].bytes, l.bytes)
    <3>1. d + 1 \in Nat /\ d + 1 + 1 = d + 2
      BY <1>6
    <3>2. Holds(sent, mark[d + 1].bytes, log[d + 1 + 1].bytes)
      BY <1>2, <2>1, <3>1, MessageRecorded
    <3> QED
      BY <3>1, <3>2
  <2> HIDE DEF l
  <2>4. sent[mark[d + 1].bytes + 1] = l.bytes[1]
    BY <2>2, <2>3 DEF Holds
  <2>5. Len(k.bytes) + 1 \in 1 .. in_len - head
    BY <1>4, <1>8, <1>13
  <2>6. in_buffer[head + (Len(k.bytes) + 1)] = sent[mark[d].bytes + (Len(k.bytes) + 1)]
    BY <1>5, <2>5
  <2>7. /\ head + (Len(k.bytes) + 1) = head + Len(k.bytes) + 1
        /\ mark[d].bytes + (Len(k.bytes) + 1) = mark[d + 1].bytes + 1
    <3> DEFINE v == head
               o == mark[d].bytes
               z == Len(k.bytes)
    <3>1. v \in Int /\ o \in Int /\ z \in Int
      BY <1>4, <1>6, <1>8
    <3> HIDE DEF v, o, z
    <3>2. v + (z + 1) = v + z + 1 /\ o + (z + 1) = o + z + 1
      BY <3>1
    <3> QED
      BY <1>9, <3>2, Zenon DEF v, o, z
  <2> QED
    BY <2>2, <2>4, <2>6, <2>7, Zenon
<1>14. /\ res.res # "unfinished" /\ res.head = head + Len(k.bytes)
       /\ res.keys = k.keys /\ res.size = k.size
  BY <1>4, <1>8, <1>12, <1>13 DEF Decodable, in_len, res
<1>15. Recorded(log, mark, sent)'
  BY <1>2, <1>3 DEF Recorded
<1>16. Accounted(log, mark, sent, d + 1, r)'
  <2>1. /\ Len(wire') = Len(sent) - mark[r].bytes
        /\ \A x \in 1 .. Len(wire') : wire'[x] = sent[mark[r].bytes + x]
        /\ ends' = {mark[i].bytes - mark[r].bytes : i \in r + 1 .. Len(log)}
    BY <1>2, <1>3 DEF Accounted
  <2>2. /\ Len(pressed') = mark[d].keys + Len(k.keys)
        /\ \A j \in 1 .. mark[d].keys : pressed'[j] = pressed[j]
        /\ \A j \in 1 .. Len(k.keys) : pressed'[mark[d].keys + j] = k.keys[j]
    <3>1. pressed \in Seq(KeyStroke) /\ pressed' = pressed \o k.keys
      BY <1>3, <1>14 DEF TypeOK
    <3>2. /\ Len(pressed') = Len(pressed) + Len(k.keys)
          /\ \A j \in 1 .. Len(pressed) : pressed'[j] = pressed[j]
          /\ \A j \in 1 .. Len(k.keys) : pressed'[Len(pressed) + j] = k.keys[j]
      BY <1>8, <3>1
    <3> QED
      BY <1>5, <3>2
  <2>3. ASSUME NEW j \in 1 .. mark[d + 1].keys
        PROVE  pressed'[j] = meant[j]
    <3>1. CASE j <= mark[d].keys
      BY <1>5, <1>6, <2>2, <3>1
    <3>2. CASE j > mark[d].keys
      <4>1. PICK x \in 1 .. Len(k.keys) : j = mark[d].keys + x
        <5> DEFINE u == mark[d].keys
                   z == Len(k.keys)
        <5>1. u \in Int /\ z \in Int /\ j > u /\ j \in 1 .. u + z
          BY <1>6, <1>8, <1>9, <3>2
        <5> HIDE DEF u, z
        <5>2. j - u \in 1 .. z /\ j = u + (j - u)
          BY <5>1
        <5>3. \E x \in 1 .. z : j = u + x
          BY <5>2
        <5> QED
          BY <5>3, Zenon DEF u, z
      <4> QED
        BY <1>9, <2>2, <4>1 DEF Holds
    <3> QED
      BY <1>6, <1>8, <1>9, <3>1, <3>2
  <2>4. terminal' = mark[d + 1].size
    BY <1>3, <1>5, <1>9, <1>14
  <2>5. in_len - head' = mark[r].bytes - mark[d + 1].bytes
    BY <1>3, <1>11, <1>14
  <2>6. ASSUME NEW x \in 1 .. in_len - head'
        PROVE  in_buffer[head' + x] = sent[mark[d + 1].bytes + x]
    <3> DEFINE u == in_len
               v == head
               z == Len(k.bytes)
    <3>1. z + x \in 1 .. u - v
      <4>1. u \in Int /\ v \in Int /\ z \in Nat /\ x \in 1 .. u - (v + z)
        BY <1>3, <1>4, <1>8, <1>14
      <4> HIDE DEF u, v, z
      <4> QED
        BY <4>1
    <3>2. in_buffer[head + (Len(k.bytes) + x)] = sent[mark[d].bytes + (Len(k.bytes) + x)]
      BY <1>5, <3>1
    <3>3. /\ head + (Len(k.bytes) + x) = head' + x
          /\ mark[d].bytes + (Len(k.bytes) + x) = mark[d + 1].bytes + x
      <4> DEFINE o == mark[d].bytes
      <4>1. v \in Int /\ o \in Int /\ z \in Int /\ x \in Int
        BY <1>3, <1>4, <1>6, <1>8, <1>14
      <4>2. head' = head + Len(k.bytes)
        BY <1>3, <1>14
      <4> HIDE DEF u, v, z, o
      <4>3. v + (z + x) = v + z + x /\ o + (z + x) = o + z + x
        BY <4>1
      <4> QED
        BY <1>9, <4>2, <4>3, Zenon DEF v, z, o
    <3> QED
      BY <3>2, <3>3, Zenon
  <2>7. phase' = "lexing" /\ in_buffer' = in_buffer /\ meant' = meant /\ in_len' = in_len
    BY <1>3, <1>14 DEF in_len
  <2> QED
    BY <1>5, <1>7, <1>9, <2>1, <2>2, <2>3, <2>4, <2>5, <2>6, <2>7 DEF Accounted
<1> QED
  BY <1>3, <1>15, <1>16 DEF InOrder

(* When a read has been decoded nothing of it is left. *)
LEMMA InOrderFinish ==
  ASSUME TypeOK, InOrder, Finish
  PROVE  InOrder'
<1> SUFFICES ASSUME ~torn PROVE InOrder'
  BY DEF Finish, wireVars, InOrder
<1>1. PICK log, mark, sent : \E d, r : Recorded(log, mark, sent) /\ Accounted(log, mark, sent, d, r)
  BY DEF InOrder
<1>2. PICK d, r : Recorded(log, mark, sent) /\ Accounted(log, mark, sent, d, r)
  BY <1>1
<1>3. /\ phase # "idle" /\ phase' = "idle" /\ in_buffer' = Remainder
      /\ UNCHANGED <<wire, ends, torn, pressed, terminal, meant, meantSize>>
  BY DEF Finish, wireVars, userVars
<1>4. /\ r \in 0 .. Len(log) /\ d \in 0 .. r /\ phase = "lexing" /\ Len(log) \in Nat
      /\ in_len - head = mark[r].bytes - mark[d].bytes
  BY <1>2, <1>3 DEF Accounted, Recorded
<1>5. Ends(in_buffer, head)
  BY <1>4 DEF Finish
<1>6. in_buffer' = <<>>
  BY <1>3, <1>5 DEF Remainder
<1>7. in_len - head = 0
  BY <1>5 DEF Ends, TypeOK, in_len
<1>8. d = r
  <2>1. d \in 0 .. Len(log) /\ mark[d].bytes \in Nat /\ mark[r].bytes \in Nat
    BY <1>2, <1>4, MarksInRange
  <2>2. ~(mark[d].bytes < mark[r].bytes)
    BY <1>4, <1>7, <2>1
  <2>3. ~(d < r)
    BY <1>2, <1>4, <2>1, <2>2 DEF Recorded
  <2> QED
    BY <1>4, <2>3
<1>9. Recorded(log, mark, sent)'
  BY <1>2, <1>3 DEF Recorded
<1>10. Accounted(log, mark, sent, d, r)'
  BY <1>2, <1>3, <1>6, <1>8 DEF Accounted
<1> QED
  BY <1>3, <1>9, <1>10 DEF InOrder

LEMMA InOrderStep ==
  Decodable /\ TypeOK /\ InOrder /\ [Next]_vars => InOrder'
<1>1. ASSUME InOrder, UNCHANGED vars
      PROVE  InOrder'
  <2>1. \A log, mark, sent, d, r :
          /\ Recorded(log, mark, sent)' = Recorded(log, mark, sent)
          /\ Accounted(log, mark, sent, d, r)' = Accounted(log, mark, sent, d, r)
    BY <1>1 DEF Recorded, Accounted, vars, wireVars, lexVars, userVars, in_len
  <2>2. torn' = torn
    BY <1>1 DEF vars, wireVars
  <2> QED
    BY <1>1, <2>1, <2>2 DEF InOrder
<1> QED
  BY <1>1, InOrderSend, InOrderRecv, InOrderLex, InOrderFinish DEF Next

(* The end of the account. *)
LEMMA DecodedInTheEnd ==
  TypeOK /\ InOrder => KeysDecoded
<1> SUFFICES ASSUME TypeOK, InOrder, ~torn, phase = "idle", wire = <<>>
             PROVE  pressed = meant /\ terminal = meantSize
  BY DEF KeysDecoded
<1>1. PICK log, mark, sent : \E d, r : Recorded(log, mark, sent) /\ Accounted(log, mark, sent, d, r)
  BY DEF InOrder
<1>2. PICK d, r : Recorded(log, mark, sent) /\ Accounted(log, mark, sent, d, r)
  BY <1>1
<1>3. /\ Len(log) \in Nat /\ r \in 0 .. Len(log) /\ d = r /\ Len(sent) \in Nat
      /\ mark[Len(log)] = [bytes |-> Len(sent), keys |-> Len(meant), size |-> meantSize]
      /\ \A i, j \in 0 .. Len(log) :
           i < j => mark[i].bytes < mark[j].bytes /\ mark[i].keys <= mark[j].keys
      /\ mark[r].bytes \in Nat /\ Len(wire) = Len(sent) - mark[r].bytes
  <2>1. Len(log) \in Nat /\ r \in 0 .. Len(log) /\ d = r /\ Len(sent) \in Nat
    BY <1>2 DEF Recorded, Accounted
  <2>2. mark[r].bytes \in Nat /\ Len(wire) = Len(sent) - mark[r].bytes
    BY <1>2, <2>1, MarksInRange DEF Accounted
  <2> QED
    BY <1>2, <2>1, <2>2 DEF Recorded
<1>4. mark[r].bytes = Len(sent)
  BY <1>3
<1>5. r = Len(log)
  BY <1>3, <1>4
<1>6. /\ Len(pressed) = Len(meant) /\ terminal = meantSize
      /\ \A j \in 1 .. Len(meant) : pressed[j] = meant[j]
  BY <1>2, <1>3, <1>5 DEF Accounted
<1>7. pressed \in Seq(KeyStroke) /\ meant \in Seq(KeyStroke)
  BY DEF TypeOK
<1> QED
  BY <1>6, <1>7

(***************************************************************************)
(* Whatever a terminal sends, as long as each of its messages by itself is *)
(* decoded to what it means: however many of them one read holds, the key  *)
(* strokes passed to game_input are those meant, in order, and the size is *)
(* the last reported (client_telnet_receive).                              *)
(***************************************************************************)
THEOREM WholeMessagesDecoded ==
  ASSUME Decodable
  PROVE  Spec => []KeysDecoded
  BY InOrderInit, InOrderStep, DecodedInTheEnd, TypeCorrect, PTL DEF Spec

-----------------------------------------------------------------------------
(* What terminals send: xterm's sequences and telnet's reports of sizes *)

Stroke(bytes, key) == [bytes |-> bytes, keys |-> <<key>>, size |-> <<>>]

Characters ==
  {Stroke(<<c>>, Plain(c)) : c \in Byte \ ({ESC, IAC} \cup (1 .. 26) \cup (65 .. 90))}
    \cup {Stroke(<<9>>, Plain(KEY_TAB))}
    \cup {Stroke(<<l - 96>>, [Plain(l) EXCEPT !.ctrl = TRUE]) : l \in 97 .. 122 \ {105}}
    \cup {Stroke(<<l - 32>>, [Plain(l) EXCEPT !.shift = TRUE]) : l \in 97 .. 122}

Escape == Stroke(<<ESC>>, Plain(KEY_ESCAPE))

Letters ==
  {Stroke(<<ESC, CSI, e[1]>>, Plain(e[2])) : e \in csiKeys}
    \cup {Stroke(<<ESC, SS3, e[1]>>, Plain(e[2])) : e \in ss3Keys}

(* ESC [ and a number below 100 *)
CsiNumber(n) ==
  IF n < 10 THEN <<ESC, CSI, 48 + n>> ELSE <<ESC, CSI, 48 + (n \div 10), 48 + (n % 10)>>

(* Shift, alt and ctrl, each 0 or 1, are sent as a number, and what it means. *)
Modifiers(s, a, c) == 1 + s + 2 * a + 4 * c
With(k, s, a, c) == [key |-> k, shift |-> s = 1, alt |-> a = 1, ctrl |-> c = 1]

Tildes ==
  {Stroke(CsiNumber(e[1]) \o <<TILDE>>, Plain(e[2])) : e \in tildeKeys \cup {<<1, KEY_HOME>>}}

ModifiedLetter(e, s, a, c) ==
  Stroke(CsiNumber(1) \o <<SEMICOLON, 48 + Modifiers(s, a, c), e[1]>>, With(e[2], s, a, c))
ModifiedLetters ==
  {ModifiedLetter(e, s, a, c) : e \in csiKeys, s \in {0, 1}, a \in {0, 1}, c \in {0, 1}}

ModifiedTilde(e, s, a, c) ==
  Stroke(CsiNumber(e[1]) \o <<SEMICOLON, 48 + Modifiers(s, a, c), TILDE>>, With(e[2], s, a, c))
ModifiedTildes ==
  {ModifiedTilde(e, s, a, c) : e \in tildeKeys, s \in {0, 1}, a \in {0, 1}, c \in {0, 1}}

(* Without the byte 255, which telnet doubles and the lexer does not expect twice. *)
NotDoubled == 0 .. 254
SizeReported(w1, w2, h1, h2) ==
  [bytes |-> <<IAC, 250, 31, w1, w2, h1, h2, IAC, 240>>, keys |-> <<>>,
   size |-> <<256 * w1 + w2, 256 * h1 + h2>>]
SizeReports ==
  {SizeReported(w1, w2, h1, h2) :
     w1 \in NotDoubled, w2 \in NotDoubled, h1 \in NotDoubled, h2 \in NotDoubled}

(* Sequences of keys the lexer does not know: a final byte after ESC [ or after
   one number. *)
Nothing(bytes) == [bytes |-> bytes, keys |-> <<>>, size |-> <<>>]
CsiNumbers == 1 .. 99
Finals == 64 .. 126   \* to the TILDE
UnknownLetter(c) == Nothing(<<ESC, CSI, c>>)
UnknownNumber(n, c) == Nothing(CsiNumber(n) \o <<c>>)
Unknowns ==
  {UnknownLetter(c) : c \in {x \in Finals : ~Known(csiKeys, x)}}
    \cup {UnknownNumber(n, c) : n \in CsiNumbers, c \in Finals \ {TILDE}}

WholeMessages ==
  UNION {Characters, Letters, Tildes, ModifiedLetters, ModifiedTildes, SizeReports, Unknowns}

(* The lexer takes m for what it means, whatever follows. *)
Decoded(m) ==
  \A b \in Seq(Byte), h \in Nat :
    Holds(b, h, m.bytes) =>
      LET r == parse_message(b, h)
      IN  /\ r.res # "unfinished" /\ r.head = h + Len(m.bytes)
          /\ r.keys = m.keys /\ r.size = m.size

(* A result that reports a key stroke. *)
LEMMA StrokeDecoded ==
  ASSUME NEW bytes, NEW key,
         \A b \in Seq(Byte), h \in Nat :
           Holds(b, h, bytes) => parse_message(b, h) = Ok(h + Len(bytes), key)
  PROVE  Decoded(Stroke(bytes, key))
<1>1. /\ Stroke(bytes, key).bytes = bytes /\ Stroke(bytes, key).keys = <<key>>
      /\ Stroke(bytes, key).size = <<>>
  BY DEF Stroke
<1>2. \A k : Ok(k, key) = [res |-> "ok", head |-> k, keys |-> <<key>>, size |-> <<>>]
  BY DEF Ok, Result
<1>3. ASSUME NEW b \in Seq(Byte), NEW h \in Nat, Holds(b, h, bytes)
      PROVE  /\ parse_message(b, h).res # "unfinished" /\ parse_message(b, h).head = h + Len(bytes)
             /\ parse_message(b, h).keys = <<key>> /\ parse_message(b, h).size = <<>>
  <2>1. parse_message(b, h)
          = [res |-> "ok", head |-> h + Len(bytes), keys |-> <<key>>, size |-> <<>>]
    BY <1>2, <1>3
  <2> QED
    BY <2>1
<1> QED
  BY <1>1, <1>3 DEF Decoded

LEMMA CharactersDecoded == \A m \in Characters : Decoded(m)
<1>1. ASSUME NEW c \in Byte \ {ESC, IAC}, NEW key,
             \A b, h : b[h + 1] = c => parse_simple_character(b, h) = Ok(h + 1, key)
      PROVE  Decoded(Stroke(<<c>>, key))
  <2>1. ASSUME NEW b \in Seq(Byte), NEW h \in Nat, Holds(b, h, <<c>>)
        PROVE  parse_message(b, h) = Ok(h + 1, key)
    <3>1. b[h + 1] = c
      BY <2>1 DEF Holds
    <3> QED
      BY <1>1, <3>1 DEF parse_message
  <2> QED
    BY <2>1, StrokeDecoded
<1>2. ASSUME NEW c \in Byte \ ({ESC, IAC} \cup (1 .. 26) \cup (65 .. 90))
      PROVE  Decoded(Stroke(<<c>>, Plain(c)))
  <2>1. c # 9 /\ c \notin 1 .. 26 \ {9} /\ c \notin 65 .. 90 /\ c \in Byte \ {ESC, IAC}
    OBVIOUS
  <2>2. \A b, h : b[h + 1] = c => parse_simple_character(b, h) = Ok(h + 1, Plain(c))
    BY <2>1 DEF parse_simple_character
  <2> QED
    BY <1>1, <2>1, <2>2
<1>3. Decoded(Stroke(<<9>>, Plain(KEY_TAB)))
  <2>1. 9 \in Byte \ {ESC, IAC}
    BY DEF Byte, ESC, IAC
  <2>2. \A b, h : b[h + 1] = 9 => parse_simple_character(b, h) = Ok(h + 1, Plain(KEY_TAB))
    BY DEF parse_simple_character
  <2> QED
    BY <1>1, <2>1, <2>2
<1>4. ASSUME NEW l \in 97 .. 122 \ {105}
      PROVE  Decoded(Stroke(<<l - 96>>, [Plain(l) EXCEPT !.ctrl = TRUE]))
  <2> DEFINE c == l - 96
  <2>1. /\ c \in Byte \ {ESC, IAC} /\ c # 9 /\ c \in 1 .. 26 \ {9}
        /\ c \notin 65 .. 90 /\ c + 96 = l
    BY DEF Byte, ESC, IAC
  <2> HIDE DEF c
  <2>2. \A b, h : b[h + 1] = c
                   => parse_simple_character(b, h) = Ok(h + 1, [Plain(c + 96) EXCEPT !.ctrl = TRUE])
    BY <2>1 DEF parse_simple_character
  <2>3. Decoded(Stroke(<<c>>, [Plain(l) EXCEPT !.ctrl = TRUE]))
    BY <1>1, <2>1, <2>2
  <2> QED
    BY <2>3 DEF c
<1>5. ASSUME NEW l \in 97 .. 122
      PROVE  Decoded(Stroke(<<l - 32>>, [Plain(l) EXCEPT !.shift = TRUE]))
  <2> DEFINE c == l - 32
  <2>1. /\ c \in Byte \ {ESC, IAC} /\ c # 9 /\ c \notin 1 .. 26 \ {9}
        /\ c \in 65 .. 90 /\ c + 32 = l
    BY DEF Byte, ESC, IAC
  <2> HIDE DEF c
  <2>2. \A b, h : b[h + 1] = c
                   => parse_simple_character(b, h) = Ok(h + 1, [Plain(c + 32) EXCEPT !.shift = TRUE])
    BY <2>1 DEF parse_simple_character
  <2>3. Decoded(Stroke(<<c>>, [Plain(l) EXCEPT !.shift = TRUE]))
    BY <1>1, <2>1, <2>2
  <2> QED
    BY <2>3 DEF c
<1> SUFFICES ASSUME NEW m \in Characters PROVE Decoded(m)
  OBVIOUS
<1>6. CASE \E c \in Byte \ ({ESC, IAC} \cup (1 .. 26) \cup (65 .. 90)) :
             m = Stroke(<<c>>, Plain(c))
  BY <1>2, <1>6, Zenon
<1>7. CASE m = Stroke(<<9>>, Plain(KEY_TAB))
  BY <1>3, <1>7, Zenon
<1>8. CASE \E l \in 97 .. 122 \ {105} : m = Stroke(<<l - 96>>, [Plain(l) EXCEPT !.ctrl = TRUE])
  BY <1>4, <1>8, Zenon
<1>9. CASE \E l \in 97 .. 122 : m = Stroke(<<l - 32>>, [Plain(l) EXCEPT !.shift = TRUE])
  BY <1>5, <1>9, Zenon
<1> QED
  BY <1>6, <1>7, <1>8, <1>9, Zenon DEF Characters

(* Where parse_number stops, and what it has read by then. *)
LEMMA NumberEndIs ==
  ASSUME NEW b \in Seq(Byte), NEW h \in Nat, NEW e \in h .. Len(b), e < Len(b),
         ~IsDigit(b[e + 1]), \A k \in h .. e - 1 : IsDigit(b[k + 1])
  PROVE  NumberEnd(b, h) = e
<1> DEFINE Right(x) == /\ x = Len(b) \/ ~IsDigit(b[x + 1])
                       /\ \A k \in h .. x - 1 : IsDigit(b[k + 1])
           stop == CHOOSE x \in h .. Len(b) : Right(x)
<1>1. Right(e)
  OBVIOUS
<1>2. NumberEnd(b, h) = stop
  BY DEF NumberEnd
<1>3. stop \in h .. Len(b) /\ Right(stop)
  <2> HIDE DEF Right
  <2> QED
    BY <1>1
<1> HIDE DEF stop
<1>4. /\ stop = Len(b) \/ ~IsDigit(b[stop + 1])
      /\ \A k \in h .. stop - 1 : IsDigit(b[k + 1])
  BY <1>3
<1>5. ~(stop < e)
  <2> SUFFICES ASSUME stop < e PROVE FALSE
    OBVIOUS
  <2>1. stop \in h .. e - 1
    BY <1>3
  <2> QED
    BY <1>4, <2>1
<1>6. ~(e < stop)
  <2> SUFFICES ASSUME e < stop PROVE FALSE
    OBVIOUS
  <2>1. e \in h .. stop - 1
    BY <1>3
  <2> QED
    BY <1>4, <2>1
<1> QED
  BY <1>2, <1>3, <1>5, <1>6

(* Numbers as small as those of keys and modifiers fit an int. *)
LEMMA SmallFits ==
  ASSUME NEW n \in 0 .. 255
  PROVE  Wrap(n) = n
<1>1. INT_MAX \in Nat /\ INT_MAX + 1 \in Nat \ {0} /\ (INT_MAX + 1) % 256 = 0
  BY TelnetAssumption
<1>2. INT_MAX + 1 >= 256
  BY <1>1
<1>3. n \in -INT_MAX - 1 .. INT_MAX
  BY <1>1, <1>2
<1> QED
  BY <1>3 DEF Wrap

LEMMA NumberIs ==
  ASSUME NEW b \in Seq(Byte), NEW h \in Nat
  PROVE  /\ Number(b, h, h) = 0
         /\ Number(b, h, h + 1) = Wrap(10 * 0 + b[h + 1] - 48)
         /\ Number(b, h, h + 2) = Wrap(10 * Wrap(10 * 0 + b[h + 1] - 48) + b[h + 2] - 48)
<1> DEFINE Eq(f, e) == f = [k \in h .. e |->
                         IF k = h THEN 0 ELSE Wrap(10 * f[k - 1] + b[k] - 48)]
           read(e) == CHOOSE f : Eq(f, e)
           one == Wrap(10 * 0 + b[h + 1] - 48)
           two == Wrap(10 * one + b[h + 2] - 48)
           w == [k \in h .. h + 2 |-> IF k = h THEN 0 ELSE IF k = h + 1 THEN one ELSE two]
<1>1. ASSUME NEW e \in h .. h + 2
      PROVE  Eq(read(e), e)
  <2> DEFINE f == [k \in h .. e |-> w[k]]
  <2>1. ASSUME NEW k \in h .. e
        PROVE  f[k] = IF k = h THEN 0 ELSE Wrap(10 * f[k - 1] + b[k] - 48)
    <3>1. CASE k = h
      BY <3>1
    <3>2. CASE k = h + 1
      <4>1. k - 1 = h /\ k # h /\ h \in h .. e
        BY <3>2
      <4> QED
        BY <3>2, <4>1
    <3>3. CASE k = h + 2
      <4>1. k - 1 = h + 1 /\ k # h /\ k # h + 1 /\ h + 1 \in h .. e /\ h + 1 # h
        BY <3>3
      <4> QED
        BY <3>3, <4>1
    <3> QED
      BY <3>1, <3>2, <3>3
  <2>2. Eq(f, e)
    BY <2>1
  <2> HIDE DEF f, Eq
  <2> QED
    BY <2>2
<1>2. ASSUME NEW e \in h .. h + 2
      PROVE  Number(b, h, e) = read(e)[e]
  BY DEF Number
<1>3. read(h)[h] = 0
  <2>1. h \in h .. h + 2
    OBVIOUS
  <2>2. Eq(read(h), h)
    BY <1>1, <2>1
  <2> HIDE DEF read
  <2> QED
    BY <2>1, <2>2
<1>4. read(h + 1)[h + 1] = one
  <2>1. Eq(read(h + 1), h + 1)
    BY <1>1
  <2> HIDE DEF read
  <2>2. read(h + 1)[h] = 0 /\ read(h + 1)[h + 1] = Wrap(10 * read(h + 1)[h + 1 - 1] + b[h + 1] - 48)
    BY <2>1
  <2>3. h + 1 - 1 = h
    OBVIOUS
  <2> QED
    BY <2>2, <2>3
<1>5. read(h + 2)[h + 2] = two
  <2> HIDE DEF Eq, read
  <2>1. h + 2 \in h .. h + 2
    OBVIOUS
  <2>2. Eq(read(h + 2), h + 2)
    BY <1>1, <2>1
  <2> USE DEF Eq
  <2>3. /\ read(h + 2)[h] = 0
        /\ read(h + 2)[h + 1] = Wrap(10 * read(h + 2)[h + 1 - 1] + b[h + 1] - 48)
        /\ read(h + 2)[h + 2] = Wrap(10 * read(h + 2)[h + 2 - 1] + b[h + 2] - 48)
    BY <2>2
  <2>4. h + 1 - 1 = h /\ h + 2 - 1 = h + 1
    OBVIOUS
  <2> QED
    BY <2>3, <2>4
<1> HIDE DEF read
<1> QED
  BY <1>2, <1>3, <1>4, <1>5

(* No code is in a table twice. *)
LEMMA KeysFound ==
  /\ \A e \in csiKeys : Known(csiKeys, e[1]) /\ KeyOf(csiKeys, e[1]) = e[2]
  /\ \A e \in ss3Keys : Known(ss3Keys, e[1]) /\ KeyOf(ss3Keys, e[1]) = e[2]
  /\ \A e \in tildeKeys : Known(tildeKeys, e[1]) /\ KeyOf(tildeKeys, e[1]) = e[2]
<1>1. ASSUME NEW table, \A d, e \in table : d[1] = e[1] => d[2] = e[2], NEW e \in table
      PROVE  Known(table, e[1]) /\ KeyOf(table, e[1]) = e[2]
  <2>1. /\ (CHOOSE d \in table : d[1] = e[1]) \in table
        /\ (CHOOSE d \in table : d[1] = e[1])[1] = e[1]
    OBVIOUS
  <2> QED
    BY <1>1, <2>1 DEF Known, KeyOf
<1>2. \A d, e \in csiKeys : d[1] = e[1] => d[2] = e[2]
  BY DEF csiKeys, ss3Keys
<1>3. \A d, e \in ss3Keys : d[1] = e[1] => d[2] = e[2]
  BY DEF ss3Keys
<1>4. \A d, e \in tildeKeys : d[1] = e[1] => d[2] = e[2]
  BY DEF tildeKeys
<1> QED
  BY <1>1, <1>2, <1>3, <1>4

(* What parse_modifier makes of a number. *)
LEMMA ModifiedIs ==
  ASSUME NEW k, NEW s \in {0, 1}, NEW a \in {0, 1}, NEW c \in {0, 1}
  PROVE  /\ Modifiers(s, a, c) \in 1 .. 8
         /\ Modified(k, Modifiers(s, a, c)) = With(k, s, a, c)
         /\ Modified(k, 1) = Plain(k)
<1> DEFINE m == Modifiers(s, a, c)
<1>1. /\ (m - 1) % 2 = 1 <=> s = 1
      /\ ((m - 1) \div 2) % 2 = 1 <=> a = 1
      /\ ((m - 1) \div 4) % 2 = 1 <=> c = 1
  <2>1. CASE a = 0 /\ c = 0
    BY <2>1 DEF Modifiers
  <2>2. CASE a = 1 /\ c = 0
    BY <2>2 DEF Modifiers
  <2>3. CASE a = 0 /\ c = 1
    BY <2>3 DEF Modifiers
  <2>4. CASE a = 1 /\ c = 1
    BY <2>4 DEF Modifiers
  <2> QED
    BY <2>1, <2>2, <2>3, <2>4
<1>2. Modified(k, m) = With(k, s, a, c)
  <2> HIDE DEF m
  <2> QED
    BY <1>1 DEF Modified, With
<1>3. Modified(k, 1) = Plain(k)
  <2>1. /\ ~((1 - 1) % 2 = 1) /\ ~(((1 - 1) \div 2) % 2 = 1) /\ ~(((1 - 1) \div 4) % 2 = 1)
    OBVIOUS
  <2> QED
    BY <2>1 DEF Modified, Plain
<1>4. m \in 1 .. 8
  BY DEF Modifiers
<1> QED
  BY <1>2, <1>3, <1>4

LEMMA HoldsBoth ==
  ASSUME NEW b \in Seq(Byte), NEW h \in Nat, NEW s \in Seq(Int), NEW t \in Seq(Int),
         Holds(b, h, s \o t)
  PROVE  /\ Len(s \o t) = Len(s) + Len(t)
         /\ Holds(b, h, s) /\ Holds(b, h + Len(s), t)
<1>1. /\ Len(s) \in Nat /\ Len(t) \in Nat /\ Len(b) \in Nat /\ Len(s \o t) = Len(s) + Len(t)
      /\ \A j \in 1 .. Len(s) : (s \o t)[j] = s[j]
      /\ \A j \in 1 .. Len(t) : (s \o t)[Len(s) + j] = t[j]
  OBVIOUS
<1>2. h + (Len(s) + Len(t)) <= Len(b) /\ \A j \in 1 .. Len(s) + Len(t) : b[h + j] = (s \o t)[j]
  BY <1>1 DEF Holds
<1>3. Holds(b, h, s)
  <2>1. h + Len(s) <= Len(b)
    BY <1>1, <1>2
  <2>2. ASSUME NEW j \in 1 .. Len(s)
        PROVE  b[h + j] = s[j]
    <3>1. j \in 1 .. Len(s) + Len(t)
      BY <1>1
    <3> QED
      BY <1>1, <1>2, <3>1
  <2> QED
    BY <2>1, <2>2 DEF Holds
<1>4. ASSUME NEW j \in 1 .. Len(t)
      PROVE  b[h + Len(s) + j] = t[j]
  <2>1. Len(s) + j \in 1 .. Len(s) + Len(t) /\ h + (Len(s) + j) = h + Len(s) + j
    BY <1>1
  <2> QED
    BY <1>1, <1>2, <2>1
<1>5. h + Len(s) + Len(t) <= Len(b)
  BY <1>1, <1>2
<1> QED
  BY <1>1, <1>3, <1>4, <1>5 DEF Holds

(* The lexer has read ESC [ and a number, after which comes something else. *)
NumberRead(b, h, n, e) ==
  /\ e \in Nat /\ parse_message(b, h) = parse_csi(b, h + 2)
  /\ NumberEnd(b, h + 2) = e /\ Number(b, h + 2, e) = n /\ ~Ends(b, e)

LEMMA CsiNumberRead ==
  ASSUME NEW n \in 1 .. 99, NEW b \in Seq(Byte), NEW h \in Nat,
         NEW t \in Seq(Int), t # <<>>, ~IsDigit(t[1]), Holds(b, h, CsiNumber(n) \o t)
  PROVE  LET e == h + Len(CsiNumber(n))
         IN  /\ NumberRead(b, h, n, e) /\ Holds(b, e, t)
             /\ h + Len(CsiNumber(n) \o t) = e + Len(t)
<1>1. CsiNumber(n) \in Seq(Int) /\ Len(CsiNumber(n)) = (IF n < 10 THEN 3 ELSE 4)
  BY DEF CsiNumber, ESC, CSI
<1> DEFINE e == h + Len(CsiNumber(n))
<1>2. /\ Len(CsiNumber(n) \o t) = Len(CsiNumber(n)) + Len(t)
      /\ Holds(b, h, CsiNumber(n)) /\ Holds(b, e, t)
  BY <1>1, HoldsBoth
<1>3. e \in Nat /\ Len(t) \in Nat \ {0} /\ e + Len(t) <= Len(b) /\ b[e + 1] = t[1]
  BY <1>1, <1>2 DEF Holds
<1>4. e < Len(b) /\ ~IsDigit(b[e + 1]) /\ ~Ends(b, e)
  BY <1>3 DEF Ends
<1>5. b[h + 1] = ESC /\ b[h + 2] = CSI /\ h + 2 < Len(b)
  <2>1. CsiNumber(n)[1] = ESC /\ CsiNumber(n)[2] = CSI
    BY DEF CsiNumber
  <2>2. Len(CsiNumber(n)) \in Nat /\ Len(CsiNumber(n)) >= 3
    BY <1>1
  <2>3. h + 2 < Len(b)
    <3>1. h + Len(CsiNumber(n)) < Len(b)
      BY <1>4
    <3> HIDE DEF e
    <3> QED
      BY <2>2, <3>1
  <2>4. 1 \in 1 .. Len(CsiNumber(n)) /\ 2 \in 1 .. Len(CsiNumber(n))
    BY <2>2
  <2> QED
    BY <1>2, <2>1, <2>3, <2>4 DEF Holds
<1>6. parse_message(b, h) = parse_csi(b, h + 2)
  <2>1. curr(b, h + 1) = CSI
    <3>1. ~(h + 1 >= Len(b)) /\ h + 1 + 1 = h + 2
      BY <1>5
    <3> QED
      BY <1>5, <3>1 DEF curr, Ends
  <2> QED
    BY <1>5, <2>1 DEF parse_message, parse_escaped_character, ESC, IAC, CSI, SS3
<1>7. NumberEnd(b, h + 2) = e /\ Number(b, h + 2, e) = n
  <2>1. CASE n < 10
    <3>1. b[h + 3] = 48 + n /\ e = h + 3
      BY <1>1, <1>2, <2>1 DEF Holds, CsiNumber
    <3>2. IsDigit(b[h + 3])
      <4>1. 48 + n \in 48 .. 57
        BY <2>1
      <4> QED
        BY <3>1, <4>1 DEF IsDigit
    <3>3. \A k \in h + 2 .. e - 1 : IsDigit(b[k + 1])
      <4>1. \A k \in h + 2 .. h + 2 : k + 1 = h + 3
        OBVIOUS
      <4>2. h + 3 - 1 = h + 2
        OBVIOUS
      <4> QED
        BY <3>1, <3>2, <4>1, <4>2
    <3>4. NumberEnd(b, h + 2) = e
      <4>1. h + 2 \in Nat /\ e \in h + 2 .. Len(b)
        BY <1>3, <1>4, <3>1
      <4> QED
        BY <1>4, <3>3, <4>1, NumberEndIs
    <3>5. Number(b, h + 2, h + 2 + 1) = Wrap(10 * 0 + b[h + 2 + 1] - 48)
      BY NumberIs
    <3>6. h + 2 + 1 = h + 3 /\ 10 * 0 + (48 + n) - 48 = n
      OBVIOUS
    <3>7. Number(b, h + 2, e) = Wrap(n)
      BY <3>1, <3>5, <3>6
    <3>8. n \in 0 .. 255
      BY <2>1
    <3>9. Wrap(n) = n
      BY <3>8, SmallFits
    <3> QED
      BY <3>4, <3>7, <3>9
  <2>2. CASE ~(n < 10)
    <3>1. b[h + 3] = 48 + (n \div 10) /\ b[h + 4] = 48 + (n % 10) /\ e = h + 4
      BY <1>1, <1>2, <2>2 DEF Holds, CsiNumber
    <3>2. n \div 10 \in 0 .. 9 /\ n % 10 \in 0 .. 9 /\ 10 * (n \div 10) + (n % 10) = n
      OBVIOUS
    <3>3. IsDigit(b[h + 3]) /\ IsDigit(b[h + 4])
      <4>1. 48 + (n \div 10) \in 48 .. 57 /\ 48 + (n % 10) \in 48 .. 57
        BY <3>2
      <4> QED
        BY <3>1, <4>1 DEF IsDigit
    <3>4. \A k \in h + 2 .. e - 1 : IsDigit(b[k + 1])
      <4>1. \A k \in h + 2 .. h + 3 : k + 1 = h + 3 \/ k + 1 = h + 4
        OBVIOUS
      <4>2. e - 1 = h + 3
        BY <3>1
      <4> HIDE DEF e
      <4> QED
        BY <3>3, <4>1, <4>2
    <3>5. NumberEnd(b, h + 2) = e
      <4>1. h + 2 \in Nat /\ e \in h + 2 .. Len(b)
        BY SMTT(30), <1>3, <1>4, <3>1
      <4> QED
        BY <1>4, <3>4, <4>1, NumberEndIs
    <3>6. Number(b, h + 2, h + 2 + 2)
            = Wrap(10 * Wrap(10 * 0 + b[h + 2 + 1] - 48) + b[h + 2 + 2] - 48)
      BY NumberIs
    <3>7. h + 2 + 1 = h + 3 /\ h + 2 + 2 = h + 4
      OBVIOUS
    <3>8. Number(b, h + 2, h + 4) = n
      <4>1. PICK x \in 0 .. 9, y \in 0 .. 9 :
              10 * x + y = n /\ b[h + 3] = 48 + x /\ b[h + 4] = 48 + y
        BY <3>1, <3>2
      <4>2. Number(b, h + 2, h + 4)
              = Wrap(10 * Wrap(10 * 0 + (48 + x) - 48) + (48 + y) - 48)
        BY <3>6, <3>7, <4>1
      <4>3. 10 * 0 + (48 + x) - 48 = x /\ 10 * x + (48 + y) - 48 = n
        BY <4>1
      <4>4. x \in 0 .. 255
        OBVIOUS
      <4>5. Wrap(x) = x
        BY <4>4, SmallFits
      <4>6. n \in 0 .. 255
        OBVIOUS
      <4>7. Wrap(n) = n
        BY <4>6, SmallFits
      <4> QED
        BY <4>2, <4>3, <4>5, <4>7
    <3> QED
      BY <3>1, <3>5, <3>8
  <2> QED
    BY <2>1, <2>2
<1> QED
  BY <1>2, <1>3, <1>4, <1>6, <1>7, <1>1 DEF NumberRead

(* After the number, a semicolon, the number m of the modifiers and x. *)
ModifierAfter(b, e, m, x) ==
  /\ b[e + 1] = SEMICOLON
  /\ NumberEnd(b, e + 1) = e + 2 /\ Number(b, e + 1, e + 2) = m
  /\ ~Ends(b, e + 2) /\ b[e + 2 + 1] = x

LEMMA ModifierRead ==
  ASSUME NEW b \in Seq(Byte), NEW e \in Nat, NEW x \in Int, ~IsDigit(x),
         NEW m \in 1 .. 8,
         Holds(b, e, <<SEMICOLON, 48 + m, x>>)
  PROVE  ModifierAfter(b, e, m, x)
<1>1. /\ b[e + 1] = SEMICOLON /\ b[e + 2] = 48 + m /\ b[e + 3] = x
      /\ e + 3 <= Len(b)
  BY DEF Holds
<1>2. 48 + m \in 48 .. 57 /\ e + 2 + 1 = e + 3
  OBVIOUS
<1>3. IsDigit(b[e + 2]) /\ ~IsDigit(b[e + 2 + 1])
  BY <1>1, <1>2 DEF IsDigit
<1>4. NumberEnd(b, e + 1) = e + 2
  <2>1. \A k \in e + 1 .. e + 2 - 1 : k + 1 = e + 2
    OBVIOUS
  <2>2. e + 2 \in e + 1 .. Len(b) /\ e + 2 < Len(b)
    BY <1>1
  <2> QED
    BY <1>3, <2>1, <2>2, NumberEndIs
<1>5. Number(b, e + 1, e + 1 + 1) = Wrap(10 * 0 + b[e + 1 + 1] - 48)
  BY NumberIs
<1>6. e + 1 + 1 = e + 2
  OBVIOUS
<1>7. Number(b, e + 1, e + 2) = m
  <2>1. 10 * 0 + (48 + m) - 48 = m
    OBVIOUS
  <2>2. m \in 0 .. 255
    OBVIOUS
  <2>3. Wrap(m) = m
    BY <2>2, SmallFits
  <2> QED
    BY <1>1, <1>5, <1>6, <2>1, <2>3
<1>8. ~Ends(b, e + 2)
  BY <1>1 DEF Ends
<1> QED
  BY <1>1, <1>2, <1>4, <1>7, <1>8 DEF ModifierAfter

(* What the letters and numbers of the tables are. *)
LEMMA TableCodes ==
  /\ \A e \in csiKeys : e[1] \in 65 .. 83
  /\ \A e \in ss3Keys : e[1] \in 65 .. 83
  /\ \A e \in tildeKeys : e[1] \in 2 .. 24
  BY DEF csiKeys, ss3Keys, tildeKeys

(* ESC [ and a byte c that is not a digit. *)
LEMMA CsiLetter ==
  ASSUME NEW c \in 64 .. 126, NEW b \in Seq(Byte), NEW h \in Nat, Holds(b, h, <<ESC, CSI, c>>)
  PROVE  parse_message(b, h) = Letter(b, h + 2, csiKeys, 1) /\ b[h + 2 + 1] = c
<1>1. b[h + 1] = ESC /\ b[h + 2] = CSI /\ b[h + 2 + 1] = c /\ h + 3 <= Len(b)
  <2>1. h + 2 + 1 = h + 3
    OBVIOUS
  <2> QED
    BY <2>1 DEF Holds
<1>2. ~IsDigit(b[h + 2 + 1])
  <2>1. c \notin 48 .. 57
    OBVIOUS
  <2> QED
    BY <1>1, <2>1 DEF IsDigit
<1>3. NumberEnd(b, h + 2) = h + 2
  <2>1. h + 2 \in h + 2 .. Len(b) /\ h + 2 < Len(b) /\ h + 2 \in Nat
    BY <1>1
  <2>2. \A k \in h + 2 .. h + 2 - 1 : IsDigit(b[k + 1])
    OBVIOUS
  <2> QED
    BY <1>2, <2>1, <2>2, NumberEndIs
<1>4. Number(b, h + 2, h + 2) = 0
  BY NumberIs
<1>5. parse_message(b, h) = parse_csi(b, h + 2)
  <2>1. ~(h + 1 >= Len(b)) /\ h + 1 + 1 = h + 2
    BY <1>1
  <2>2. curr(b, h + 1) = CSI
    BY <1>1, <2>1 DEF curr, Ends
  <2> QED
    BY <1>1, <2>2 DEF parse_message, parse_escaped_character, ESC, IAC, CSI, SS3
<1>6. ~Ends(b, h + 2)
  BY <1>1 DEF Ends
<1> QED
  BY <1>1, <1>3, <1>4, <1>5, <1>6 DEF parse_csi

(* ESC O and a byte c *)
LEMMA Ss3Letter ==
  ASSUME NEW c, NEW b \in Seq(Byte), NEW h \in Nat, Holds(b, h, <<ESC, SS3, c>>)
  PROVE  parse_message(b, h) = Letter(b, h + 2, ss3Keys, 1) /\ b[h + 2 + 1] = c
<1>1. b[h + 1] = ESC /\ b[h + 2] = SS3 /\ b[h + 2 + 1] = c /\ h + 3 <= Len(b)
  <2>1. h + 2 + 1 = h + 3
    OBVIOUS
  <2> QED
    BY <2>1 DEF Holds
<1>2. curr(b, h + 1) = SS3
  <2>1. ~(h + 1 >= Len(b)) /\ h + 1 + 1 = h + 2
    BY <1>1
  <2> QED
    BY <1>1, <2>1 DEF curr, Ends
<1>3. parse_message(b, h) = parse_ss3(b, h + 2)
  BY <1>1, <1>2 DEF parse_message, parse_escaped_character, ESC, IAC, CSI, SS3
<1>4. ~Ends(b, h + 2)
  BY <1>1 DEF Ends
<1> QED
  BY <1>1, <1>3, <1>4 DEF parse_ss3

LEMMA LettersDecoded == \A m \in Letters : Decoded(m)
<1>1. ASSUME NEW e \in csiKeys
      PROVE  Decoded(Stroke(<<ESC, CSI, e[1]>>, Plain(e[2])))
  <2>1. ASSUME NEW b \in Seq(Byte), NEW h \in Nat, Holds(b, h, <<ESC, CSI, e[1]>>)
        PROVE  parse_message(b, h) = Ok(h + 3, Plain(e[2]))
    <3>1. e[1] \in 64 .. 126
      BY TableCodes
    <3>2. parse_message(b, h) = Letter(b, h + 2, csiKeys, 1) /\ b[h + 2 + 1] = e[1]
      BY <2>1, <3>1, CsiLetter
    <3>3. Letter(b, h + 2, csiKeys, 1) = Ok(h + 2 + 1, Modified(e[2], 1))
      BY <3>2, KeysFound DEF Letter
    <3>4. h + 2 + 1 = h + 3 /\ Modified(e[2], 1) = Plain(e[2])
      BY ModifiedIs
    <3> QED
      BY <3>2, <3>3, <3>4
  <2> QED
    BY <2>1, StrokeDecoded
<1>2. ASSUME NEW e \in ss3Keys
      PROVE  Decoded(Stroke(<<ESC, SS3, e[1]>>, Plain(e[2])))
  <2>1. ASSUME NEW b \in Seq(Byte), NEW h \in Nat, Holds(b, h, <<ESC, SS3, e[1]>>)
        PROVE  parse_message(b, h) = Ok(h + 3, Plain(e[2]))
    <3>1. parse_message(b, h) = Letter(b, h + 2, ss3Keys, 1) /\ b[h + 2 + 1] = e[1]
      BY <2>1, Ss3Letter
    <3>2. Letter(b, h + 2, ss3Keys, 1) = Ok(h + 2 + 1, Modified(e[2], 1))
      BY <3>1, KeysFound DEF Letter
    <3>3. h + 2 + 1 = h + 3 /\ Modified(e[2], 1) = Plain(e[2])
      BY ModifiedIs
    <3> QED
      BY <3>1, <3>2, <3>3
  <2> QED
    BY <2>1, StrokeDecoded
<1> QED
  BY <1>1, <1>2 DEF Letters

LEMMA TildesDecoded == \A m \in Tildes : Decoded(m)
<1>1. ASSUME NEW n \in 1 .. 99, NEW k, n = 1 => k = KEY_HOME,
             n # 1 => Known(tildeKeys, n) /\ KeyOf(tildeKeys, n) = k
      PROVE  Decoded(Stroke(CsiNumber(n) \o <<TILDE>>, Plain(k)))
  <2>1. ASSUME NEW b \in Seq(Byte), NEW h \in Nat, Holds(b, h, CsiNumber(n) \o <<TILDE>>)
        PROVE  parse_message(b, h) = Ok(h + Len(CsiNumber(n) \o <<TILDE>>), Plain(k))
    <3> DEFINE e == h + Len(CsiNumber(n))
    <3>1. <<TILDE>> \in Seq(Int) /\ <<TILDE>> # <<>> /\ ~IsDigit(<<TILDE>>[1])
      BY DEF TILDE, IsDigit
    <3>2. /\ NumberRead(b, h, n, e) /\ Holds(b, e, <<TILDE>>)
          /\ h + Len(CsiNumber(n) \o <<TILDE>>) = e + Len(<<TILDE>>)
      BY <2>1, <3>1, CsiNumberRead
    <3> HIDE DEF e
    <3>3. b[e + 1] = TILDE /\ h + Len(CsiNumber(n) \o <<TILDE>>) = e + 1
      BY <3>2 DEF Holds
    <3>4. CASE n = 1
      <4>1. parse_csi(b, h + 2) = Ok(e + 1, Plain(KEY_HOME))
        BY <3>2, <3>3, <3>4 DEF NumberRead, parse_csi, TILDE, SEMICOLON
      <4> QED
        BY <1>1, <3>2, <3>3, <3>4, <4>1 DEF NumberRead
    <3>5. CASE n # 1
      <4>1. n # 0 /\ n % 256 = n /\ n \notin {0, 1}
        BY <3>5
      <4>2. parse_message(b, h) = parse_tilde(b, e, n)
        BY <3>2, <4>1 DEF NumberRead, parse_csi
      <4>3. parse_tilde(b, e, n) = Ok(e + 1, Plain(k))
        BY <1>1, <3>3, <3>5, <4>1 DEF parse_tilde, TILDE, SEMICOLON
      <4> QED
        BY <3>3, <4>2, <4>3
    <3> QED
      BY <3>4, <3>5
  <2> QED
    BY <2>1, StrokeDecoded
<1>2. ASSUME NEW e \in tildeKeys
      PROVE  Decoded(Stroke(CsiNumber(e[1]) \o <<TILDE>>, Plain(e[2])))
  <2>1. e[1] \in 1 .. 99 /\ e[1] # 1
    BY TableCodes
  <2> QED
    BY <1>1, <2>1, KeysFound
<1>3. Decoded(Stroke(CsiNumber(1) \o <<TILDE>>, Plain(KEY_HOME)))
  BY <1>1
<1> QED
  BY <1>2, <1>3 DEF Tildes

(* A number, a semicolon, modifiers and x. *)
LEMMA ModifiedRead ==
  ASSUME NEW n \in 1 .. 99, NEW x \in 58 .. 126, NEW b \in Seq(Byte), NEW h \in Nat,
         NEW m \in 1 .. 8,
         Holds(b, h, CsiNumber(n) \o <<SEMICOLON, 48 + m, x>>)
  PROVE  \E e : /\ NumberRead(b, h, n, e) /\ ModifierAfter(b, e, m, x)
                /\ h + Len(CsiNumber(n) \o <<SEMICOLON, 48 + m, x>>) = e + 2 + 1
<1> DEFINE e == h + Len(CsiNumber(n))
           t == <<SEMICOLON, 48 + m, x>>
<1>1. t \in Seq(Int) /\ t # <<>> /\ ~IsDigit(t[1]) /\ ~IsDigit(x) /\ Len(t) = 3
  <2>1. SEMICOLON \in Int /\ 48 + m \in Int /\ x \in Int
    BY DEF SEMICOLON
  <2>2. x \notin 48 .. 57 /\ 59 \notin 48 .. 57
    OBVIOUS
  <2> QED
    BY <2>1, <2>2 DEF IsDigit, SEMICOLON
<1>2. Holds(b, h, CsiNumber(n) \o t)
  OBVIOUS
<1>3. /\ NumberRead(b, h, n, e) /\ Holds(b, e, t)
      /\ h + Len(CsiNumber(n) \o t) = e + Len(t)
  <2> HIDE DEF t
  <2> QED
    BY <1>1, <1>2, CsiNumberRead
<1>4. e \in Nat
  BY <1>3 DEF NumberRead
<1> HIDE DEF e
<1>5. ModifierAfter(b, e, m, x)
  <2>1. x \in Int /\ ~IsDigit(x)
    BY <1>1
  <2>2. Holds(b, e, <<SEMICOLON, 48 + m, x>>)
    BY <1>3
  <2> QED
    BY <1>4, <2>1, <2>2, ModifierRead, Zenon
<1>6. h + Len(CsiNumber(n) \o t) = e + 2 + 1
  <2> HIDE DEF t
  <2> QED
    BY <1>1, <1>3, <1>4
<1> QED
  BY <1>3, <1>5, <1>6

LEMMA ModifiedLettersDecoded == \A m \in ModifiedLetters : Decoded(m)
<1>1. ASSUME NEW k \in csiKeys, NEW s \in {0, 1}, NEW a \in {0, 1}, NEW c \in {0, 1}
      PROVE  Decoded(ModifiedLetter(k, s, a, c))
  <2> DEFINE m == Modifiers(s, a, c)
             bytes == CsiNumber(1) \o <<SEMICOLON, 48 + m, k[1]>>
  <2>1. m \in 1 .. 8 /\ Modified(k[2], m) = With(k[2], s, a, c)
    BY ModifiedIs
  <2> HIDE DEF m
  <2>2. ASSUME NEW b \in Seq(Byte), NEW h \in Nat, Holds(b, h, bytes)
        PROVE  parse_message(b, h) = Ok(h + Len(bytes), With(k[2], s, a, c))
    <3>1. k[1] \in 58 .. 126 /\ 1 \in 1 .. 99
      BY TableCodes
    <3>2. PICK e : /\ NumberRead(b, h, 1, e) /\ ModifierAfter(b, e, m, k[1])
                   /\ h + Len(bytes) = e + 2 + 1
      BY <2>1, <2>2, <3>1, ModifiedRead
    <3> HIDE DEF bytes
    <3>3. Letter(b, e + 2, csiKeys, m) = Ok(e + 2 + 1, Modified(k[2], m))
      BY <3>2, KeysFound DEF Letter, ModifierAfter
    <3>4. parse_csi(b, h + 2) = Letter(b, e + 2, csiKeys, m)
      BY <3>2 DEF NumberRead, ModifierAfter, parse_csi, TILDE, SEMICOLON
    <3> QED
      BY <2>1, <3>2, <3>3, <3>4 DEF NumberRead
  <2> HIDE DEF bytes
  <2>3. Decoded(Stroke(bytes, With(k[2], s, a, c)))
    BY <2>2, StrokeDecoded
  <2> QED
    BY <2>3 DEF bytes, m, ModifiedLetter
<1> QED
  BY <1>1 DEF ModifiedLetters

LEMMA ModifiedTildesDecoded == \A m \in ModifiedTildes : Decoded(m)
<1>1. ASSUME NEW k \in tildeKeys, NEW s \in {0, 1}, NEW a \in {0, 1}, NEW c \in {0, 1}
      PROVE  Decoded(ModifiedTilde(k, s, a, c))
  <2> DEFINE m == Modifiers(s, a, c)
             bytes == CsiNumber(k[1]) \o <<SEMICOLON, 48 + m, TILDE>>
  <2>1. m \in 1 .. 8 /\ Modified(k[2], m) = With(k[2], s, a, c)
    BY ModifiedIs
  <2> HIDE DEF m
  <2>2. ASSUME NEW b \in Seq(Byte), NEW h \in Nat, Holds(b, h, bytes)
        PROVE  parse_message(b, h) = Ok(h + Len(bytes), With(k[2], s, a, c))
    <3>1. k[1] \in 1 .. 99 /\ k[1] # 0 /\ k[1] # 1 /\ k[1] % 256 = k[1]
      <4>1. k[1] \in 2 .. 24
        BY TableCodes
      <4>2. \A n \in 2 .. 24 : n \in 1 .. 99 /\ n # 0 /\ n # 1 /\ n % 256 = n
        OBVIOUS
      <4> QED
        BY <4>1, <4>2
    <3>2. TILDE \in 58 .. 126
      BY DEF TILDE
    <3>3. PICK e : /\ NumberRead(b, h, k[1], e) /\ ModifierAfter(b, e, m, TILDE)
                   /\ h + Len(bytes) = e + 2 + 1
      BY <2>1, <2>2, <3>1, <3>2, ModifiedRead
    <3> HIDE DEF bytes
    <3>4. parse_csi(b, h + 2) = parse_tilde(b, e, k[1])
      BY <3>1, <3>3 DEF NumberRead, parse_csi
    <3>5. parse_tilde(b, e, k[1]) = Ok(e + 2 + 1, Modified(k[2], m))
      BY <3>1, <3>3, KeysFound DEF ModifierAfter, parse_tilde, TILDE, SEMICOLON
    <3> QED
      BY <2>1, <3>3, <3>4, <3>5 DEF NumberRead
  <2> HIDE DEF bytes
  <2>3. Decoded(Stroke(bytes, With(k[2], s, a, c)))
    BY <2>2, StrokeDecoded
  <2> QED
    BY <2>3 DEF bytes, m, ModifiedTilde
<1> QED
  BY <1>1 DEF ModifiedTildes

LEMMA UnknownsDecoded == \A m \in Unknowns : Decoded(m)
<1>1. ASSUME NEW bytes,
             \A b \in Seq(Byte), h \in Nat :
               Holds(b, h, bytes) => parse_message(b, h) = Err(h + Len(bytes))
      PROVE  Decoded(Nothing(bytes))
  <2>1. /\ Nothing(bytes).bytes = bytes /\ Nothing(bytes).keys = <<>>
        /\ Nothing(bytes).size = <<>>
    BY DEF Nothing
  <2>2. \A k : Err(k) = [res |-> "err", head |-> k, keys |-> <<>>, size |-> <<>>]
    BY DEF Err, Result
  <2>3. ASSUME NEW b \in Seq(Byte), NEW h \in Nat, Holds(b, h, bytes)
        PROVE  /\ parse_message(b, h).res # "unfinished"
               /\ parse_message(b, h).head = h + Len(bytes)
               /\ parse_message(b, h).keys = <<>> /\ parse_message(b, h).size = <<>>
    <3>1. parse_message(b, h)
            = [res |-> "err", head |-> h + Len(bytes), keys |-> <<>>, size |-> <<>>]
      BY <1>1, <2>2, <2>3
    <3> QED
      BY <3>1
  <2> QED
    BY <2>1, <2>3 DEF Decoded
<1>2. ASSUME NEW c \in Finals, ~Known(csiKeys, c)
      PROVE  Decoded(UnknownLetter(c))
  <2>1. ASSUME NEW b \in Seq(Byte), NEW h \in Nat, Holds(b, h, <<ESC, CSI, c>>)
        PROVE  parse_message(b, h) = Err(h + 3)
    <3>1. parse_message(b, h) = Letter(b, h + 2, csiKeys, 1) /\ b[h + 2 + 1] = c
      BY <2>1, CsiLetter DEF Finals
    <3>2. h + 2 + 1 = h + 3
      OBVIOUS
    <3> QED
      BY <1>2, <3>1, <3>2 DEF Letter
  <2> QED
    BY <1>1, <2>1 DEF UnknownLetter
<1>3. ASSUME NEW n \in CsiNumbers, NEW c \in Finals \ {TILDE}
      PROVE  Decoded(UnknownNumber(n, c))
  <2> DEFINE bytes == CsiNumber(n) \o <<c>>
  <2>1. ASSUME NEW b \in Seq(Byte), NEW h \in Nat, Holds(b, h, bytes)
        PROVE  parse_message(b, h) = Err(h + Len(bytes))
    <3> DEFINE e == h + Len(CsiNumber(n))
    <3>1. <<c>> \in Seq(Int) /\ <<c>> # <<>> /\ ~IsDigit(<<c>>[1])
      <4>1. c \notin 48 .. 57 /\ c \in Int
        BY DEF Finals
      <4> QED
        BY <4>1 DEF IsDigit
    <3>2. /\ NumberRead(b, h, n, e) /\ Holds(b, e, <<c>>)
          /\ h + Len(bytes) = e + Len(<<c>>)
      BY <2>1, <3>1, CsiNumberRead DEF CsiNumbers
    <3> HIDE DEF e, bytes
    <3>3. b[e + 1] = c /\ h + Len(bytes) = e + 1 /\ c # TILDE /\ c # SEMICOLON
      BY <3>2 DEF Holds, Finals, SEMICOLON
    <3>4. parse_csi(b, h + 2) = Err(e + 1)
      <4>1. CASE n = 1
        BY <3>2, <3>3, <4>1 DEF NumberRead, parse_csi
      <4>2. CASE n # 1
        <5>1. n # 0 /\ n # 1
          BY <4>2 DEF CsiNumbers
        <5>2. parse_csi(b, h + 2) = parse_tilde(b, e, n)
          BY <3>2, <5>1 DEF NumberRead, parse_csi
        <5>3. parse_tilde(b, e, n) = Err(e + 1)
          BY <3>3 DEF parse_tilde
        <5> QED
          BY <5>2, <5>3
      <4> QED
        BY <4>1, <4>2
    <3> QED
      BY <3>2, <3>3, <3>4 DEF NumberRead
  <2> HIDE DEF bytes
  <2>2. Decoded(Nothing(bytes))
    BY <1>1, <2>1
  <2> QED
    BY <2>2 DEF bytes, UnknownNumber
<1>4. \A m \in {UnknownLetter(c) : c \in {x \in Finals : ~Known(csiKeys, x)}} : Decoded(m)
  BY <1>2
<1>5. \A m \in {UnknownNumber(n, c) : n \in CsiNumbers, c \in Finals \ {TILDE}} : Decoded(m)
  BY <1>3
<1> QED
  BY <1>4, <1>5 DEF Unknowns

LEMMA SizeReportsDecoded == \A m \in SizeReports : Decoded(m)
<1>1. ASSUME NEW w1 \in NotDoubled, NEW w2 \in NotDoubled,
             NEW h1 \in NotDoubled, NEW h2 \in NotDoubled
      PROVE  Decoded(SizeReported(w1, w2, h1, h2))
  <2> DEFINE bytes == <<IAC, 250, 31, w1, w2, h1, h2, IAC, 240>>
             size == <<256 * w1 + w2, 256 * h1 + h2>>
  <2>1. /\ Len(bytes) = 9 /\ bytes[1] = IAC /\ bytes[2] = 250 /\ bytes[3] = 31
        /\ bytes[4] = w1 /\ bytes[5] = w2 /\ bytes[6] = h1 /\ bytes[7] = h2
        /\ bytes[8] = IAC /\ bytes[9] = 240
    OBVIOUS
  <2>2. /\ SizeReport[1] = IAC /\ SizeReport[2] = 250 /\ SizeReport[3] = 31
        /\ SizeReport[4] = -1 /\ SizeReport[5] = -1 /\ SizeReport[6] = -1 /\ SizeReport[7] = -1
        /\ SizeReport[8] = IAC /\ SizeReport[9] = 240
    BY DEF SizeReport
  <2>3. /\ SizeReported(w1, w2, h1, h2).bytes = bytes
        /\ SizeReported(w1, w2, h1, h2).keys = <<>>
        /\ SizeReported(w1, w2, h1, h2).size = size
    BY DEF SizeReported
  <2>4. \A k \in 1 .. 9 : k = 1 \/ k = 2 \/ k = 3 \/ k = 4 \/ k = 5 \/ k = 6 \/ k = 7
                          \/ k = 8 \/ k = 9
    OBVIOUS
  <2> HIDE DEF bytes
  <2>5. ASSUME NEW b \in Seq(Byte), NEW h \in Nat, Holds(b, h, bytes)
        PROVE  /\ parse_message(b, h).res # "unfinished" /\ parse_message(b, h).head = h + 9
               /\ parse_message(b, h).keys = <<>> /\ parse_message(b, h).size = size
    <3>1. h + 9 <= Len(b) /\ \A j \in 1 .. 9 : b[h + j] = bytes[j]
      BY <2>1, <2>5 DEF Holds
    <3>2. ASSUME NEW k \in 1 .. 9
          PROVE  SizeReport[k] = -1 \/ b[h + k] = SizeReport[k]
      <4>1. b[h + k] = bytes[k]
        BY <3>1
      <4>2. SizeReport[k] = -1 \/ bytes[k] = SizeReport[k]
        BY <2>1, <2>2, <2>4
      <4> QED
        BY <4>1, <4>2
    <3>3. parse_telnet_command(b, h)
            = [Result("ok", h + 9, <<>>) EXCEPT
                 !.size = <<256 * b[h + 4] + b[h + 5], 256 * b[h + 6] + b[h + 7]>>]
      <4>1. 9 \in {k \in 1 .. 9 : h + k <= Len(b)}
        BY <3>1
      <4> QED
        BY <3>2, <4>1 DEF parse_telnet_command
    <3>4. b[h + 4] = w1 /\ b[h + 5] = w2 /\ b[h + 6] = h1 /\ b[h + 7] = h2
      BY <2>1, <3>1
    <3>5. parse_telnet_command(b, h)
            = [res |-> "ok", head |-> h + 9, keys |-> <<>>, size |-> size]
      <4>1. parse_telnet_command(b, h) = [Result("ok", h + 9, <<>>) EXCEPT !.size = size]
        BY <3>3, <3>4
      <4> HIDE DEF size
      <4> QED
        BY <4>1 DEF Result
    <3>6. b[h + 1] = IAC
      BY <2>1, <3>1
    <3>7. parse_message(b, h) = parse_telnet_command(b, h)
      BY <3>6 DEF parse_message, IAC, ESC
    <3> HIDE DEF size
    <3> QED
      BY <3>5, <3>7
  <2> DEFINE m == SizeReported(w1, w2, h1, h2)
  <2>6. m.bytes = bytes /\ m.keys = <<>> /\ m.size = size /\ Len(m.bytes) = 9
    BY <2>1, <2>3
  <2> HIDE DEF m, size
  <2>7. Decoded(m)
    BY <2>5, <2>6 DEF Decoded
  <2> QED
    BY <2>7 DEF m
<1> QED
  BY <1>1 DEF SizeReports

LEMMA WholeDecoded == \A m \in WholeMessages : Decoded(m)
  BY CharactersDecoded, LettersDecoded, TildesDecoded, ModifiedLettersDecoded,
     ModifiedTildesDecoded, SizeReportsDecoded, UnknownsDecoded DEF WholeMessages

(* The escape key sends what other sequences begin with: it is decoded if nothing
   follows that would continue it. *)
LEMMA EscapeDecoded ==
  ASSUME NEW b \in Seq(Byte), NEW h \in Nat, Holds(b, h, Escape.bytes),
         h + 1 < Len(b) => b[h + 2] \notin {CSI, SS3}
  PROVE  LET r == parse_message(b, h)
         IN  /\ r.res # "unfinished" /\ r.head = h + Len(Escape.bytes)
             /\ r.keys = Escape.keys /\ r.size = Escape.size
<1>1. /\ Escape.bytes = <<ESC>> /\ Len(Escape.bytes) = 1
      /\ Escape.keys = <<Plain(KEY_ESCAPE)>> /\ Escape.size = <<>>
  BY DEF Escape, Stroke
<1>2. b[h + 1] = ESC
  BY <1>1 DEF Holds
<1>3. curr(b, h + 1) \notin {CSI, SS3}
  <2>1. CASE h + 1 >= Len(b)
    BY <2>1 DEF curr, Ends, CSI, SS3
  <2>2. CASE ~(h + 1 >= Len(b))
    <3>1. h + 1 < Len(b) /\ h + 1 + 1 = h + 2
      BY <2>2
    <3> QED
      BY <2>2, <3>1 DEF curr, Ends
  <2> QED
    BY <2>1, <2>2
<1>4. parse_message(b, h) = Ok(h + 1, Plain(KEY_ESCAPE))
  BY <1>2, <1>3 DEF parse_message, parse_escaped_character, ESC, IAC
<1>5. Ok(h + 1, Plain(KEY_ESCAPE))
        = [res |-> "ok", head |-> h + 1, keys |-> <<Plain(KEY_ESCAPE)>>, size |-> <<>>]
  BY DEF Ok, Result
<1> QED
  BY <1>1, <1>4, <1>5

LEMMA TerminalsDecodable ==
  ASSUME Messages \subseteq WholeMessages \cup {Escape},
         Escape \in Messages => \A l \in Messages : l.bytes[1] \notin {CSI, SS3}
  PROVE  Decodable
<1>1. ASSUME NEW k \in Messages, NEW b \in Seq(Byte), NEW h \in Nat, Holds(b, h, k.bytes),
             h + Len(k.bytes) < Len(b)
               => \E l \in Messages : b[h + Len(k.bytes) + 1] = l.bytes[1]
      PROVE  LET r == parse_message(b, h)
             IN  /\ r.res # "unfinished" /\ r.head = h + Len(k.bytes)
                 /\ r.keys = k.keys /\ r.size = k.size
  <2>1. CASE k \in WholeMessages
    BY <1>1, <2>1, WholeDecoded DEF Decoded
  <2>2. CASE k = Escape
    <3>1. Len(k.bytes) = 1
      BY <2>2 DEF Escape, Stroke
    <3>2. h + 1 + 1 = h + 2
      OBVIOUS
    <3>3. h + 1 < Len(b) => b[h + 2] \notin {CSI, SS3}
      BY <1>1, <2>2, <3>1, <3>2
    <3> QED
      BY <1>1, <2>2, <3>3, EscapeDecoded
  <2> QED
    BY <2>1, <2>2
<1> QED
  BY <1>1 DEF Decodable

(***************************************************************************)
(* What xterm sends for every key the lexer's tables know, with and        *)
(* without shift, alt and ctrl, for characters, for sequences the tables   *)
(* do not know, and the sizes telnet reports (but for those with a byte    *)
(* 255) arrive as they were meant, in order, however many messages a read  *)
(* holds; with the escape key as long as no message is '[' or 'O' by       *)
(* itself (client_telnet_receive, parse_escaped_character).                *)
(***************************************************************************)
THEOREM TerminalsDecoded ==
  ASSUME Messages \subseteq WholeMessages \cup {Escape},
         Escape \in Messages => \A l \in Messages : l.bytes[1] \notin {CSI, SS3}
  PROVE  Spec => []KeysDecoded
  BY TerminalsDecodable, WholeMessagesDecoded

-----------------------------------------------------------------------------
(* What the lexer reads depends on nothing but the bytes it consumes *)

(* t holds at g what b holds at h, n bytes long. *)
Same(b, h, t, g, n) == \A j \in 1 .. n : t[g + j] = b[h + j]

LEMMA SameEnd ==
  ASSUME NEW b \in Seq(Byte), NEW h \in 0 .. Len(b), NEW t \in Seq(Byte), NEW g \in Nat,
         NumberEnd(b, h) < Len(b),
         NEW n \in Nat, NumberEnd(b, h) < h + n, g + n <= Len(t), Same(b, h, t, g, n)
  PROVE  NumberEnd(t, g) = g + (NumberEnd(b, h) - h)
<1> DEFINE e == NumberEnd(b, h)
           d == e - h
<1>1. /\ e \in h .. Len(b) /\ ~IsDigit(b[e + 1])
      /\ \A k \in h .. e - 1 : IsDigit(b[k + 1])
  BY NumberStops
<1> HIDE DEF e
<1>2. e < Len(b) /\ e < h + n
  BY DEF e
<1>3. d \in Nat /\ d + 1 \in 1 .. n /\ e = h + d
  BY <1>1, <1>2
<1> HIDE DEF d
<1> DEFINE x == g + d
<1>4. x \in g .. Len(t) /\ x < Len(t) /\ x = g + d
  BY <1>3
<1> HIDE DEF x
<1>5. ~IsDigit(t[x + 1])
  <2>1. t[g + (d + 1)] = b[h + (d + 1)]
    BY <1>3 DEF Same
  <2>2. g + (d + 1) = x + 1 /\ h + (d + 1) = e + 1
    BY <1>3, <1>4
  <2> QED
    BY <1>1, <2>1, <2>2
<1>6. ASSUME NEW k \in g .. x - 1
      PROVE  IsDigit(t[k + 1])
  <2>1. k - g + 1 \in 1 .. n /\ g + (k - g + 1) = k + 1
    BY <1>3, <1>4
  <2>2. t[k + 1] = b[h + (k - g + 1)]
    BY <2>1 DEF Same
  <2>3. h + (k - g) \in h .. e - 1 /\ h + (k - g) + 1 = h + (k - g + 1)
    BY <1>3, <1>4
  <2> QED
    BY <1>1, <2>2, <2>3
<1>7. NumberEnd(t, g) = x
  BY <1>4, <1>5, <1>6, NumberEndIs
<1> QED
  BY <1>4, <1>7 DEF d, e

(* The function that Number computes with *)
Values(f, b, h, e) ==
  f = [k \in h .. e |-> IF k = h THEN 0 ELSE Wrap(10 * f[k - 1] + b[k] - 48)]

LEMMA ValuesExist ==
  ASSUME NEW b, NEW h \in Nat, NEW e \in Nat, h <= e
  PROVE  \E f : Values(f, b, h, e)
<1> DEFINE T == {x \in Nat : h <= x /\ ~\E f : Values(f, b, h, x)}
<1> SUFFICES ASSUME T # {} PROVE FALSE
  OBVIOUS
<1>1. T \subseteq Nat
  OBVIOUS
<1> HIDE DEF T
<1>2. PICK x \in T : \A m \in T : x <= m
  BY <1>1, LeastNumber
<1>3. x \in Nat /\ h <= x /\ ~\E f : Values(f, b, h, x)
  BY <1>2 DEF T
<1>4. x # h
  <2> DEFINE f == [k \in h .. h |-> 0]
  <2>1. Values(f, b, h, h)
    BY DEF Values
  <2> QED
    BY <1>3, <2>1
<1>5. x - 1 \in Nat /\ h <= x - 1
  BY <1>3, <1>4
<1>6. PICK f : Values(f, b, h, x - 1)
  <2>1. x - 1 \notin T
    BY <1>2, <1>3, <1>5
  <2> QED
    BY <1>5, <2>1 DEF T
<1> DEFINE f2 == [k \in h .. x |-> IF k = x THEN Wrap(10 * f[x - 1] + b[x] - 48) ELSE f[k]]
<1>7. Values(f2, b, h, x)
  <2>1. \A k \in h .. x - 1 : f[k] = IF k = h THEN 0 ELSE Wrap(10 * f[k - 1] + b[k] - 48)
    BY <1>6 DEF Values
  <2>2. ASSUME NEW k \in h .. x
        PROVE  f2[k] = IF k = h THEN 0 ELSE Wrap(10 * f2[k - 1] + b[k] - 48)
    <3>1. CASE k = x
      <4>1. x - 1 \in h .. x /\ x - 1 # x
        BY <1>3, <1>5
      <4> QED
        BY <1>4, <3>1, <4>1
    <3>2. CASE k # x
      <4>1. k \in h .. x - 1 /\ (k # h => k - 1 \in h .. x /\ k - 1 # x)
        BY <1>3, <3>2
      <4> QED
        BY <2>1, <3>2, <4>1
    <3> QED
      BY <3>1, <3>2
  <2>3. f2 = [k \in h .. x |-> f2[k]]
    OBVIOUS
  <2> HIDE DEF f2
  <2> QED
    BY <2>2, <2>3 DEF Values
<1> QED
  BY <1>3, <1>7

(* The same digits are the same number. *)
LEMMA SameNumber ==
  ASSUME NEW b, NEW h \in Nat, NEW t, NEW g \in Nat, NEW d \in Nat, Same(b, h, t, g, d)
  PROVE  Number(t, g, g + d) = Number(b, h, h + d)
<1> DEFINE read(s, i, e) == CHOOSE f : f = [k \in i .. e |-> IF k = i THEN 0
                                                             ELSE Wrap(10 * f[k - 1] + s[k] - 48)]
           u == read(t, g, g + d)
           v == read(b, h, h + d)
<1>1. Number(t, g, g + d) = u[g + d] /\ Number(b, h, h + d) = v[h + d]
  BY DEF Number
<1>2. \A k \in g .. g + d : u[k] = IF k = g THEN 0 ELSE Wrap(10 * u[k - 1] + t[k] - 48)
  <2>1. \E f : Values(f, t, g, g + d)
    <3>1. g + d \in Nat /\ g <= g + d
      OBVIOUS
    <3> QED
      BY <3>1, ValuesExist
  <2>2. Values(u, t, g, g + d)
    BY <2>1 DEF Values
  <2> HIDE DEF u
  <2> QED
    BY <2>2 DEF Values
<1>3. \A k \in h .. h + d : v[k] = IF k = h THEN 0 ELSE Wrap(10 * v[k - 1] + b[k] - 48)
  <2>1. \E f : Values(f, b, h, h + d)
    <3>1. h + d \in Nat /\ h <= h + d
      OBVIOUS
    <3> QED
      BY <3>1, ValuesExist
  <2>2. Values(v, b, h, h + d)
    BY <2>1 DEF Values
  <2> HIDE DEF v
  <2> QED
    BY <2>2 DEF Values
<1> HIDE DEF u, v
<1> DEFINE T == {j \in 0 .. d : u[g + j] # v[h + j]}
<1>4. T = {}
  <2> SUFFICES ASSUME T # {} PROVE FALSE
    OBVIOUS
  <2>1. T \subseteq Nat
    OBVIOUS
  <2> HIDE DEF T
  <2>2. PICK j \in T : \A m \in T : j <= m
    BY <2>1, LeastNumber
  <2>3. j \in 0 .. d /\ u[g + j] # v[h + j]
    BY <2>2 DEF T
  <2>4. CASE j = 0
    <3>1. g + j = g /\ h + j = h /\ g \in g .. g + d /\ h \in h .. h + d
      BY <2>4
    <3> QED
      BY <1>2, <1>3, <2>3, <3>1
  <2>5. CASE j # 0
    <3>1. /\ j - 1 \in 0 .. d /\ j \in 1 .. d /\ g + j - 1 = g + (j - 1) /\ h + j - 1 = h + (j - 1)
          /\ g + j \in g .. g + d /\ h + j \in h .. h + d /\ g + j # g /\ h + j # h
          /\ ~(j <= j - 1)
      BY <2>3, <2>5
    <3>2. u[g + (j - 1)] = v[h + (j - 1)]
      BY <2>2, <3>1 DEF T
    <3>3. t[g + j] = b[h + j]
      BY <3>1 DEF Same
    <3>4. u[g + j] = Wrap(10 * u[g + (j - 1)] + t[g + j] - 48)
      BY <1>2, <3>1
    <3>5. v[h + j] = Wrap(10 * v[h + (j - 1)] + b[h + j] - 48)
      BY <1>3, <3>1
    <3> QED
      BY <2>3, <3>2, <3>3, <3>4, <3>5
  <2> QED
    BY <2>4, <2>5
<1>5. d \in 0 .. d
  OBVIOUS
<1> QED
  BY <1>1, <1>4, <1>5

(* A result that is no direction. *)
Still(r) == r.keys = <<>> \/ \E k : r.keys = <<k>> /\ ~IsMove(k)

LEMMA StillFailures == \A h : Still(Err(h)) /\ Still(Unfinished(h))
  BY DEF Still, Err, Unfinished, Result

LEMMA StillStroke ==
  ASSUME NEW h, NEW k, ~IsMove(k)
  PROVE  Still(Ok(h, k))
  BY DEF Still, Ok, Result

Others == 0 .. 301 \ (262 .. 265)

LEMMA OthersStill ==
  ASSUME NEW k \in Others, NEW h, NEW m
  PROVE  /\ ~IsMove(Plain(k)) /\ Still(Ok(h, Plain(k)))
         /\ ~IsMove(Modified(k, m)) /\ Still(Ok(h, Modified(k, m)))
<1>1. k \notin 262 .. 265
  BY DEF Others
<1>2. Plain(k).key = k /\ Modified(k, m).key = k
  BY DEF Plain, Modified
<1>3. ~IsMove(Plain(k)) /\ ~IsMove(Modified(k, m))
  BY <1>1, <1>2 DEF IsMove
<1> QED
  BY <1>3, StillStroke

(* The keys that are no letters after ESC [. *)
LEMMA OtherKeys ==
  /\ \A c : Known(ss3Keys, c) => KeyOf(ss3Keys, c) \in Others
  /\ \A c : Known(tildeKeys, c) => KeyOf(tildeKeys, c) \in Others
<1>1. ASSUME NEW table, \A e \in table : e[2] \in Others, NEW c, Known(table, c)
      PROVE  KeyOf(table, c) \in Others
  <2>1. PICK e \in table : e[1] = c
    BY <1>1 DEF Known
  <2>2. (CHOOSE d \in table : d[1] = c) \in table
    BY <2>1
  <2> QED
    BY <1>1, <2>2 DEF KeyOf
<1>2. /\ \A e \in ss3Keys : e[2] \in Others
      /\ \A e \in tildeKeys : e[2] \in Others
  BY DEF ss3Keys, tildeKeys, Others
<1> QED
  BY <1>1, <1>2

LEMMA TildeStill ==
  ASSUME NEW b, NEW h, NEW n
  PROVE  Still(parse_tilde(b, h, n))
<1> DEFINE k == IF Known(tildeKeys, n % 256) THEN KeyOf(tildeKeys, n % 256) ELSE 0
           e == NumberEnd(b, h + 1)
<1>1. k \in Others
  BY OtherKeys DEF Others
<1>2. parse_tilde(b, h, n) =
        CASE b[h + 1] = TILDE -> Ok(h + 1, Plain(k))
          [] b[h + 1] = SEMICOLON ->
               IF Ends(b, e) THEN Unfinished(e)
               ELSE IF b[e + 1] = TILDE THEN Ok(e + 1, Modified(k, Number(b, h + 1, e)))
               ELSE Err(e + 1)
          [] OTHER -> Err(h + 1)
  BY DEF parse_tilde
<1> HIDE DEF k, e
<1>3. parse_tilde(b, h, n) \in {Ok(h + 1, Plain(k)), Unfinished(e), Err(h + 1), Err(e + 1),
                                Ok(e + 1, Modified(k, Number(b, h + 1, e)))}
  BY <1>2 DEF TILDE, SEMICOLON
<1>4. Still(Ok(h + 1, Plain(k)))
  BY <1>1, OthersStill
<1>5. Still(Ok(e + 1, Modified(k, Number(b, h + 1, e))))
  BY <1>1, OthersStill
<1> QED
  BY <1>3, <1>4, <1>5, StillFailures

LEMMA CommandStill ==
  ASSUME NEW b, NEW h
  PROVE  Still(parse_telnet_command(b, h))
<1>1. \A k, size : Still([Result("ok", k, <<>>) EXCEPT !.size = size])
  BY DEF Still, Result
<1> QED
  BY <1>1, StillFailures DEF parse_telnet_command

LEMMA CharactersAreNoMoves ==
  \A k \in 0 .. 258 : /\ ~IsMove(Plain(k)) /\ ~IsMove([Plain(k) EXCEPT !.ctrl = TRUE])
                      /\ ~IsMove([Plain(k) EXCEPT !.shift = TRUE])
<1> SUFFICES ASSUME NEW k \in 0 .. 258
             PROVE  /\ ~IsMove(Plain(k)) /\ ~IsMove([Plain(k) EXCEPT !.ctrl = TRUE])
                    /\ ~IsMove([Plain(k) EXCEPT !.shift = TRUE])
  OBVIOUS
<1>1. k \in 0 .. 301 /\ k \notin 262 .. 265
  OBVIOUS
<1>2. Plain(k) \in KeyStroke
  BY <1>1, KeysAreStrokes
<1>3. Plain(k).key = k
  BY DEF Plain
<1>4. \A x \in KeyStroke :
        [x EXCEPT !.ctrl = TRUE].key = x.key /\ [x EXCEPT !.shift = TRUE].key = x.key
  BY DEF KeyStroke
<1>5. /\ [Plain(k) EXCEPT !.ctrl = TRUE].key = k
      /\ [Plain(k) EXCEPT !.shift = TRUE].key = k
  BY <1>2, <1>4, <1>3, Zenon
<1>6. \A x : x.key = k => ~IsMove(x)
  BY <1>1 DEF IsMove
<1> QED
  BY <1>5, <1>3, <1>6, Zenon

LEMMA SimpleStill ==
  ASSUME NEW b \in Seq(Byte), NEW h \in Nat, h < Len(b)
  PROVE  Still(parse_simple_character(b, h))
<1> DEFINE c == b[h + 1]
           stroke == CASE c = 9 -> Plain(KEY_TAB)
                    [] c \in 1 .. 26 \ {9} -> [Plain(c + 96) EXCEPT !.ctrl = TRUE]
                    [] c \in 65 .. 90 -> [Plain(c + 32) EXCEPT !.shift = TRUE]
                    [] OTHER -> Plain(c)
<1>1. c \in 0 .. 255
  <2>1. b[h + 1] \in Byte
    OBVIOUS
  <2> QED
    BY <2>1 DEF Byte
<1>2. parse_simple_character(b, h) = Ok(h + 1, stroke)
  BY DEF parse_simple_character
<1> HIDE DEF c
<1>3. \A k \in 0 .. 258 :
        /\ ~IsMove(Plain(k)) /\ ~IsMove([Plain(k) EXCEPT !.ctrl = TRUE])
        /\ ~IsMove([Plain(k) EXCEPT !.shift = TRUE])
  BY CharactersAreNoMoves
<1>4. ~IsMove(stroke)
  <2>1. CASE c = 9
    <3>1. stroke = Plain(KEY_TAB) /\ KEY_TAB \in 0 .. 258
      BY <2>1 DEF KEY_TAB
    <3> HIDE DEF stroke
    <3> QED
      BY <1>3, <3>1, Zenon
  <2>2. CASE c \in 1 .. 26 \ {9}
    <3>1. c # 9 /\ c \notin 65 .. 90 /\ c + 96 \in 0 .. 258
      BY <2>2
    <3>2. stroke = [Plain(c + 96) EXCEPT !.ctrl = TRUE]
      BY <2>2, <3>1
    <3> HIDE DEF stroke
    <3> QED
      BY <1>3, <3>1, <3>2, Zenon
  <2>3. CASE c \in 65 .. 90
    <3>1. c # 9 /\ c \notin 1 .. 26 \ {9} /\ c + 32 \in 0 .. 258
      BY <2>3
    <3>2. stroke = [Plain(c + 32) EXCEPT !.shift = TRUE]
      BY <2>3, <3>1
    <3> HIDE DEF stroke
    <3> QED
      BY <1>3, <3>1, <3>2, Zenon
  <2>4. CASE c # 9 /\ c \notin 1 .. 26 \ {9} /\ c \notin 65 .. 90
    <3>1. stroke = Plain(c) /\ c \in 0 .. 258
      BY <1>1, <2>4
    <3> HIDE DEF stroke
    <3> QED
      BY <1>3, <3>1, Zenon
  <2> QED
    BY <2>1, <2>2, <2>3, <2>4
<1> HIDE DEF stroke
<1>5. Still(Ok(h + 1, stroke))
  BY <1>4 DEF Still, Ok, Result
<1> QED
  BY <1>2, <1>5

LEMMA CsiMessage ==
  ASSUME NEW b \in Seq(Byte), NEW h \in Nat, h + 2 <= Len(b), b[h + 1] = ESC, b[h + 2] = CSI
  PROVE  parse_message(b, h) = parse_csi(b, h + 2)
<1>1. curr(b, h + 1) = CSI
  <2>1. ~(h + 1 >= Len(b)) /\ h + 1 + 1 = h + 2
    OBVIOUS
  <2> QED
    BY <2>1 DEF curr, Ends
<1>2. parse_message(b, h) = parse_escaped_character(b, h)
  BY DEF parse_message, ESC, IAC
<1> QED
  BY <1>1, <1>2 DEF parse_escaped_character, CSI, SS3

(* ESC [ and a known letter; the number before it, up to e, is none or 0. *)
LetterAt(b, h, e) ==
  /\ e \in h + 2 .. Len(b) - 1 /\ b[h + 1] = ESC /\ b[h + 2] = CSI
  /\ e = NumberEnd(b, h + 2) /\ Number(b, h + 2, e) = 0
  /\ Known(csiKeys, b[e + 1]) /\ parse_message(b, h) = Letter(b, e, csiKeys, 1)

(* ESC [ 1 ; a number up to f, and a known letter *)
ModifiedAt(b, h, e, f) ==
  /\ e \in h + 2 .. Len(b) - 1 /\ b[h + 1] = ESC /\ b[h + 2] = CSI
  /\ e = NumberEnd(b, h + 2) /\ Number(b, h + 2, e) = 1 /\ b[e + 1] = SEMICOLON
  /\ f \in e + 1 .. Len(b) - 1 /\ f = NumberEnd(b, e + 1)
  /\ Known(csiKeys, b[f + 1])
  /\ parse_message(b, h) = Letter(b, f, csiKeys, Number(b, e + 1, f))

LEMMA UnknownLetterStill ==
  ASSUME NEW b, NEW h, NEW m, ~Known(csiKeys, b[h + 1])
  PROVE  Still(Letter(b, h, csiKeys, m))
  BY StillFailures DEF Letter

LEMMA CsiArrow ==
  ASSUME NEW b \in Seq(Byte), NEW h \in Nat, h + 2 <= Len(b), b[h + 1] = ESC, b[h + 2] = CSI
  PROVE  \/ Still(parse_message(b, h))
         \/ \E e : LetterAt(b, h, e)
         \/ \E e, f : ModifiedAt(b, h, e, f)
<1> DEFINE e == NumberEnd(b, h + 2)
           n == Number(b, h + 2, e)
           f == NumberEnd(b, e + 1)
<1>1. Len(b) \in Nat /\ h + 2 \in 0 .. Len(b)
  OBVIOUS
<1>2. e \in h + 2 .. Len(b)
  BY <1>1, NumberEnds
<1>3. parse_message(b, h) =
        CASE Ends(b, e) -> Unfinished(e)
          [] ~Ends(b, e) /\ n = 0 -> Letter(b, e, csiKeys, 1)
          [] ~Ends(b, e) /\ n \notin {0, 1} -> parse_tilde(b, e, n)
          [] ~Ends(b, e) /\ n = 1 ->
               CASE b[e + 1] = TILDE -> Ok(e + 1, Plain(KEY_HOME))
                 [] b[e + 1] = SEMICOLON ->
                      IF Ends(b, f) THEN Unfinished(f)
                      ELSE Letter(b, f, csiKeys, Number(b, e + 1, f))
                 [] OTHER -> Err(e + 1)
  BY CsiMessage DEF parse_csi
<1> HIDE DEF e, n
<1>4. CASE Ends(b, e)
  BY <1>3, <1>4, StillFailures
<1>5. CASE ~Ends(b, e)
  <2>1. e \in h + 2 .. Len(b) - 1 /\ e + 1 \in 0 .. Len(b)
    BY <1>1, <1>2, <1>5 DEF Ends
  <2>2. f \in e + 1 .. Len(b)
    BY <2>1, NumberEnds
  <2> HIDE DEF f
  <2>3. CASE n = 0
    <3>1. parse_message(b, h) = Letter(b, e, csiKeys, 1)
      BY <1>3, <1>5, <2>3
    <3>2. Known(csiKeys, b[e + 1]) => LetterAt(b, h, e)
      BY <2>1, <2>3, <3>1 DEF LetterAt, e, n
    <3> QED
      BY <3>1, <3>2, UnknownLetterStill
  <2>4. CASE n \notin {0, 1}
    <3>1. parse_message(b, h) = parse_tilde(b, e, n)
      BY <1>3, <1>5, <2>4
    <3> QED
      BY <3>1, TildeStill
  <2>5. CASE n = 1
    <3>1. parse_message(b, h) =
               CASE b[e + 1] = TILDE -> Ok(e + 1, Plain(KEY_HOME))
                 [] b[e + 1] = SEMICOLON ->
                      IF Ends(b, f) THEN Unfinished(f)
                      ELSE Letter(b, f, csiKeys, Number(b, e + 1, f))
                 [] OTHER -> Err(e + 1)
      BY <1>3, <1>5, <2>5
    <3>2. CASE b[e + 1] = TILDE
      <4>1. parse_message(b, h) = Ok(e + 1, Plain(KEY_HOME))
        BY <3>1, <3>2 DEF TILDE, SEMICOLON
      <4>2. KEY_HOME \in Others
        BY DEF KEY_HOME, Others
      <4> QED
        BY <4>1, <4>2, OthersStill
    <3>3. CASE b[e + 1] = SEMICOLON /\ Ends(b, f)
      <4>1. parse_message(b, h) = Unfinished(f)
        BY <3>1, <3>3 DEF TILDE, SEMICOLON
      <4> QED
        BY <4>1, StillFailures
    <3>4. CASE b[e + 1] = SEMICOLON /\ ~Ends(b, f)
      <4>1. parse_message(b, h) = Letter(b, f, csiKeys, Number(b, e + 1, f))
        BY <3>1, <3>4 DEF TILDE, SEMICOLON
      <4>2. f \in e + 1 .. Len(b) - 1
        BY <1>1, <2>1, <2>2, <3>4 DEF Ends
      <4>3. Known(csiKeys, b[f + 1]) => ModifiedAt(b, h, e, f)
        BY <2>1, <2>5, <3>4, <4>1, <4>2 DEF ModifiedAt, e, f, n
      <4> QED
        BY <4>1, <4>3, UnknownLetterStill
    <3>5. CASE b[e + 1] \notin {TILDE, SEMICOLON}
      <4>1. parse_message(b, h) = Err(e + 1)
        BY <3>1, <3>5
      <4> QED
        BY <4>1, StillFailures
    <3> QED
      BY <3>2, <3>3, <3>4, <3>5
  <2> QED
    BY <2>3, <2>4, <2>5
<1> QED
  BY <1>4, <1>5

(* Only ESC [ and a letter is taken for a direction. *)
LEMMA StillOrArrow ==
  ASSUME NEW b \in Seq(Byte), NEW h \in Nat, h < Len(b)
  PROVE  \/ Still(parse_message(b, h))
         \/ \E e : LetterAt(b, h, e)
         \/ \E e, f : ModifiedAt(b, h, e, f)
<1>1. CASE b[h + 1] = IAC
  <2>1. parse_message(b, h) = parse_telnet_command(b, h)
    BY <1>1 DEF parse_message, IAC, ESC
  <2> QED
    BY <2>1, CommandStill
<1>2. CASE b[h + 1] \notin {IAC, ESC}
  BY <1>2, SimpleStill DEF parse_message
<1>3. CASE b[h + 1] = ESC
  <2>1. parse_message(b, h) = parse_escaped_character(b, h)
    BY <1>3 DEF parse_message, ESC, IAC
  <2>2. CASE curr(b, h + 1) = CSI
    <3>1. h + 2 <= Len(b) /\ b[h + 2] = CSI
      BY <2>2 DEF curr, Ends, CSI
    <3> QED
      BY <1>3, <3>1, CsiArrow
  <2>3. CASE curr(b, h + 1) = SS3
    <3>1. parse_message(b, h) = parse_ss3(b, h + 2)
      BY <2>1, <2>3 DEF parse_escaped_character, CSI, SS3
    <3>2. \A c : Known(ss3Keys, c) => Still(Ok(h + 2 + 1, Modified(KeyOf(ss3Keys, c), 1)))
      BY OtherKeys, OthersStill
    <3>3. Still(Letter(b, h + 2, ss3Keys, 1))
      BY <3>2, StillFailures DEF Letter
    <3> QED
      BY <3>1, <3>3, StillFailures DEF parse_ss3
  <2>4. CASE curr(b, h + 1) \notin {CSI, SS3}
    <3>1. parse_message(b, h) = Ok(h + 1, Plain(KEY_ESCAPE))
      BY <2>1, <2>4 DEF parse_escaped_character
    <3>2. KEY_ESCAPE \in Others
      BY DEF KEY_ESCAPE, Others
    <3> QED
      BY <3>1, <3>2, OthersStill
  <2> QED
    BY <2>2, <2>3, <2>4
<1> QED
  BY <1>1, <1>2, <1>3

LEMMA LetterResult ==
  ASSUME NEW b, NEW h, NEW m, Known(csiKeys, b[h + 1])
  PROVE  Letter(b, h, csiKeys, m)
           = [res |-> "ok", head |-> h + 1, keys |-> <<Modified(KeyOf(csiKeys, b[h + 1]), m)>>,
              size |-> <<>>]
  BY DEF Letter, Ok, Result

(* Same bytes, further on. *)
LEMMA SameFrom ==
  ASSUME NEW b, NEW h \in Nat, NEW t, NEW g \in Nat, NEW n \in Nat, Same(b, h, t, g, n),
         NEW k \in Nat, NEW m \in Nat, k + m <= n
  PROVE  Same(b, h + k, t, g + k, m)
<1> SUFFICES ASSUME NEW j \in 1 .. m PROVE t[g + k + j] = b[h + k + j]
  BY DEF Same
<1>1. k + j \in 1 .. n /\ g + k + j = g + (k + j) /\ h + k + j = h + (k + j)
  OBVIOUS
<1> QED
  BY <1>1 DEF Same

(* What t reads like b, where b has ESC [, d digits and a letter. *)
LEMMA LetterElsewhere ==
  ASSUME NEW b \in Seq(Byte), NEW h \in Nat, NEW d \in Nat, NEW e, NEW n \in Nat,
         e = h + 2 + d, n = d + 3, LetterAt(b, h, e),
         NEW t \in Seq(Byte), NEW g \in Nat, g + n <= Len(t), Same(b, h, t, g, n)
  PROVE  /\ parse_message(t, g).keys = parse_message(b, h).keys
         /\ parse_message(t, g).head = g + n
<1> DEFINE x == g + 2 + d
<1>1. /\ e \in h + 2 .. Len(b) - 1 /\ b[h + 1] = ESC /\ b[h + 2] = CSI
      /\ e = NumberEnd(b, h + 2) /\ Number(b, h + 2, e) = 0
      /\ Known(csiKeys, b[e + 1]) /\ parse_message(b, h) = Letter(b, e, csiKeys, 1)
  BY DEF LetterAt
<1>2. /\ e + 1 = h + (d + 3) /\ x + 1 = g + (d + 3) /\ e = h + 2 + d /\ x = g + 2 + d
      /\ h + 2 \in 0 .. Len(b) /\ x \in Nat /\ e < Len(b)
  BY <1>1
<1>3. x < Len(t) /\ g + 2 <= Len(t)
  OBVIOUS
<1> HIDE DEF x
<1>4. t[g + 1] = ESC /\ t[g + 2] = CSI /\ t[x + 1] = b[e + 1]
  <2>1. 1 \in 1 .. d + 3 /\ 2 \in 1 .. d + 3 /\ d + 3 \in 1 .. d + 3
    OBVIOUS
  <2>2. t[g + 1] = b[h + 1] /\ t[g + 2] = b[h + 2] /\ t[g + (d + 3)] = b[h + (d + 3)]
    BY <2>1 DEF Same
  <2> QED
    BY <1>1, <1>2, <2>2
<1>5. Same(b, h + 2, t, g + 2, d + 1) /\ Same(b, h + 2, t, g + 2, d)
  <2>1. d + 3 \in Nat /\ d + 1 \in Nat /\ 2 + (d + 1) <= d + 3 /\ 2 + d <= d + 3
    OBVIOUS
  <2> QED
    BY <2>1, SameFrom
<1>6. NumberEnd(t, g + 2) = x
  <2>1. /\ NumberEnd(b, h + 2) < Len(b) /\ NumberEnd(b, h + 2) < h + 2 + (d + 1)
        /\ g + 2 + (d + 1) <= Len(t) /\ d + 1 \in Nat /\ g + 2 \in Nat
    BY <1>1, <1>2
  <2>2. NumberEnd(t, g + 2) = g + 2 + (NumberEnd(b, h + 2) - (h + 2))
    BY <1>2, <1>5, <2>1, SameEnd
  <2>3. NumberEnd(b, h + 2) = h + 2 + d
    BY <1>1, <1>2
  <2> QED
    BY <1>2, <2>2, <2>3
<1>7. Number(t, g + 2, x) = 0
  <2>1. Number(t, g + 2, g + 2 + d) = Number(b, h + 2, h + 2 + d)
    BY <1>5, SameNumber
  <2> QED
    BY <1>1, <1>2, <2>1
<1>8. parse_message(t, g) = Letter(t, x, csiKeys, 1)
  <2>1. parse_message(t, g) = parse_csi(t, g + 2)
    BY <1>3, <1>4, CsiMessage
  <2>2. ~Ends(t, x)
    BY <1>2, <1>3 DEF Ends
  <2> QED
    BY <1>6, <1>7, <2>1, <2>2 DEF parse_csi
<1> DEFINE k == Modified(KeyOf(csiKeys, b[e + 1]), 1)
<1>9. parse_message(b, h) = [res |-> "ok", head |-> e + 1, keys |-> <<k>>, size |-> <<>>]
  BY <1>1, LetterResult
<1>10. parse_message(t, g) = [res |-> "ok", head |-> x + 1, keys |-> <<k>>, size |-> <<>>]
  BY <1>1, <1>4, <1>8, LetterResult
<1> HIDE DEF k
<1> QED
  BY <1>2, <1>9, <1>10

(* ESC [, d digits up to e, a semicolon, c digits up to f and a letter: n bytes *)
Spans(h, d, c, e, f, n) ==
  e = h + 2 + d /\ f = h + 3 + d + c /\ n = d + c + 4

(* And where it has ESC [ 1 ; and a number. *)
LEMMA ModifiedElsewhere ==
  ASSUME NEW b \in Seq(Byte), NEW h \in Nat, NEW d \in Nat, NEW c \in Nat,
         NEW e, NEW f, NEW n \in Nat,
         Spans(h, d, c, e, f, n), ModifiedAt(b, h, e, f),
         NEW t \in Seq(Byte), NEW g \in Nat, g + n <= Len(t), Same(b, h, t, g, n)
  PROVE  /\ parse_message(t, g).keys = parse_message(b, h).keys
         /\ parse_message(t, g).head = g + n
<1> DEFINE h2 == h + 2
           g2 == g + 2
           x == g2 + d
           p == e + 1
           q == x + 1
           y == q + c
           m == Number(b, p, f)
<1>1. e = h + 2 + d /\ f = h + 3 + d + c /\ n = d + c + 4
  BY DEF Spans
<1>2. e = h2 + d /\ f = p + c
  BY <1>1
<1>3. /\ h2 \in Nat /\ g2 \in Nat /\ e \in Nat /\ x \in Nat /\ p \in Nat /\ q \in Nat
      /\ f \in Nat /\ y \in Nat /\ n \in Nat /\ 3 + d \in Nat /\ d + 1 \in Nat /\ c + 1 \in Nat
  BY <1>1
<1>4. /\ g2 <= Len(t) /\ x < Len(t) /\ y < Len(t)
      /\ g2 + (d + 1) <= Len(t) /\ q + (c + 1) <= Len(t)
  BY <1>1
<1>5. /\ f + 1 = h + n /\ y + 1 = g + n /\ p = h + (3 + d) /\ q = g + (3 + d)
      /\ e < h2 + (d + 1) /\ f < p + (c + 1)
  BY <1>1
<1>6. /\ 2 + (d + 1) <= n /\ 2 + d <= n /\ (3 + d) + (c + 1) <= n /\ (3 + d) + c <= n
      /\ 1 \in 1 .. n /\ 2 \in 1 .. n /\ 3 + d \in 1 .. n /\ n \in 1 .. n
  BY <1>1
<1>7. e - h2 = d /\ f - p = c
  BY <1>1
<1> HIDE DEF h2, g2, x, y, m
<1>8. /\ e \in h2 .. Len(b) - 1 /\ b[h + 1] = ESC /\ b[h + 2] = CSI
      /\ e = NumberEnd(b, h2) /\ Number(b, h2, e) = 1 /\ b[p] = SEMICOLON
      /\ f \in p .. Len(b) - 1 /\ f = NumberEnd(b, p)
      /\ Known(csiKeys, b[f + 1]) /\ parse_message(b, h) = Letter(b, f, csiKeys, m)
  BY DEF ModifiedAt, m, h2
<1> HIDE DEF p, q
<1>9. /\ h2 \in 0 .. Len(b) /\ p \in 0 .. Len(b)
      /\ NumberEnd(b, h2) < Len(b) /\ NumberEnd(b, h2) < h2 + (d + 1)
      /\ NumberEnd(b, p) < Len(b) /\ NumberEnd(b, p) < p + (c + 1)
  <2>1. Len(b) \in Nat /\ e \in h2 .. Len(b) - 1 /\ f \in p .. Len(b) - 1
    BY <1>8
  <2>2. h2 \in 0 .. Len(b) /\ p \in 0 .. Len(b) /\ e < Len(b) /\ f < Len(b)
    BY <1>3, <2>1
  <2> QED
    BY <1>5, <1>8, <2>2
<1>10. t[g + 1] = ESC /\ t[g + 2] = CSI /\ t[q] = SEMICOLON /\ t[y + 1] = b[f + 1]
  <2>1. /\ t[g + 1] = b[h + 1] /\ t[g + 2] = b[h + 2] /\ t[g + (3 + d)] = b[h + (3 + d)]
        /\ t[g + n] = b[h + n]
    BY <1>6 DEF Same
  <2> QED
    BY <1>5, <1>8, <2>1
<1>11. Same(b, h2, t, g2, d + 1) /\ Same(b, h2, t, g2, d)
  BY <1>3, <1>6, SameFrom DEF h2, g2
<1>12. Same(b, p, t, q, c + 1) /\ Same(b, p, t, q, c)
  <2>1. Same(b, h + (3 + d), t, g + (3 + d), c + 1) /\ Same(b, h + (3 + d), t, g + (3 + d), c)
    BY <1>3, <1>6, SameFrom
  <2> QED
    BY <1>5, <2>1
<1>13. NumberEnd(t, g2) = x
  <2> DEFINE o == d + 1
  <2>1. /\ h2 \in 0 .. Len(b) /\ g2 \in Nat /\ o \in Nat /\ g2 + o <= Len(t)
        /\ NumberEnd(b, h2) < Len(b) /\ NumberEnd(b, h2) < h2 + o
        /\ Same(b, h2, t, g2, o)
    BY <1>3, <1>4, <1>9, <1>11
  <2> HIDE DEF o
  <2>2. NumberEnd(t, g2) = g2 + (NumberEnd(b, h2) - h2)
    BY <2>1, SameEnd
  <2> QED
    BY <1>7, <1>8, <2>2 DEF x
<1>14. Number(t, g2, x) = 1
  <2>1. h2 \in Nat /\ g2 \in Nat /\ d \in Nat /\ Same(b, h2, t, g2, d)
    BY <1>3, <1>11
  <2>2. Number(t, g2, g2 + d) = Number(b, h2, h2 + d)
    BY <2>1, SameNumber
  <2>3. Number(b, h2, h2 + d) = 1
    BY <1>2, <1>8
  <2> QED
    BY <2>2, <2>3 DEF x
<1>15. NumberEnd(t, q) = y
  <2> DEFINE o == c + 1
  <2>1. /\ p \in 0 .. Len(b) /\ q \in Nat /\ o \in Nat /\ q + o <= Len(t)
        /\ NumberEnd(b, p) < Len(b) /\ NumberEnd(b, p) < p + o
        /\ Same(b, p, t, q, o)
    BY <1>3, <1>4, <1>9, <1>12
  <2> HIDE DEF o
  <2>2. NumberEnd(t, q) = q + (NumberEnd(b, p) - p)
    BY <2>1, SameEnd
  <2> QED
    BY <1>7, <1>8, <2>2 DEF y
<1>16. Number(t, q, y) = m
  <2>1. p \in Nat /\ q \in Nat /\ c \in Nat /\ Same(b, p, t, q, c)
    BY <1>3, <1>12
  <2>2. Number(t, q, q + c) = Number(b, p, p + c)
    BY <2>1, SameNumber
  <2>3. Number(b, p, p + c) = m
    BY <1>2 DEF m
  <2> QED
    BY <2>2, <2>3 DEF y
<1>17. parse_message(t, g) = Letter(t, y, csiKeys, m)
  <2>1. parse_message(t, g) = parse_csi(t, g2)
    BY <1>4, <1>10, CsiMessage DEF g2
  <2>2. ~Ends(t, x) /\ ~Ends(t, y)
    BY <1>3, <1>4 DEF Ends
  <2>3. t[x + 1] = SEMICOLON /\ NumberEnd(t, x + 1) = y /\ Number(t, x + 1, y) = m
    BY <1>10, <1>15, <1>16 DEF q
  <2> QED
    BY <1>13, <1>14, <2>1, <2>2, <2>3 DEF parse_csi, TILDE, SEMICOLON
<1> DEFINE k == Modified(KeyOf(csiKeys, b[f + 1]), m)
<1>18. parse_message(b, h) = [res |-> "ok", head |-> f + 1, keys |-> <<k>>, size |-> <<>>]
  BY <1>8, LetterResult
<1>19. parse_message(t, g) = [res |-> "ok", head |-> y + 1, keys |-> <<k>>, size |-> <<>>]
  BY <1>8, <1>10, <1>17, LetterResult
<1> HIDE DEF k
<1> QED
  BY <1>5, <1>18, <1>19

(* What is taken for a direction is taken for the same wherever its bytes are. *)
LEMMA ArrowElsewhere ==
  ASSUME NEW b \in Seq(Byte), NEW h \in Nat, h < Len(b), ~Still(parse_message(b, h)),
         NEW n \in Nat, parse_message(b, h).head = h + n,
         NEW t \in Seq(Byte), NEW g \in Nat, g + n <= Len(t), Same(b, h, t, g, n)
  PROVE  /\ n >= 3 /\ b[h + 1] = ESC /\ b[h + 2] = CSI
         /\ parse_message(b, h).res = "ok"
         /\ \E k : parse_message(b, h).keys = <<k>> /\ IsMove(k)
         /\ parse_message(t, g).keys = parse_message(b, h).keys
         /\ parse_message(t, g).head = g + n
<1>1. Len(b) \in Nat
  OBVIOUS
<1>2. CASE \E e : LetterAt(b, h, e)
  <2>1. PICK e : LetterAt(b, h, e)
    BY <1>2
  <2>2. e \in h + 2 .. Len(b) - 1 /\ b[h + 1] = ESC /\ b[h + 2] = CSI
    BY <2>1 DEF LetterAt
  <2>3. PICK d \in Nat : e = h + 2 + d
    <3>1. e - (h + 2) \in Nat /\ e = h + 2 + (e - (h + 2))
      BY <1>1, <2>2
    <3> QED
      BY <3>1
  <2>4. /\ parse_message(b, h).res = "ok" /\ parse_message(b, h).head = e + 1
        /\ \E k : parse_message(b, h).keys = <<k>>
    <3>1. Known(csiKeys, b[e + 1]) /\ parse_message(b, h) = Letter(b, e, csiKeys, 1)
      BY <2>1 DEF LetterAt
    <3> DEFINE k == Modified(KeyOf(csiKeys, b[e + 1]), 1)
    <3>2. parse_message(b, h) = [res |-> "ok", head |-> e + 1, keys |-> <<k>>, size |-> <<>>]
      BY <3>1, LetterResult
    <3> HIDE DEF k
    <3> QED
      BY <3>2
  <2>5. n = d + 3
    <3>1. h + n = e + 1
      BY <2>4
    <3> QED
      BY <2>3, <3>1
  <2>6. /\ parse_message(t, g).keys = parse_message(b, h).keys
        /\ parse_message(t, g).head = g + n
    BY <2>1, <2>3, <2>5, LetterElsewhere
  <2> QED
    BY <2>2, <2>4, <2>5, <2>6 DEF Still
<1>3. CASE \E e, f : ModifiedAt(b, h, e, f)
  <2>1. PICK e, f : ModifiedAt(b, h, e, f)
    BY <1>3
  <2>2. /\ e \in h + 2 .. Len(b) - 1 /\ b[h + 1] = ESC /\ b[h + 2] = CSI
        /\ f \in e + 1 .. Len(b) - 1
    BY <2>1 DEF ModifiedAt
  <2>3. PICK d \in Nat : e = h + 2 + d
    <3>1. e - (h + 2) \in Nat /\ e = h + 2 + (e - (h + 2))
      BY <1>1, <2>2
    <3> QED
      BY <3>1
  <2>4. PICK c \in Nat : f = h + 3 + d + c
    <3>1. f - (e + 1) \in Nat /\ f = h + 3 + d + (f - (e + 1))
      BY <1>1, <2>2, <2>3
    <3> QED
      BY <3>1
  <2>5. /\ parse_message(b, h).res = "ok" /\ parse_message(b, h).head = f + 1
        /\ \E k : parse_message(b, h).keys = <<k>>
    <3> DEFINE m == Number(b, e + 1, f)
    <3>1. Known(csiKeys, b[f + 1]) /\ parse_message(b, h) = Letter(b, f, csiKeys, m)
      BY <2>1 DEF ModifiedAt
    <3> HIDE DEF m
    <3> DEFINE k == Modified(KeyOf(csiKeys, b[f + 1]), m)
    <3>2. parse_message(b, h) = [res |-> "ok", head |-> f + 1, keys |-> <<k>>, size |-> <<>>]
      BY <3>1, LetterResult
    <3> HIDE DEF k
    <3> QED
      BY <3>2
  <2>6. n = d + c + 4
    <3>1. h + n = f + 1
      BY <2>5
    <3> QED
      BY <2>4, <3>1
  <2>7. /\ parse_message(t, g).keys = parse_message(b, h).keys
        /\ parse_message(t, g).head = g + n
    <3>1. Spans(h, d, c, e, f, n)
      BY <2>3, <2>4, <2>6 DEF Spans
    <3> QED
      BY <2>1, <3>1, ModifiedElsewhere
  <2> QED
    BY <2>2, <2>5, <2>6, <2>7 DEF Still
<1> QED
  BY <1>2, <1>3, StillOrArrow

-----------------------------------------------------------------------------
(* What is left of the directions when messages are split *)

(* No ESC [ but at the start, and no ESC at the end of more than one byte. *)
EscapesFirst(bytes) ==
  \A i \in 2 .. Len(bytes) : bytes[i] = ESC => i < Len(bytes) /\ bytes[i + 1] # CSI
EscapesStart == \A k \in Messages : EscapesFirst(k.bytes)

(* Of what was sent, p bytes are gone, then comes the buffer and what is on the wire. *)
Pieces(sent, p) ==
  /\ p \in Nat /\ Len(sent) = p + in_len + Len(wire)
  /\ \A x \in 1 .. in_len : in_buffer[x] = sent[p + x]
  /\ \A x \in 1 .. Len(wire) : wire[x] = sent[p + in_len + x]

(* The directions pressed are copies of directions meant, in order, by the d-th
   message, which has been handled. *)
Copied(mark, p, d, at) ==
  /\ mark[d].bytes <= p + handled
  /\ at \in [MovesIn(pressed) -> 1 .. mark[d].keys]
  /\ \A i \in MovesIn(pressed) :
       /\ pressed[i] = meant[at[i]]
       /\ \A j \in MovesIn(pressed) : i < j => at[i] < at[j]

Accounts(log, mark, sent) ==
  /\ Recorded(log, mark, sent)
  /\ \E p, d, at : d \in 0 .. Len(log) /\ Pieces(sent, p) /\ Copied(mark, p, d, at)

Traced ==
  /\ phase = "idle" => handled = 0
  /\ \E log, mark, sent : Accounts(log, mark, sent)

LEMMA TracedInit == Init => Traced
<1> SUFFICES ASSUME Init PROVE Traced
  OBVIOUS
<1> DEFINE start == [bytes |-> 0, keys |-> 0, size |-> <<>>]
           mark == [i \in 0 .. 0 |-> start]
           at == [i \in {} |-> 0]
<1>1. <<>> \in Size
  BY DEF Size
<1>2. start \in Mark
  BY <1>1 DEF Mark
<1>3. /\ <<>> \in Seq(Messages) /\ <<>> \in Seq(Byte) /\ Len(<<>>) = 0
      /\ mark \in [0 .. 0 -> Mark] /\ mark[0] = start
  BY <1>2
<1> HIDE DEF mark
<1>4. Recorded(<<>>, mark, <<>>)
  BY <1>3 DEF Recorded, Init
<1>5. Pieces(<<>>, 0)
  BY <1>3 DEF Pieces, in_len, Init
<1>6. MovesIn(pressed) = {}
  BY DEF MovesIn, Init
<1>7. Copied(mark, 0, 0, at)
  <2>1. mark[0].bytes = 0 /\ handled = 0
    BY <1>3 DEF Init
  <2> QED
    BY <1>6, <2>1 DEF Copied
<1>8. Accounts(<<>>, mark, <<>>)
  <2>1. 0 \in 0 .. Len(<<>>)
    BY <1>3
  <2> QED
    BY <1>4, <1>5, <1>7, <2>1 DEF Accounts
<1> QED
  BY <1>8 DEF Traced, Init

LEMMA TracedSend ==
  ASSUME TypeOK, Traced, Send
  PROVE  Traced'
<1>1. PICK log, mark, sent : Accounts(log, mark, sent)
  BY DEF Traced
<1>2. PICK p, d, at : d \in 0 .. Len(log) /\ Pieces(sent, p) /\ Copied(mark, p, d, at)
  BY <1>1 DEF Accounts
<1>3. PICK k \in Keyboard(typed + 1) : Sends(k)
  BY DEF Send, Sends
<1>4. k \in Messages
  <2>1. typed + 1 \in 1 .. MaxTyped
    BY TelnetAssumption DEF Send, TypeOK
  <2> QED
    BY <2>1, <1>3 DEF Messages
<1>5. UNCHANGED <<in_buffer, head, handled, phase, pressed>>
  BY DEF Send, lexVars
<1>6. Recorded(log, mark, sent) /\ Len(log) \in Nat /\ Len(sent) \in Nat
  BY <1>1 DEF Accounts, Recorded
<1>7. PICK log2, mark2, sent2 : /\ Added(log, mark, sent, k, log2, mark2, sent2)
                                /\ Recorded(log2, mark2, sent2)'
  BY <1>3, <1>4, <1>6, SendRecorded
<1>8. /\ Len(log2) = Len(log) + 1 /\ Len(sent2) = Len(sent) + Len(k.bytes)
      /\ mark2[d] = mark[d]
      /\ \A i \in 1 .. Len(sent) : sent2[i] = sent[i]
      /\ \A i \in 1 .. Len(k.bytes) : sent2[Len(sent) + i] = k.bytes[i]
  BY <1>2, <1>7 DEF Added
<1>9. /\ Len(k.bytes) \in Nat /\ Len(wire) \in Nat /\ in_len \in Nat
  BY <1>4, MessageTypes DEF TypeOK, in_len
<1>10. /\ \A i \in 1 .. Len(meant) : meant'[i] = meant[i]
       /\ Len(wire') = Len(wire) + Len(k.bytes)
       /\ \A i \in 1 .. Len(wire) : wire'[i] = wire[i]
       /\ \A i \in 1 .. Len(k.bytes) : wire'[Len(wire) + i] = k.bytes[i]
  BY <1>3, <1>4, SendAdds
<1>11. mark[d].keys \in Nat /\ mark[d].keys <= Len(meant) /\ Len(meant) \in Nat
  BY <1>2, <1>6, MarksInRange DEF TypeOK
<1>12. /\ p \in Nat /\ Len(sent) = p + in_len + Len(wire)
       /\ \A x \in 1 .. in_len : in_buffer[x] = sent[p + x]
       /\ \A x \in 1 .. Len(wire) : wire[x] = sent[p + in_len + x]
  BY <1>2 DEF Pieces
<1>13. Pieces(sent2, p)'
  <2>1. in_len' = in_len /\ Len(sent2) = p + in_len + Len(wire')
    <3> DEFINE u == Len(wire)
               v == Len(k.bytes)
    <3>1. u \in Nat /\ v \in Nat /\ Len(wire') = u + v /\ Len(sent2) = p + in_len + u + v
      BY <1>8, <1>9, <1>10, <1>12
    <3> HIDE DEF u, v
    <3>2. Len(sent2) = p + in_len + Len(wire')
      BY <1>9, <1>12, <3>1
    <3> QED
      BY <1>5, <3>2 DEF in_len
  <2>2. ASSUME NEW x \in 1 .. in_len
        PROVE  in_buffer'[x] = sent2[p + x]
    <3>1. p + x \in 1 .. Len(sent)
      BY <1>9, <1>12
    <3> QED
      BY <1>5, <1>8, <1>12, <3>1
  <2>3. ASSUME NEW x \in 1 .. Len(wire')
        PROVE  wire'[x] = sent2[p + in_len + x]
    <3>1. CASE x <= Len(wire)
      <4>1. x \in 1 .. Len(wire) /\ p + in_len + x \in 1 .. Len(sent)
        BY <1>9, <1>12, <3>1
      <4> QED
        BY <1>8, <1>10, <1>12, <4>1
    <3>2. CASE x > Len(wire)
      <4>1. PICK y \in 1 .. Len(k.bytes) : x = Len(wire) + y
        <5>1. x - Len(wire) \in 1 .. Len(k.bytes) /\ x = Len(wire) + (x - Len(wire))
          BY <1>9, <1>10, <3>2
        <5> QED
          BY <5>1
      <4>2. p + in_len + x = Len(sent) + y
        BY <1>9, <1>12, <4>1
      <4> QED
        BY <1>8, <1>10, <4>1, <4>2
    <3> QED
      BY <1>9, <1>10, <3>1, <3>2
  <2> QED
    BY <1>12, <2>1, <2>2, <2>3 DEF Pieces
<1>14. Copied(mark2, p, d, at)'
  <2>1. /\ mark[d].bytes <= p + handled
        /\ at \in [MovesIn(pressed) -> 1 .. mark[d].keys]
        /\ \A i \in MovesIn(pressed) :
             /\ pressed[i] = meant[at[i]]
             /\ \A j \in MovesIn(pressed) : i < j => at[i] < at[j]
    BY <1>2 DEF Copied
  <2>2. MovesIn(pressed') = MovesIn(pressed)
    BY <1>5
  <2>3. ASSUME NEW i \in MovesIn(pressed)
        PROVE  pressed'[i] = meant'[at[i]]
    <3>1. at[i] \in 1 .. Len(meant)
      BY <1>11, <2>1
    <3> QED
      BY <1>5, <1>10, <2>1, <3>1
  <2> QED
    BY <1>5, <1>8, <2>1, <2>2, <2>3 DEF Copied
<1>15. d \in 0 .. Len(log2)
  BY <1>2, <1>6, <1>8
<1>16. Accounts(log2, mark2, sent2)'
  BY <1>7, <1>13, <1>14, <1>15 DEF Accounts
<1> QED
  BY <1>5, <1>16 DEF Traced

LEMMA TracedRecv ==
  ASSUME TypeOK, Traced, Recv
  PROVE  Traced'
<1>1. PICK log, mark, sent : Accounts(log, mark, sent)
  BY DEF Traced
<1>2. PICK p, d, at : d \in 0 .. Len(log) /\ Pieces(sent, p) /\ Copied(mark, p, d, at)
  BY <1>1 DEF Accounts
<1>3. PICK n \in Readable : /\ in_buffer' = in_buffer \o SubSeq(wire, 1, n)
                            /\ wire' = SubSeq(wire, n + 1, Len(wire))
  BY DEF Recv
<1>4. /\ handled = 0 /\ handled' = 0 /\ phase' = "lexing"
      /\ UNCHANGED <<pressed, meant, meantSize>>
  BY DEF Traced, Recv, userVars
<1>5. /\ in_buffer \in Seq(Byte) /\ in_len \in Nat /\ wire \in Seq(Byte) /\ Len(wire) \in Nat
      /\ n \in 1 .. Len(wire)
  BY DEF TypeOK, in_len, Readable
<1> DEFINE u == in_len
           v == Len(wire)
<1>6. /\ in_len' = u + n /\ Len(wire') = v - n
      /\ \A x \in 1 .. u : in_buffer'[x] = in_buffer[x]
      /\ \A x \in 1 .. n : in_buffer'[u + x] = wire[x]
      /\ \A x \in 1 .. v - n : wire'[x] = wire[n + x]
  <2> DEFINE read == SubSeq(wire, 1, n)
  <2>1. read \in Seq(Byte) /\ Len(read) = n /\ \A x \in 1 .. n : read[x] = wire[x]
    BY <1>5
  <2>2. in_buffer' = in_buffer \o read
    BY <1>3
  <2> HIDE DEF read
  <2>3. /\ Len(in_buffer') = Len(in_buffer) + Len(read)
        /\ \A x \in 1 .. Len(in_buffer) : in_buffer'[x] = in_buffer[x]
        /\ \A x \in 1 .. Len(read) : in_buffer'[Len(in_buffer) + x] = read[x]
    <3>1. in_buffer \in Seq(Byte) /\ read \in Seq(Byte)
      BY <1>5, <2>1
    <3>2. /\ Len(in_buffer \o read) = Len(in_buffer) + Len(read)
          /\ \A x \in 1 .. Len(in_buffer) : (in_buffer \o read)[x] = in_buffer[x]
          /\ \A x \in 1 .. Len(read) : (in_buffer \o read)[Len(in_buffer) + x] = read[x]
      BY <3>1
    <3> QED
      BY <2>2, <3>2
  <2>4. Len(wire') = v - n /\ \A x \in 1 .. v - n : wire'[x] = wire[n + x]
    BY <1>3, <1>5
  <2> QED
    BY <2>1, <2>3, <2>4 DEF in_len
<1>7. /\ p \in Nat /\ Len(sent) = p + u + v
      /\ \A x \in 1 .. u : in_buffer[x] = sent[p + x]
      /\ \A x \in 1 .. v : wire[x] = sent[p + u + x]
  BY <1>2 DEF Pieces
<1>8. u \in Nat /\ v \in Nat /\ n \in 1 .. v
  BY <1>5
<1> HIDE DEF u, v
<1>9. Pieces(sent, p)'
  <2>1. Len(sent) = p + in_len' + Len(wire')
    BY <1>6, <1>7, <1>8
  <2>2. ASSUME NEW x \in 1 .. in_len'
        PROVE  in_buffer'[x] = sent[p + x]
    <3>1. CASE x <= u
      BY <1>6, <1>7, <1>8, <3>1
    <3>2. CASE x > u
      <4>1. PICK y \in 1 .. n : x = u + y
        <5>1. x - u \in 1 .. n /\ x = u + (x - u)
          BY <1>6, <1>8, <3>2
        <5> QED
          BY <5>1
      <4>2. y \in 1 .. v /\ p + u + y = p + x
        BY <1>7, <1>8, <4>1
      <4> QED
        BY <1>6, <1>7, <4>1, <4>2
    <3> QED
      BY <1>6, <1>8, <3>1, <3>2
  <2>3. ASSUME NEW x \in 1 .. Len(wire')
        PROVE  wire'[x] = sent[p + in_len' + x]
    <3>1. x \in 1 .. v - n /\ n + x \in 1 .. v /\ p + u + (n + x) = p + in_len' + x
      BY <1>6, <1>7, <1>8
    <3> QED
      BY <1>6, <1>7, <3>1
  <2> QED
    BY <1>7, <2>1, <2>2, <2>3 DEF Pieces
<1>10. Copied(mark, p, d, at)'
  BY <1>2, <1>4 DEF Copied, MovesIn
<1>11. Recorded(log, mark, sent)'
  BY <1>1, <1>4 DEF Accounts, Recorded
<1>12. Accounts(log, mark, sent)'
  BY <1>2, <1>9, <1>10, <1>11 DEF Accounts
<1> QED
  BY <1>4, <1>12 DEF Traced

LEMMA TracedFinish ==
  ASSUME TypeOK, Traced, Finish
  PROVE  Traced'
<1>1. PICK log, mark, sent : Accounts(log, mark, sent)
  BY DEF Traced
<1>2. PICK p, d, at : d \in 0 .. Len(log) /\ Pieces(sent, p) /\ Copied(mark, p, d, at)
  BY <1>1 DEF Accounts
<1>3. /\ in_buffer' = Remainder /\ handled' = 0
      /\ UNCHANGED <<wire, pressed, meant, meantSize>>
  BY DEF Finish, wireVars, userVars
<1>4. /\ in_buffer \in Seq(Byte) /\ in_len \in Nat /\ Len(wire) \in Nat
      /\ handled \in Nat /\ handled <= in_len
  BY DEF TypeOK, in_len
<1>5. PICK o \in Nat : /\ handled <= o /\ o <= in_len /\ in_len' = in_len - o
                       /\ \A x \in 1 .. in_len - o : in_buffer'[x] = in_buffer[o + x]
  <2>1. CASE Ends(in_buffer, head)
    <3>1. in_buffer' = <<>>
      BY <1>3, <2>1 DEF Remainder
    <3>2. in_len' = in_len - in_len /\ 1 .. in_len - in_len = {}
      BY <1>4, <3>1 DEF in_len
    <3> QED
      BY <1>4, <3>2
  <2>2. CASE ~Ends(in_buffer, head)
    <3>1. in_buffer' = SubSeq(in_buffer, handled + 1, Len(in_buffer))
      BY <1>3, <2>2 DEF Remainder, in_len
    <3>2. /\ Len(in_buffer') = Len(in_buffer) - handled
          /\ \A x \in 1 .. Len(in_buffer) - handled : in_buffer'[x] = in_buffer[handled + x]
      BY <1>4, <3>1 DEF in_len
    <3> QED
      BY <1>4, <3>2 DEF in_len
  <2> QED
    BY <2>1, <2>2
<1>6. /\ p \in Nat /\ Len(sent) = p + in_len + Len(wire)
      /\ \A x \in 1 .. in_len : in_buffer[x] = sent[p + x]
      /\ \A x \in 1 .. Len(wire) : wire[x] = sent[p + in_len + x]
  BY <1>2 DEF Pieces
<1> DEFINE q == p + o
<1>7. q \in Nat /\ q + in_len' = p + in_len /\ p + handled <= q
  BY <1>4, <1>5, <1>6
<1>8. \A x \in 1 .. in_len - o : o + x \in 1 .. in_len /\ p + (o + x) = q + x
  BY <1>4, <1>5, <1>6
<1> HIDE DEF q
<1>9. Pieces(sent, q)'
  <2>1. \A x \in 1 .. in_len' : in_buffer'[x] = sent[q + x]
    BY <1>5, <1>6, <1>8
  <2> QED
    BY <1>3, <1>6, <1>7, <2>1 DEF Pieces
<1>10. Copied(mark, q, d, at)'
  <2>1. mark[d].bytes \in Nat /\ mark[d].bytes <= p + handled
    BY <1>1, <1>2, MarksInRange DEF Accounts, Copied
  <2>2. mark[d].bytes <= q + handled'
    BY <1>3, <1>4, <1>6, <1>7, <2>1
  <2> QED
    BY <1>2, <1>3, <2>2 DEF Copied, MovesIn
<1>11. Recorded(log, mark, sent)'
  BY <1>1, <1>3 DEF Accounts, Recorded
<1>12. Accounts(log, mark, sent)'
  BY <1>2, <1>9, <1>10, <1>11 DEF Accounts
<1> QED
  BY <1>3, <1>12 DEF Traced

(* Every byte that was sent belongs to a message. *)
LEMMA PositionIn ==
  ASSUME NEW log, NEW mark, NEW sent, Recorded(log, mark, sent), NEW x \in Nat, x < Len(sent)
  PROVE  \E c \in Nat : /\ c \in 0 .. Len(log) /\ c + 1 \in 1 .. Len(log)
                        /\ mark[c].bytes <= x /\ x < mark[c + 1].bytes
<1> DEFINE T == {i \in 0 .. Len(log) : x < mark[i].bytes}
<1>1. /\ Len(log) \in Nat /\ mark[Len(log)].bytes = Len(sent) /\ mark[0].bytes = 0
      /\ \A i \in 0 .. Len(log) : mark[i].bytes \in Nat
  <2>1. /\ Len(log) \in Nat /\ mark[0] = [bytes |-> 0, keys |-> 0, size |-> <<>>]
        /\ mark[Len(log)] = [bytes |-> Len(sent), keys |-> Len(meant), size |-> meantSize]
    BY DEF Recorded
  <2>2. \A i \in 0 .. Len(log) : mark[i].bytes \in Nat
    BY MarksInRange
  <2> QED
    BY <2>1, <2>2
<1>2. Len(log) \in T /\ T \subseteq Nat
  BY <1>1
<1> HIDE DEF T
<1>3. PICK i \in T : \A m \in T : i <= m
  BY <1>2, LeastNumber
<1>4. i \in 0 .. Len(log) /\ x < mark[i].bytes /\ i # 0
  BY <1>1, <1>3 DEF T
<1>5. i - 1 \in 0 .. Len(log) /\ i - 1 \in Nat /\ i - 1 + 1 = i /\ i \in 1 .. Len(log)
  BY <1>1, <1>4
<1>6. i - 1 \notin T
  BY <1>3, <1>4
<1>7. mark[i - 1].bytes <= x
  BY <1>1, <1>5, <1>6 DEF T
<1> QED
  BY <1>4, <1>5, <1>7

(* What follows a message is another. *)
LEMMA NextBegins ==
  ASSUME NEW log, NEW mark, NEW sent, Recorded(log, mark, sent), NEW c \in 0 .. Len(log),
         mark[c].bytes < Len(sent)
  PROVE  \E l \in Messages : sent[mark[c].bytes + 1] = l.bytes[1]
<1>1. /\ Len(log) \in Nat /\ log \in Seq(Messages) /\ mark[Len(log)].bytes = Len(sent)
      /\ Len(sent) \in Nat
  BY DEF Recorded
<1>2. c \in Nat /\ c + 1 \in 1 .. Len(log)
  BY <1>1
<1> DEFINE l == log[c + 1]
<1>3. Holds(sent, mark[c].bytes, l.bytes)
  BY <1>2, MessageRecorded
<1>4. l \in Messages
  BY <1>1, <1>2
<1> HIDE DEF l
<1>5. 1 \in 1 .. Len(l.bytes)
  BY <1>4, MessageTypes
<1>6. sent[mark[c].bytes + 1] = l.bytes[1]
  BY <1>3, <1>5 DEF Holds
<1> QED
  BY <1>4, <1>6

OpensAt(sent, g) == g + 2 <= Len(sent) /\ sent[g + 1] = ESC /\ sent[g + 2] = CSI

BeginsAt(log, mark, c, g) ==
  c \in 0 .. Len(log) /\ c + 1 \in 1 .. Len(log) /\ mark[c].bytes = g

(* A message that has ESC [ somewhere has it at its start. *)
LEMMA ArrowBegins ==
  ASSUME EscapesStart, NEW log, NEW mark, NEW sent, Recorded(log, mark, sent),
         NEW g \in Nat, OpensAt(sent, g)
  PROVE  \E c \in Nat : BeginsAt(log, mark, c, g)
<1>1. /\ log \in Seq(Messages) /\ Len(log) \in Nat /\ Len(sent) \in Nat
      /\ g + 2 <= Len(sent) /\ sent[g + 1] = ESC /\ sent[g + 2] = CSI
  BY DEF Recorded, OpensAt
<1>2. g < Len(sent)
  BY <1>1
<1>3. PICK c \in Nat : /\ c \in 0 .. Len(log) /\ c + 1 \in 1 .. Len(log)
                       /\ mark[c].bytes <= g /\ g < mark[c + 1].bytes
  BY <1>2, PositionIn
<1> DEFINE k == log[c + 1]
           o == mark[c].bytes
           z == Len(k.bytes)
<1>4. k \in Messages
  BY <1>1, <1>3
<1>5. o \in Nat /\ o <= g
  BY <1>3, MarksInRange
<1>6. mark[c + 1].bytes = o + z /\ Holds(sent, o, k.bytes)
  BY <1>3, MessageRecorded
<1> HIDE DEF k, o
<1>7. z \in Nat
  BY <1>4, MessageTypes
<1>8. g < o + z
  BY <1>3, <1>6
<1>9. \A j \in 1 .. z : sent[o + j] = k.bytes[j]
  BY <1>6 DEF Holds
<1> DEFINE i == g - o + 1
<1>10. i \in 1 .. z /\ o + i = g + 1 /\ o + (i + 1) = g + 2
  <2> HIDE DEF z
  <2> QED
    BY <1>5, <1>7, <1>8
<1> HIDE DEF i
<1>11. k.bytes[i] = ESC
  BY <1>1, <1>9, <1>10
<1>12. i = 1
  <2> SUFFICES ASSUME i # 1 PROVE FALSE
    OBVIOUS
  <2>1. i \in 2 .. Len(k.bytes)
    BY <1>7, <1>10
  <2>2. i < Len(k.bytes) /\ k.bytes[i + 1] # CSI
    BY <1>4, <1>11, <2>1 DEF EscapesStart, EscapesFirst
  <2>3. i + 1 \in 1 .. z
    BY <1>7, <2>1, <2>2
  <2>4. sent[o + (i + 1)] = k.bytes[i + 1]
    BY <1>9, <2>3
  <2> QED
    BY <1>1, <1>10, <2>2, <2>4
<1>13. mark[c].bytes = g
  BY <1>5, <1>10, <1>12 DEF o
<1> QED
  BY <1>3, <1>13 DEF BeginsAt

(* What the lexer takes for a direction, the user has meant. *)
LEMMA ArrowMeant ==
  ASSUME Decodable, EscapesStart, TypeOK, head < in_len,
         ~Still(parse_message(in_buffer, head)),
         NEW log, NEW mark, NEW sent, Recorded(log, mark, sent), NEW p, Pieces(sent, p)
  PROVE  /\ parse_message(in_buffer, head).res = "ok"
         /\ \E c \in Nat : \E k :
              /\ c \in 0 .. Len(log) /\ c + 1 \in 0 .. Len(log)
              /\ parse_message(in_buffer, head).keys = <<k>> /\ IsMove(k)
              /\ mark[c].bytes = p + head
              /\ mark[c + 1].bytes = p + parse_message(in_buffer, head).head
              /\ mark[c + 1].keys = mark[c].keys + 1 /\ k = meant[mark[c].keys + 1]
<1> DEFINE res == parse_message(in_buffer, head)
           n == res.head - head
           g == p + head
<1>1. /\ in_buffer \in Seq(Byte) /\ in_len = Len(in_buffer) /\ in_len \in Nat /\ head \in Nat
      /\ Len(wire) \in Nat /\ head < Len(in_buffer)
  BY DEF TypeOK, in_len
<1>2. /\ p \in Nat /\ Len(sent) = p + in_len + Len(wire)
      /\ \A x \in 1 .. in_len : in_buffer[x] = sent[p + x]
  BY DEF Pieces
<1>3. res.head \in head + 1 .. in_len
  BY <1>1, MessageSound DEF Sound
<1>4. ~Still(res)
  OBVIOUS
<1> HIDE DEF res
<1>5. /\ n \in Nat /\ res.head = head + n /\ g \in Nat /\ g + n <= Len(sent)
      /\ \A j \in 1 .. n : head + j \in 1 .. in_len /\ p + (head + j) = g + j
      /\ p + res.head = g + n
  <2> DEFINE y == res.head
             u == in_len
             v == Len(wire)
  <2>1. /\ y \in head + 1 .. u /\ u \in Nat /\ v \in Nat /\ head \in Nat /\ p \in Nat
        /\ Len(sent) = p + u + v
    BY <1>1, <1>2, <1>3
  <2> HIDE DEF y, u, v
  <2>2. /\ n \in Nat /\ y = head + n /\ g \in Nat /\ p + y = g + n /\ head + n <= u
    BY <2>1 DEF y
  <2>3. g + n <= Len(sent)
    BY <2>1, <2>2
  <2> HIDE DEF n
  <2>4. \A j \in 1 .. n : head + j \in 1 .. u /\ p + (head + j) = g + j
    BY <2>1, <2>2
  <2> QED
    BY <2>2, <2>3, <2>4 DEF y, u
<1> HIDE DEF n, g
<1>6. Same(in_buffer, head, sent, g, n)
  BY <1>2, <1>5 DEF Same
<1>7. sent \in Seq(Byte)
  BY DEF Recorded
<1>8. /\ n >= 3 /\ in_buffer[head + 1] = ESC /\ in_buffer[head + 2] = CSI
      /\ res.res = "ok"
      /\ \E k : res.keys = <<k>> /\ IsMove(k)
      /\ parse_message(sent, g).keys = res.keys
      /\ parse_message(sent, g).head = g + n
  <2>1. parse_message(in_buffer, head).head = head + n /\ ~Still(parse_message(in_buffer, head))
    BY <1>5 DEF res
  <2>2. in_buffer \in Seq(Byte) /\ head \in Nat /\ head < Len(in_buffer)
    BY <1>1
  <2>3. n \in Nat /\ g \in Nat /\ g + n <= Len(sent)
    BY <1>5
  <2>4. /\ n >= 3 /\ in_buffer[head + 1] = ESC /\ in_buffer[head + 2] = CSI
        /\ parse_message(in_buffer, head).res = "ok"
        /\ \E k : parse_message(in_buffer, head).keys = <<k>> /\ IsMove(k)
        /\ parse_message(sent, g).keys = parse_message(in_buffer, head).keys
        /\ parse_message(sent, g).head = g + n
    BY <1>6, <1>7, <2>1, <2>2, <2>3, ArrowElsewhere
  <2> QED
    BY <2>4 DEF res
<1>9. OpensAt(sent, g)
  <2>1. 1 \in 1 .. n /\ 2 \in 1 .. n /\ g + 2 <= g + n /\ Len(sent) \in Nat
    BY <1>5, <1>7, <1>8
  <2> QED
    BY <1>5, <1>6, <1>8, <2>1 DEF Same, OpensAt
<1>10. PICK c \in Nat : BeginsAt(log, mark, c, g)
  BY <1>5, <1>9, ArrowBegins
<1>11. c \in 0 .. Len(log) /\ c + 1 \in 1 .. Len(log) /\ mark[c].bytes = g
  BY <1>10 DEF BeginsAt
<1> DEFINE l == log[c + 1]
<1>12. /\ mark[c + 1].bytes = g + Len(l.bytes) /\ mark[c + 1].keys = mark[c].keys + Len(l.keys)
       /\ Holds(sent, g, l.bytes) /\ Holds(meant, mark[c].keys, l.keys)
  BY <1>11, MessageRecorded
<1>13. l \in Messages
  BY <1>11 DEF Recorded
<1>14. c + 1 \in 0 .. Len(log)
  BY <1>11
<1> HIDE DEF l
<1>15. g + Len(l.bytes) < Len(sent)
         => \E m \in Messages : sent[g + Len(l.bytes) + 1] = m.bytes[1]
  BY <1>12, <1>14, NextBegins
<1>16. parse_message(sent, g).head = g + Len(l.bytes) /\ parse_message(sent, g).keys = l.keys
  BY <1>5, <1>7, <1>12, <1>13, <1>15 DEF Decodable
<1>17. PICK k : res.keys = <<k>> /\ IsMove(k)
  BY <1>8
<1>18. l.keys = <<k>>
  BY <1>8, <1>16, <1>17
<1>19. Len(l.keys) = 1 /\ l.keys[1] = k
  BY <1>18
<1>20. mark[c + 1].keys = mark[c].keys + 1 /\ k = meant[mark[c].keys + 1]
  BY <1>12, <1>19 DEF Holds
<1>21. mark[c].bytes = p + head /\ mark[c + 1].bytes = p + res.head
  BY <1>5, <1>8, <1>11, <1>12, <1>16 DEF g
<1>22. /\ c \in 0 .. Len(log) /\ c + 1 \in 0 .. Len(log)
       /\ res.keys = <<k>> /\ IsMove(k)
       /\ mark[c].bytes = p + head
       /\ mark[c + 1].bytes = p + res.head
       /\ mark[c + 1].keys = mark[c].keys + 1 /\ k = meant[mark[c].keys + 1]
  BY <1>11, <1>14, <1>17, <1>20, <1>21
<1> QED
  BY <1>8, <1>22 DEF res

(* What is no direction adds none to those pressed. *)
LEMMA MovesKept ==
  ASSUME TypeOK, NEW r, Still(r), pressed' = pressed \o r.keys
  PROVE  /\ MovesIn(pressed') = MovesIn(pressed)
         /\ \A i \in MovesIn(pressed) : pressed'[i] = pressed[i]
<1>1. pressed \in Seq(KeyStroke) /\ Len(pressed) \in Nat
  BY DEF TypeOK
<1>2. CASE r.keys = <<>>
  BY <1>1, <1>2
<1>3. CASE \E k : r.keys = <<k>> /\ ~IsMove(k)
  <2>1. PICK k : r.keys = <<k>> /\ ~IsMove(k)
    BY <1>3
  <2>2. /\ Len(pressed') = Len(pressed) + 1 /\ pressed'[Len(pressed) + 1] = k
        /\ \A i \in 1 .. Len(pressed) : pressed'[i] = pressed[i]
    BY <1>1, <2>1
  <2> QED
    BY <1>1, <2>1, <2>2 DEF MovesIn
<1> QED
  BY <1>2, <1>3 DEF Still

(* Another direction is a copy of a later one. *)
LEMMA CopiedMore ==
  ASSUME TypeOK, NEW log, NEW mark, NEW sent, Recorded(log, mark, sent),
         NEW p, p \in Nat, NEW d \in 0 .. Len(log), NEW at, Copied(mark, p, d, at),
         NEW c \in Nat, c \in 0 .. Len(log), c + 1 \in 0 .. Len(log), NEW k,
         mark[c].bytes = p + head, mark[c + 1].bytes <= p + handled',
         mark[c + 1].keys = mark[c].keys + 1, k = meant[mark[c].keys + 1],
         IsMove(k), pressed' = pressed \o <<k>>, meant' = meant
  PROVE  \E new : Copied(mark, p, c + 1, new)'
<1> DEFINE x == Len(pressed) + 1
           y == mark[c].keys + 1
<1>1. PICK new : new = [i \in MovesIn(pressed') |-> IF i = x THEN y ELSE at[i]]
  OBVIOUS
<1>2. /\ pressed \in Seq(KeyStroke) /\ Len(pressed) \in Nat
      /\ head \in Nat /\ handled \in Nat /\ handled <= head
  BY DEF TypeOK
<1>3. /\ mark[d].bytes \in Nat /\ mark[c].bytes \in Nat
      /\ mark[d].keys \in Nat /\ mark[c].keys \in Nat
  BY MarksInRange
<1>4. /\ Len(pressed') = x /\ pressed'[x] = k
      /\ \A i \in 1 .. Len(pressed) : pressed'[i] = pressed[i]
  BY <1>2
<1>5. MovesIn(pressed) \subseteq 1 .. Len(pressed)
  BY DEF MovesIn
<1>6. MovesIn(pressed') = MovesIn(pressed) \cup {x}
  BY <1>2, <1>4 DEF MovesIn
<1>7. /\ x \notin MovesIn(pressed) /\ ~(x < x)
      /\ \A i \in MovesIn(pressed) : i < x /\ ~(x < i)
  BY <1>2, <1>5
<1>8. mark[d].keys <= mark[c].keys
  <2>1. mark[d].bytes <= mark[c].bytes
    BY <1>2, <1>3 DEF Copied
  <2>2. \A i, j \in 0 .. Len(log) :
          i < j => mark[i].bytes < mark[j].bytes /\ mark[i].keys <= mark[j].keys
    BY DEF Recorded
  <2>3. d = c \/ (d < c /\ mark[d].keys <= mark[c].keys) \/ c < d
    BY <2>2
  <2>4. ~(c < d)
    <3>1. c < d => mark[c].bytes < mark[d].bytes
      BY <2>2
    <3> QED
      BY <1>3, <2>1, <3>1
  <2> QED
    BY <1>3, <2>3, <2>4
<1>9. y \in 1 .. y /\ \A i \in 1 .. mark[d].keys : i \in 1 .. y /\ i < y
  <2> DEFINE u == mark[d].keys
             w == mark[c].keys
  <2>1. u \in Nat /\ w \in Nat /\ u <= w /\ y = w + 1
    BY <1>3, <1>8
  <2> HIDE DEF u, w, y
  <2>2. y \in 1 .. y /\ \A i \in 1 .. u : i \in 1 .. y /\ i < y
    BY <2>1
  <2> QED
    BY <2>2 DEF u
<1> HIDE DEF x, y
<1>10. /\ at \in [MovesIn(pressed) -> 1 .. mark[d].keys]
       /\ \A i \in MovesIn(pressed) :
           /\ pressed[i] = meant[at[i]]
           /\ \A j \in MovesIn(pressed) : i < j => at[i] < at[j]
  BY DEF Copied
<1>11. \A i \in MovesIn(pressed) : new[i] = at[i] /\ pressed'[i] = pressed[i]
  BY <1>1, <1>4, <1>5, <1>6, <1>7
<1>12. new[x] = y /\ pressed'[x] = meant[y]
  BY <1>1, <1>4, <1>6 DEF y
<1>13. new \in [MovesIn(pressed') -> 1 .. y]
  BY <1>1, <1>6, <1>9, <1>10
<1>14. ASSUME NEW i \in MovesIn(pressed')
       PROVE  /\ pressed'[i] = meant[new[i]]
              /\ \A j \in MovesIn(pressed') : i < j => new[i] < new[j]
  <2>1. CASE i = x
    BY <1>6, <1>7, <1>12, <2>1
  <2>2. CASE i # x
    <3>1. i \in MovesIn(pressed) /\ new[i] = at[i] /\ at[i] \in 1 .. mark[d].keys
      BY <1>6, <1>10, <1>11, <2>2
    <3>2. pressed'[i] = meant[new[i]]
      BY <1>10, <1>11, <3>1
    <3>3. new[i] < new[x]
      BY <1>9, <1>12, <3>1
    <3>4. \A j \in MovesIn(pressed) : i < j => new[i] < new[j]
      BY <1>10, <1>11, <3>1
    <3>5. \A j \in MovesIn(pressed') : i < j => new[i] < new[j]
      BY <1>6, <3>3, <3>4
    <3> QED
      BY <3>2, <3>5
  <2> QED
    BY <2>1, <2>2
<1>15. mark[c + 1].keys = y /\ mark[c + 1].bytes <= p + handled'
  BY DEF y
<1>16. Copied(mark, p, c + 1, new)'
  <2>1. new \in [MovesIn(pressed') -> 1 .. mark[c + 1].keys]
    BY <1>13, <1>15
  <2>2. \A i \in MovesIn(pressed') :
          /\ pressed'[i] = meant'[new[i]]
          /\ \A j \in MovesIn(pressed') : i < j => new[i] < new[j]
    BY <1>14
  <2> QED
    BY <1>15, <2>1, <2>2 DEF Copied
<1> QED
  BY <1>16

LEMMA TracedLex ==
  ASSUME Decodable, EscapesStart, TypeOK, Traced, Lex
  PROVE  Traced'
<1>1. PICK log, mark, sent : Accounts(log, mark, sent)
  BY DEF Traced
<1>2. PICK p, d, at : d \in 0 .. Len(log) /\ Pieces(sent, p) /\ Copied(mark, p, d, at)
  BY <1>1 DEF Accounts
<1> DEFINE res == parse_message(in_buffer, head)
<1>3. /\ phase' # "idle" /\ head' = res.head /\ pressed' = pressed \o res.keys
      /\ handled' = IF res.res = "unfinished" THEN handled ELSE res.head
      /\ UNCHANGED <<wire, in_buffer, meant, meantSize>>
  BY DEF Lex, wireVars, userVars
<1>4. /\ in_buffer \in Seq(Byte) /\ in_len = Len(in_buffer) /\ in_len \in Nat
      /\ head \in Nat /\ head < in_len /\ handled \in Nat /\ handled <= head
  BY DEF TypeOK, Lex, Ends, in_len
<1>5. Pieces(sent, p)'
  BY <1>2, <1>3 DEF Pieces, in_len
<1>6. Recorded(log, mark, sent)'
  BY <1>1, <1>3 DEF Accounts, Recorded
<1>7. Recorded(log, mark, sent) /\ p \in Nat /\ Len(log) \in Nat
  BY <1>1, <1>2 DEF Accounts, Pieces, Recorded
<1>8. \E e, new : e \in 0 .. Len(log) /\ Copied(mark, p, e, new)'
  <2>1. CASE Still(res)
    <3>1. res.head \in head + 1 .. in_len
      BY <1>4, MessageSound DEF Sound
    <3> HIDE DEF res
    <3>2. handled' \in Nat /\ handled <= handled'
      BY <1>3, <1>4, <3>1
    <3>3. mark[d].bytes \in Nat
      BY <1>2, <1>7, MarksInRange
    <3>4. mark[d].bytes <= p + handled'
      BY <1>2, <1>4, <1>7, <3>2, <3>3 DEF Copied
    <3>5. /\ MovesIn(pressed') = MovesIn(pressed)
          /\ \A i \in MovesIn(pressed) : pressed'[i] = pressed[i]
      BY <1>3, <2>1, MovesKept
    <3>6. Copied(mark, p, d, at)'
      BY <1>2, <1>3, <3>4, <3>5 DEF Copied
    <3> QED
      BY <1>2, <3>6
  <2>2. CASE ~Still(res)
    <3>1. /\ res.res = "ok"
          /\ \E c \in Nat : \E k :
               /\ c \in 0 .. Len(log) /\ c + 1 \in 0 .. Len(log)
               /\ res.keys = <<k>> /\ IsMove(k)
               /\ mark[c].bytes = p + head /\ mark[c + 1].bytes = p + res.head
               /\ mark[c + 1].keys = mark[c].keys + 1 /\ k = meant[mark[c].keys + 1]
      BY <1>2, <1>4, <1>7, <2>2, ArrowMeant
    <3> HIDE DEF res
    <3>2. PICK c \in Nat :
            \E k :
              /\ c \in 0 .. Len(log) /\ c + 1 \in 0 .. Len(log)
              /\ res.keys = <<k>> /\ IsMove(k)
              /\ mark[c].bytes = p + head /\ mark[c + 1].bytes = p + res.head
              /\ mark[c + 1].keys = mark[c].keys + 1 /\ k = meant[mark[c].keys + 1]
      BY <3>1
    <3>3. PICK k :
            /\ c \in 0 .. Len(log) /\ c + 1 \in 0 .. Len(log)
            /\ res.keys = <<k>> /\ IsMove(k)
            /\ mark[c].bytes = p + head /\ mark[c + 1].bytes = p + res.head
            /\ mark[c + 1].keys = mark[c].keys + 1 /\ k = meant[mark[c].keys + 1]
      BY <3>2
    <3>4. handled' = res.head /\ pressed' = pressed \o <<k>> /\ meant' = meant
      BY <1>3, <3>1, <3>3
    <3>5. mark[c + 1].bytes \in Nat /\ mark[c + 1].bytes <= p + handled'
      <4>1. mark[c + 1].bytes \in Nat
        BY <1>7, <3>3, MarksInRange
      <4>2. mark[c + 1].bytes = p + handled'
        BY <3>3, <3>4
      <4> QED
        BY <4>1, <4>2
    <3>6. \E new : Copied(mark, p, c + 1, new)'
      BY <1>2, <1>7, <3>3, <3>4, <3>5, CopiedMore
    <3> QED
      BY <3>3, <3>6
  <2> QED
    BY <2>1, <2>2
<1>9. Accounts(log, mark, sent)'
  BY <1>5, <1>6, <1>8 DEF Accounts
<1> QED
  BY <1>3, <1>9 DEF Traced

LEMMA TracedStep ==
  Decodable /\ EscapesStart /\ TypeOK /\ Traced /\ [Next]_vars => Traced'
<1>1. ASSUME Traced, UNCHANGED vars
      PROVE  Traced'
  <2>1. \A log, mark, sent : Accounts(log, mark, sent)' = Accounts(log, mark, sent)
    BY <1>1 DEF Accounts, Recorded, Pieces, Copied, MovesIn,
                vars, wireVars, lexVars, userVars, in_len
  <2>2. phase' = phase /\ handled' = handled
    BY <1>1 DEF vars, lexVars
  <2> QED
    BY <1>1, <2>1, <2>2 DEF Traced
<1> QED
  BY <1>1, TracedSend, TracedRecv, TracedLex, TracedFinish DEF Next

(* Copies of directions meant are directions meant. *)
LEMMA NoneInvented ==
  TypeOK /\ Traced => SplitInventsNoMove
<1> SUFFICES ASSUME TypeOK, Traced PROVE SplitInventsNoMove
  OBVIOUS
<1>1. PICK log, mark, sent : Accounts(log, mark, sent)
  BY DEF Traced
<1>2. PICK p, d, at : d \in 0 .. Len(log) /\ Pieces(sent, p) /\ Copied(mark, p, d, at)
  BY <1>1 DEF Accounts
<1>3. mark[d].keys \in Nat /\ mark[d].keys <= Len(meant) /\ Len(meant) \in Nat
  <2>1. Recorded(log, mark, sent) /\ Len(meant) \in Nat
    BY <1>1 DEF Accounts, TypeOK
  <2> QED
    BY <1>2, <2>1, MarksInRange
<1>4. /\ at \in [MovesIn(pressed) -> 1 .. mark[d].keys]
      /\ \A i \in MovesIn(pressed) :
           /\ pressed[i] = meant[at[i]]
           /\ \A j \in MovesIn(pressed) : i < j => at[i] < at[j]
  BY <1>2 DEF Copied
<1>5. ASSUME NEW i \in MovesIn(pressed)
      PROVE  at[i] \in MovesIn(meant)
  <2>1. at[i] \in 1 .. Len(meant)
    BY <1>3, <1>4
  <2>2. IsMove(pressed[i])
    BY DEF MovesIn
  <2> QED
    BY <1>4, <2>1, <2>2 DEF MovesIn
<1>6. at \in [MovesIn(pressed) -> MovesIn(meant)]
  BY <1>4, <1>5
<1> QED
  BY <1>4, <1>6 DEF SplitInventsNoMove

(***************************************************************************)
(* Whatever a terminal sends and however the network splits it, the        *)
(* directions passed to game_input are among those the player meant, each  *)
(* at most once and in order, as long as each message by itself is decoded *)
(* and none has ESC [ but at its start (client_telnet_receive).            *)
(***************************************************************************)
THEOREM NoMoveInvented ==
  ASSUME Decodable, EscapesStart
  PROVE  Spec => []SplitInventsNoMove
  BY TracedInit, TracedStep, NoneInvented, TypeCorrect, PTL DEF Spec

(* The bytes of a number are digits. *)
LEMMA NumberEscapesFirst ==
  ASSUME NEW n \in 1 .. 99, NEW t \in Seq(Int), \A j \in 1 .. Len(t) : t[j] # ESC
  PROVE  EscapesFirst(CsiNumber(n) \o t)
<1> DEFINE s == CsiNumber(n)
<1>1. s \in Seq(Int) /\ Len(s) \in Nat /\ \A i \in 2 .. Len(s) : s[i] # ESC
  BY DEF CsiNumber, ESC, CSI
<1> HIDE DEF s
<1>2. /\ Len(s \o t) = Len(s) + Len(t) /\ Len(t) \in Nat
      /\ \A i \in 1 .. Len(s) : (s \o t)[i] = s[i]
      /\ \A j \in 1 .. Len(t) : (s \o t)[Len(s) + j] = t[j]
  BY <1>1
<1>3. ASSUME NEW i \in 2 .. Len(s \o t)
      PROVE  (s \o t)[i] # ESC
  <2>1. CASE i <= Len(s)
    BY <1>1, <1>2, <2>1
  <2>2. CASE i > Len(s)
    <3>1. PICK j \in 1 .. Len(t) : i = Len(s) + j
      <4>1. i - Len(s) \in 1 .. Len(t) /\ i = Len(s) + (i - Len(s))
        BY <1>1, <1>2, <2>2
      <4> QED
        BY <4>1
    <3> QED
      BY <1>2, <3>1
  <2> QED
    BY <1>1, <2>1, <2>2
<1> QED
  BY <1>3 DEF EscapesFirst, s

(* A size below 256 * ESC has no ESC before another byte of a size that could be
   taken for the [. *)
LEMMA ReportEscapesFirst ==
  ASSUME NEW w1 \in Byte, NEW w2 \in Byte, NEW h1 \in Byte, NEW h2 \in Byte,
         256 * w1 + w2 < 256 * ESC, 256 * h1 + h2 < 256 * ESC
  PROVE  EscapesFirst(<<IAC, 250, 31, w1, w2, h1, h2, IAC, 240>>)
<1> DEFINE bytes == <<IAC, 250, 31, w1, w2, h1, h2, IAC, 240>>
<1>1. w1 < ESC /\ h1 < ESC /\ w1 \in Nat /\ h1 \in Nat
  BY DEF ESC, Byte
<1>2. /\ Len(bytes) = 9 /\ bytes[2] = 250 /\ bytes[3] = 31 /\ bytes[4] = w1 /\ bytes[5] = w2
      /\ bytes[6] = h1 /\ bytes[7] = h2 /\ bytes[8] = IAC /\ bytes[9] = 240
  OBVIOUS
<1> HIDE DEF bytes
<1>3. ASSUME NEW i \in 2 .. 9, bytes[i] = ESC
      PROVE  i < 9 /\ bytes[i + 1] # CSI
  <2>1. i # 2 /\ i # 3 /\ i # 4 /\ i # 6 /\ i # 8 /\ i # 9
    BY <1>1, <1>2, <1>3 DEF ESC, IAC
  <2>2. i = 5 \/ i = 7
    BY <2>1
  <2> QED
    BY <1>1, <1>2, <2>2 DEF ESC, CSI, IAC
<1>4. EscapesFirst(bytes)
  BY <1>2, <1>3 DEF EscapesFirst
<1> QED
  BY <1>4 DEF bytes

LEMMA TerminalsEscapesFirst ==
  ASSUME NEW m \in WholeMessages \cup {Escape},
         m.size # <<>> => m.size[1] < 256 * ESC /\ m.size[2] < 256 * ESC
  PROVE  EscapesFirst(m.bytes)
<1>1. \A bytes, key : Stroke(bytes, key).bytes = bytes /\ Nothing(bytes).bytes = bytes
  BY DEF Stroke, Nothing
<1>2. \A a : EscapesFirst(<<a>>)
  BY DEF EscapesFirst
<1>3. \A a \in 64 .. 126, b \in {CSI, SS3} : EscapesFirst(<<ESC, b, a>>)
  BY DEF EscapesFirst, ESC, CSI, SS3
<1>4. /\ \A e \in csiKeys \cup ss3Keys : e[1] \in 64 .. 126
      /\ \A e \in tildeKeys : e[1] \in 1 .. 99
  BY TableCodes DEF csiKeys, ss3Keys, tildeKeys
<1>5. CASE m \in Characters \cup {Escape}
  <2>1. \E a, key : m = Stroke(<<a>>, key)
    BY <1>5, Zenon DEF Characters, Escape
  <2> QED
    BY <1>1, <1>2, <2>1
<1>6. CASE m \in Letters
  <2>1. PICK e \in csiKeys \cup ss3Keys, b \in {CSI, SS3} :
          \E key : m = Stroke(<<ESC, b, e[1]>>, key)
    BY <1>6, Zenon DEF Letters
  <2>2. m.bytes = <<ESC, b, e[1]>>
    BY <1>1, <2>1, Zenon
  <2>3. e[1] \in 64 .. 126
    BY <1>4
  <2> QED
    BY <1>3, <2>2, <2>3
<1>7. CASE m \in Tildes
  <2>1. PICK e \in tildeKeys \cup {<<1, KEY_HOME>>} :
          m = Stroke(CsiNumber(e[1]) \o <<TILDE>>, Plain(e[2]))
    BY <1>7, Zenon DEF Tildes
  <2>2. m.bytes = CsiNumber(e[1]) \o <<TILDE>>
    BY <1>1, <2>1, Zenon
  <2>3. e[1] \in 1 .. 99
    BY <1>4
  <2>4. <<TILDE>> \in Seq(Int) /\ \A j \in 1 .. Len(<<TILDE>>) : <<TILDE>>[j] # ESC
    BY DEF TILDE, ESC
  <2> QED
    BY <2>2, <2>3, <2>4, NumberEscapesFirst
<1>8. CASE m \in ModifiedLetters \cup ModifiedTildes
  <2>1. PICK n \in 1 .. 99, x \in 1 .. 8, y \in 64 .. 126 :
          m.bytes = CsiNumber(n) \o <<SEMICOLON, 48 + x, y>>
    <3>1. CASE m \in ModifiedLetters
      <4>1. PICK e \in csiKeys, s \in {0, 1}, a \in {0, 1}, c \in {0, 1} :
              m = ModifiedLetter(e, s, a, c)
        BY <3>1 DEF ModifiedLetters
      <4>2. Modifiers(s, a, c) \in 1 .. 8
        BY ModifiedIs
      <4>3. m.bytes = CsiNumber(1) \o <<SEMICOLON, 48 + Modifiers(s, a, c), e[1]>>
        BY <1>1, <4>1, Zenon DEF ModifiedLetter
      <4>4. 1 \in 1 .. 99 /\ e[1] \in 64 .. 126
        BY <1>4
      <4> QED
        BY <4>2, <4>3, <4>4
    <3>2. CASE m \in ModifiedTildes
      <4>1. PICK e \in tildeKeys, s \in {0, 1}, a \in {0, 1}, c \in {0, 1} :
              m = ModifiedTilde(e, s, a, c)
        BY <3>2 DEF ModifiedTildes
      <4>2. Modifiers(s, a, c) \in 1 .. 8 /\ TILDE \in 64 .. 126
        <5>1. Modifiers(s, a, c) \in 1 .. 8
          BY ModifiedIs
        <5> QED
          BY <5>1 DEF TILDE
      <4>3. m.bytes = CsiNumber(e[1]) \o <<SEMICOLON, 48 + Modifiers(s, a, c), TILDE>>
        BY <1>1, <4>1, Zenon DEF ModifiedTilde
      <4>4. e[1] \in 1 .. 99
        BY <1>4
      <4> QED
        BY <4>2, <4>3, <4>4
    <3> QED
      BY <1>8, <3>1, <3>2
  <2> DEFINE t == <<SEMICOLON, 48 + x, y>>
  <2>2. t \in Seq(Int) /\ \A j \in 1 .. Len(t) : t[j] # ESC
    BY DEF SEMICOLON, ESC
  <2> HIDE DEF t
  <2>3. EscapesFirst(CsiNumber(n) \o t)
    BY <2>2, NumberEscapesFirst
  <2> QED
    BY <2>1, <2>3 DEF t
<1>9. CASE m \in SizeReports
  <2>1. PICK w1 \in NotDoubled, w2 \in NotDoubled, h1 \in NotDoubled, h2 \in NotDoubled :
          m = SizeReported(w1, w2, h1, h2)
    BY <1>9 DEF SizeReports
  <2>2. /\ m.bytes = <<IAC, 250, 31, w1, w2, h1, h2, IAC, 240>>
        /\ m.size = <<256 * w1 + w2, 256 * h1 + h2>>
    BY <2>1 DEF SizeReported
  <2>3. m.size # <<>> /\ m.size[1] = 256 * w1 + w2 /\ m.size[2] = 256 * h1 + h2
    BY <2>2
  <2>4. w1 \in Byte /\ w2 \in Byte /\ h1 \in Byte /\ h2 \in Byte
    BY DEF NotDoubled, Byte
  <2>5. 256 * w1 + w2 < 256 * ESC /\ 256 * h1 + h2 < 256 * ESC
    BY <2>3
  <2> QED
    BY <2>2, <2>4, <2>5, ReportEscapesFirst
<1>10. CASE m \in Unknowns
  <2>1. CASE \E c \in Finals : m = UnknownLetter(c)
    BY <1>1, <1>3, <2>1 DEF UnknownLetter, Finals
  <2>2. CASE \E n \in CsiNumbers, c \in Finals : m = UnknownNumber(n, c)
    <3>1. PICK n \in CsiNumbers, c \in Finals : m.bytes = CsiNumber(n) \o <<c>>
      BY <1>1, <2>2 DEF UnknownNumber
    <3>2. n \in 1 .. 99 /\ <<c>> \in Seq(Int) /\ \A j \in 1 .. Len(<<c>>) : <<c>>[j] # ESC
      BY DEF CsiNumbers, Finals, ESC
    <3> QED
      BY <3>1, <3>2, NumberEscapesFirst
  <2> QED
    BY <1>10, <2>1, <2>2 DEF Unknowns
<1> QED
  BY <1>5, <1>6, <1>7, <1>8, <1>9, <1>10 DEF WholeMessages

(***************************************************************************)
(* With what xterm and telnet send no direction is invented, repeated or   *)
(* moved before another, however their messages are split, as long as the  *)
(* terminals are below 6912 columns and rows: the bytes of larger sizes    *)
(* can hold ESC [ and a letter, which are taken for a direction once what  *)
(* is before them has been dropped (client_telnet_receive,                 *)
(* parse_telnet_command).                                                  *)
(***************************************************************************)
THEOREM TerminalsInventNoMove ==
  ASSUME Messages \subseteq WholeMessages \cup {Escape},
         Escape \in Messages => \A l \in Messages : l.bytes[1] \notin {CSI, SS3},
         \A k \in Messages :
           k.size # <<>> => k.size[1] < 256 * ESC /\ k.size[2] < 256 * ESC
  PROVE  Spec => []SplitInventsNoMove
<1>1. Decodable
  BY TerminalsDecodable
<1>2. EscapesStart
  BY TerminalsEscapesFirst DEF EscapesStart
<1> QED
  BY <1>1, <1>2, NoMoveInvented
=============================================================================
