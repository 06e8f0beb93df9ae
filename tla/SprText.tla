------------------------------ MODULE SprText -------------------------------
(***************************************************************************)
(* The functions that compute on text: lib/spr_string.c, the error texts   *)
(* of lib/spr_errno.c and lib/spr_dso.c, and the path and mode conversions *)
(* of lib/spr_filesys.c.  Every behaviour is one call with one input; the  *)
(* properties compare what it returns with a definition that does not      *)
(* loop.                                                                   *)
(*                                                                         *)
(* A string is a sequence of signed characters with a 0 in it; a block of  *)
(* memory that is written is a function on offsets, which grows when a     *)
(* write misses it.                                                        *)
(***************************************************************************)
EXTENDS Integers, Sequences, SequencesExt

CONSTANTS
  Chars,       \* characters of strings
  Digits,      \* characters of numbers
  Bytes,       \* bytes of paths
  CodePoints,  \* characters of paths, by their Unicode number
  Errs,        \* error numbers
  Messages,    \* what strerror(), dlerror() and FormatMessage() may say
  MaxLen,      \* bound on the length of a string
  MaxDigits,   \* bound on the number of digits
  MaxBytes,    \* bound on the bytes of a path
  MaxPoints,   \* bound on the characters of a path
  MaxArgs,     \* bound on the number of arguments
  MaxBuf,      \* bound on the size of a buffer
  IntMax,      \* SPR_INT_T_MAX
  SizeMax      \* SPR_SSIZE_T_MAX

LastPoint == 1114111  \* the last character of Unicode

(* Characters are signed; a message has no 0 in it and, unless the system  *)
(* has none to give, more than a full stop and the end of a line.          *)
ASSUME TextAssumption ==
  /\ Chars \cup Digits \cup Errs \subseteq Int /\ Chars \subseteq -128..127
  /\ Bytes \subseteq 1..255 /\ CodePoints \subseteq 1..LastPoint
  /\ {MaxLen, MaxDigits, MaxBytes, MaxPoints, MaxArgs, MaxBuf, IntMax, SizeMax} \subseteq Nat
  /\ \A m \in Messages :
       m \in Seq(Int \ {0}) /\ (m = <<>> \/ \E i \in DOMAIN m : m[i] \notin {10, 13, 46})

VARIABLE call  \* the call that was made, its input and its result

Idle == [fn |-> "none"]
Called(fn, in, out) == call' = [fn |-> fn, in |-> in, out |-> out]

Upto(S, n) == UNION {[1..k -> S] : k \in 0..n}
Strings    == {Append(s, 0) : s \in Upto(Chars \cup {0}, MaxLen)}

(* The loop for (i = 0; i < n; ++i) that is left at a member of hits: the  *)
(* value of i behind it.                                                   *)
First(n, hits) ==
  LET scan[i \in 0..n] == IF i = n \/ i \in hits THEN i ELSE scan[i + 1] IN scan[0]

(* A block of n bytes, and one more behind it that is not its own; a byte  *)
(* that is read behind the end of a string.                                *)
Unset    == -1000
Behind   == -1001
Foreign  == -1002
Block(n) == [k \in 0..n |-> IF k = n THEN Behind ELSE Unset]

(* memmove of a sequence to offset at.                                     *)
Put(mem, at, s) ==
  [k \in DOMAIN mem \cup at..(at + Len(s) - 1) |->
     IF k \in at..(at + Len(s) - 1) THEN s[k - at + 1] ELSE mem[k]]

-----------------------------------------------------------------------------

Digit(c) == c - 48

(* Mutant: the last digit is not compared with that of the limit.          *)
ParseLooseLimit(str, n, max) ==
  LET value[i \in 0..n] ==
        IF i = 0 THEN 0
        ELSE IF value[i - 1] = -1 \/ str[i] \notin 48..57 \/ value[i - 1] > max \div 10 THEN -1
        ELSE value[i - 1] * 10 + Digit(str[i])
  IN  IF n = 0 THEN -1 ELSE value[n]

(* The loop that spr_atoi and spr_atosz share: the value of the first i    *)
(* digits, or -1.                                                          *)
Parse(str, n, max) ==
  LET cutoff == max \div 10
      cutlim == max % 10
      value[i \in 0..n] ==
        IF i = 0 THEN 0
        ELSE LET v == value[i - 1]
             IN  IF v = -1 \/ str[i] \notin 48..57 THEN -1
                 ELSE IF v >= cutoff /\ (v > cutoff \/ Digit(str[i]) > cutlim) THEN -1
                 ELSE v * 10 + Digit(str[i])
  IN  IF n = 0 THEN -1 ELSE value[n]

spr_atoi(str, n)  == Parse(str, n, IntMax)
spr_atosz(str, n) == Parse(str, n, SizeMax)

spr_strlen(s) == First(Len(s), {i \in 0..(Len(s) - 1) : s[i + 1] = 0})

spr_strnlen(s, n) == First(n, {i \in 0..(Len(s) - 1) : s[i + 1] = 0})

Lower(c) == IF c \in 65..90 THEN c + 32 ELSE c

(* spr_strncasecmp; the characters are signed, their difference is, too.   *)
spr_strncasecmp(s1, s2, n) ==
  LET ends == {i \in 0..(Min({Len(s1), Len(s2)}) - 1) :
                 Lower(s1[i + 1]) # Lower(s2[i + 1]) \/ s1[i + 1] = 0}
      i    == First(n, ends)
  IN  IF i = n THEN 0 ELSE Lower(s1[i + 1]) - Lower(s2[i + 1])

(* The same without a limit, which the end of the text comes before.       *)
spr_strcasecmp(s1, s2) == spr_strncasecmp(s1, s2, Len(s1))

NotFound == -1  \* the NULL of the searches, which return an offset

(* The offset of c; the terminating 0 is not found.                        *)
spr_strchr(s, c) ==
  LET len == spr_strlen(s)
      i   == First(len, {k \in 0..(len - 1) : s[k + 1] = c})
  IN  IF i = len THEN NotFound ELSE i

(* The offset of the last c; the search begins at the terminating 0.       *)
spr_strrchr(s, c) ==
  LET len == spr_strlen(s)
      i   == First(len + 1, {k \in 0..len : s[len - k + 1] = c})
  IN  IF i = len + 1 THEN NotFound ELSE len - i

spr_pstrdup(s) ==
  LET len == spr_strlen(s) + 1 IN Put(Block(len), 0, SubSeq(s, 1, len))

(* It copies n bytes, also those behind a string that has fewer.           *)
spr_pstrndup(s, n) ==
  Put(Put(Block(n + 1), 0, [i \in 1..n |-> IF i <= Len(s) THEN s[i] ELSE Foreign]), n, <<0>>)

(* The two loops over the arguments: the lengths, summed up, ...           *)
TotalLen(args) ==
  LET len[i \in 0..Len(args)] == IF i = 0 THEN 0 ELSE len[i - 1] + spr_strlen(args[i]) IN len

(* ... and the copies, each where the one before it ends.                  *)
spr_pstrcat1(args) ==
  LET n   == Len(args)
      len == TotalLen(args)
      str[i \in 0..n] ==
        IF i = 0 THEN Put(Block(len[n] + 1), len[n], <<0>>)
        ELSE Put(str[i - 1], len[i - 1], SubSeq(args[i], 1, spr_strlen(args[i])))
  IN  str[n]

-----------------------------------------------------------------------------

(* Mutant: the 0 comes behind as many characters as there is room for.     *)
CopyTextOff(str, bufsize) ==
  Put(Put(Block(bufsize), 0, SubSeq(str, 1, Min({Len(str), bufsize}))),
      Min({Len(str), bufsize}), <<0>>)

(* A text copied to a buffer, as spr_os_strerror, spr_strerror and         *)
(* spr_dlerror do; the text is given without its 0.  With a bufsize of 0   *)
(* the 0 is written to offset -1.                                          *)
copy_text(str, bufsize) ==
  IF Len(str) < bufsize
  THEN Put(Put(Block(bufsize), 0, str), Len(str), <<0>>)
  ELSE Put(Put(Block(bufsize), 0, SubSeq(str, 1, bufsize)), bufsize - 1, <<0>>)

(* error_list: the texts are runs of a letter, the k-th of length k.       *)
Codes      == <<0, -1, -2, -3, -4, -5, -6, 20101, 20102, 2147483647>>
Text(k)    == [i \in 1..k |-> 64 + k]
error_list == [k \in DOMAIN Codes |-> [code |-> Codes[k], message |-> Text(k)]]
ERR_UNKNOW == 2147483647
DOMAIN_BASE == 20000

spr_list_error(err, bufsize) ==
  LET i == First(Len(Codes), {k \in 0..(Len(Codes) - 1) :
                                error_list[k + 1].code \in {err, ERR_UNKNOW}})
  IN  copy_text(error_list[i + 1].message, bufsize)

NoText == <<>>  \* the NULL of spr_os_strerror

(* FormatMessage writes the text and its 0, in English or, failing that,   *)
(* in the language of the user; then ".\r\n" is removed from the end,      *)
(* backwards from the 0.                                                   *)
Trimmed(str, bufsize) ==
  LET full == Put(Put(Block(bufsize), 0, str), Len(str), <<0>>)
      cut  == First(Len(str), {k \in 0..Len(str) : full[Len(str) - k] \notin {0, 10, 13, 46}})
  IN  [k \in DOMAIN full |-> IF k \in (Len(str) - cut + 1)..Len(str) THEN 0 ELSE full[k]]

(* FormatMessage fails if there is no text, or no room for it.             *)
win32_os_strerror(str, bufsize) ==
  IF bufsize = 0 \/ str = <<>> \/ Len(str) >= bufsize THEN NoText ELSE Trimmed(str, bufsize)

(* spr_strerror; str is what the system says of err.                       *)
spr_strerror(err, str, win32, bufsize) ==
  LET os == IF win32 THEN win32_os_strerror(str, bufsize) ELSE copy_text(str, bufsize)
  IN  IF ~ (err > 0 /\ err < DOMAIN_BASE) THEN spr_list_error(err, bufsize)
      ELSE IF os = NoText THEN spr_list_error(ERR_UNKNOW, bufsize)
      ELSE os

spr_dlerror(str, bufsize) == copy_text(str, bufsize)

-----------------------------------------------------------------------------

(* What spr_utf8_decode returns for text that is not UTF-8.                *)
Invalid == 1073741824

(* The bits of the first byte, the number of bytes that follow, and the    *)
(* largest number that fewer bytes could hold.                             *)
Lead(b) ==
  IF b >= 240 THEN [u |-> b % 8, len |-> 3, valid |-> 65535]
  ELSE IF b >= 224 THEN [u |-> b % 16, len |-> 2, valid |-> 2047]
  ELSE [u |-> b % 32, len |-> 1, valid |-> 127]

(* The number in the bytes of s from p on, of which any byte below 128     *)
(* ends it: the terminating 0, too.                                        *)
Tail6(s, p, u, len) ==
  LET more[k \in 0..len] ==
        IF k = 0 THEN u
        ELSE IF more[k - 1] = Invalid \/ s[p + k] < 128 THEN Invalid
        ELSE more[k - 1] * 64 + (s[p + k] % 64)
  IN  more[len]

(* Mutant: a number that fewer bytes could hold is taken.                  *)
DecodeOverlong(s, p) ==
  IF s[p + 1] < 194 THEN Invalid ELSE Tail6(s, p + 1, Lead(s[p + 1]).u, Lead(s[p + 1]).len)

(* spr_utf8_decode of the bytes of s behind the first p.                   *)
spr_utf8_decode(s, p) ==
  LET lead == Lead(s[p + 1])
      u    == IF s[p + 1] < 194 THEN Invalid ELSE Tail6(s, p + 1, lead.u, lead.len)
  IN  IF u > lead.valid THEN u ELSE Invalid

(* One turn of the loop of spr_path_to_wchar: p bytes are read, out is     *)
(* written, <<>> for NULL.                                                 *)
Turn(s, c, outlen) ==
  LET byte == s[c.p + 1]
      n    == spr_utf8_decode(s, c.p)
      Unit == IF n > 65535 THEN <<55296 + ((n - 65536) \div 1024), 56320 + ((n - 65536) % 1024)>>
              ELSE <<n>>
      Null == [p |-> c.p, out |-> <<>>, runs |-> FALSE]
  IN  IF ~ c.runs THEN c
      ELSE IF Len(c.out) >= outlen THEN Null
      ELSE IF byte < 128 THEN [p |-> c.p + 1, out |-> Append(c.out, byte), runs |-> byte # 0]
      ELSE IF Len(c.out) + 1 = outlen \/ n > LastPoint THEN Null
      ELSE [p |-> c.p + 1 + Lead(byte).len, out |-> c.out \o Unit, runs |-> TRUE]

(* Every turn reads a byte, so that there are no more turns than bytes.    *)
spr_path_to_wchar(s, outlen) ==
  LET loop[k \in 0..Len(s)] ==
        IF k = 0 THEN [p |-> 0, out |-> <<>>, runs |-> TRUE] ELSE Turn(s, loop[k - 1], outlen)
  IN  loop[Len(s)].out

Separator == 47

(* spr_file_full_path of a path that is not empty.                         *)
spr_file_full_path(path, file) ==
  LET n == spr_strlen(path) - (IF path[spr_strlen(path)] = Separator THEN 1 ELSE 0)
  IN  Put(Put(Put(Put(<<>>, 0, SubSeq(path, 1, n)), n, <<Separator>>), n + 1,
          SubSeq(file, 1, spr_strlen(file))), n + 1 + spr_strlen(file), <<0>>)

(* Bits of st_mode and the SPR_FILE_ACCESS bits they become.               *)
ModeBits == {1, 2, 4, 8, 16, 32, 64, 128, 256, 512, 1024, 2048}

spr_access_bit(bit) ==
  CASE bit = 2048 -> 32768 [] bit = 1024 -> 16384 [] bit = 512 -> 8192
    [] bit \in {256, 128, 64} -> bit * 4
    [] bit \in {32, 16, 8} -> bit * 2
    [] OTHER -> bit

(* The number in which the given bits are set, each as of says.            *)
Mask(bits, of) ==
  LET Bit(b) == IF b \in bits THEN of[b] ELSE 0
  IN  Bit(2048) + Bit(256) + Bit(128) + Bit(64) + Bit(1024) + Bit(32) + Bit(16) + Bit(8)
        + Bit(512) + Bit(4) + Bit(2) + Bit(1)

spr_stat_get_access(bits) == Mask(bits, [bit \in ModeBits |-> spr_access_bit(bit)])

-----------------------------------------------------------------------------

(* The UTF-8 bytes and the UTF-16 units of a character.                    *)
Utf8(c) ==
  IF c < 128 THEN <<c>>
  ELSE IF c < 2048 THEN <<192 + (c \div 64), 128 + (c % 64)>>
  ELSE IF c < 65536 THEN <<224 + (c \div 4096), 128 + ((c \div 64) % 64), 128 + (c % 64)>>
  ELSE <<240 + (c \div 262144), 128 + ((c \div 4096) % 64), 128 + ((c \div 64) % 64), 128 + (c % 64)>>

Utf16(c) ==
  IF c < 65536 THEN <<c>> ELSE <<55232 + (c \div 1024), 56320 + (c % 1024)>>

Numbers ==
  \E s \in Upto(Digits, MaxDigits), n \in 0..MaxDigits :
    /\ n <= Len(s)
    /\ \/ Called("atoi", <<s, n, IntMax>>, spr_atoi(s, n))
       \/ Called("atoi", <<s, n, SizeMax>>, spr_atosz(s, n))

Compares ==
  \E s1, s2 \in Strings, n \in -1..MaxLen : Called("casecmp", <<s1, s2, n>>,
    IF n = -1 THEN spr_strcasecmp(s1, s2) ELSE spr_strncasecmp(s1, s2, n))

Searches ==
  \E s \in Strings, c \in Chars \cup {0}, n \in 0..MaxLen :
    Called("search", <<s, c, n>>,
           <<spr_strlen(s), spr_strnlen(s, n), spr_strchr(s, c), spr_strrchr(s, c)>>)

Copies ==
  \/ \E s \in Strings : Called("dup", s, spr_pstrdup(s))
  \/ \E s \in Strings, n \in 0..(MaxLen + 2) : Called("ndup", <<s, n>>, spr_pstrndup(s, n))
  \/ \E args \in Upto({s \in Strings : Len(s) <= MaxLen}, MaxArgs) : Called("cat", args, spr_pstrcat1(args))

ErrorTexts ==
  \E bufsize \in 0..MaxBuf, str \in Messages :
    \/ \E err \in Errs, win32 \in BOOLEAN :
         Called("strerror", <<err, str, win32, bufsize>>, spr_strerror(err, str, win32, bufsize))
    \/ Called("dlerror", <<str, bufsize>>, spr_dlerror(str, bufsize))

Paths ==
  \/ \E b \in Upto(Bytes, MaxBytes), n \in 1..(MaxBytes + 1) :
       Called("bytes", <<b, n>>, spr_path_to_wchar(Append(b, 0), n))
  \/ \E cs \in Upto(CodePoints, MaxPoints), n \in 1..(MaxBytes + 1) :
       Called("wchar", <<cs, n>>,
              spr_path_to_wchar(Append(FlattenSeq([i \in DOMAIN cs |-> Utf8(cs[i])]), 0), n))
  \/ \E path, file \in Strings :
       spr_strlen(path) > 0 /\ Called("join", <<path, file>>, spr_file_full_path(path, file))

Accesses == \E bits \in SUBSET ModeBits : Called("access", bits, spr_stat_get_access(bits))

TextInit == call = Idle
TextNext ==
  /\ call = Idle
  /\ Numbers \/ Compares \/ Searches \/ Copies \/ ErrorTexts \/ Paths \/ Accesses

TextSpec == TextInit /\ [][TextNext]_call

-----------------------------------------------------------------------------

(* The text of a string, and of a block of memory that holds one.          *)
TextOf(s) == SubSeq(s, 1, Min({i \in DOMAIN s : s[i] = 0}) - 1)
Holds(mem, t) ==
  /\ Len(t) \in DOMAIN mem /\ mem[Len(t)] = 0
  /\ \A i \in 1..Len(t) : mem[i - 1] = t[i]

(* A block of n bytes, outside of which nothing was written.               *)
Fits(mem, n) == DOMAIN mem = 0..n /\ mem[n] = Behind

Short(t, n) == SubSeq(t, 1, Min({n, Len(t)}))

(* The entry of the list for an error, the last one if there is none.      *)
Listed(err) == IF err \in Range(Codes) THEN CHOOSE k \in DOMAIN Codes : Codes[k] = err
               ELSE Len(Codes)

(* The number that the first n digits write, however large.                *)
Decimal(s, n) ==
  LET value[i \in 0..n] == IF i = 0 THEN 0 ELSE 10 * value[i - 1] + Digit(s[i]) IN value[n]

(***************************************************************************)
(* spr_atoi and spr_atosz return the value of the digits if they are       *)
(* digits and it is not above the limit of the type, and -1 otherwise.     *)
(***************************************************************************)
NumbersRight ==
  call.fn = "atoi" =>
    LET s == call.in[1]
        n == call.in[2]
        value == Decimal(s, n)
    IN  call.out = IF n > 0 /\ (\A i \in 1..n : s[i] \in 48..57) /\ value <= call.in[3]
                   THEN value ELSE -1

(* What is compared of a string, the whole text if n is -1; the order of   *)
(* two texts, of which the shorter one comes first.                        *)
Compared(s, n) ==
  LET t == IF n = -1 THEN TextOf(s) ELSE Short(TextOf(s), n)
  IN  [i \in DOMAIN t |-> Lower(t[i])]
CharAt(t, i)   == IF i \in DOMAIN t THEN t[i] ELSE 0
Precedes(t, u) ==
  \E i \in 1..(MaxLen + 1) :
    (\A j \in 1..(i - 1) : CharAt(t, j) = CharAt(u, j)) /\ CharAt(t, i) < CharAt(u, i)

(***************************************************************************)
(* spr_strcasecmp and spr_strncasecmp return 0 for texts that are equal    *)
(* but for their case in as many characters as are compared, and otherwise *)
(* the sign of the order of the first characters that differ; with the     *)
(* strings exchanged it is the opposite.                                   *)
(***************************************************************************)
CaseOrder ==
  call.fn = "casecmp" =>
    LET n == call.in[3]
        a == Compared(call.in[1], n)
        b == Compared(call.in[2], n)
    IN  /\ call.out = 0 <=> a = b
        /\ call.out < 0 <=> Precedes(a, b)
        /\ call.out > 0 <=> Precedes(b, a)

(***************************************************************************)
(* spr_strlen and spr_strnlen find the first 0, spr_strchr and spr_strrchr *)
(* the first and the last place of a character in the text: the former     *)
(* never finds a 0, the latter finds the terminating one.                  *)
(***************************************************************************)
SearchesRight ==
  call.fn = "search" =>
    LET text == TextOf(call.in[1])
        c    == call.in[2]
        in   == {i \in DOMAIN text : text[i] = c}
    IN  call.out = <<Len(text), Min({Len(text), call.in[3]}),
                     IF in = {} THEN NotFound ELSE Min(in) - 1,
                     IF c = 0 THEN Len(text) ELSE IF in = {} THEN NotFound ELSE Max(in) - 1>>

(***************************************************************************)
(* The copies of spr_pstrdup, spr_pstrndup and spr_pstrcat1 hold the text, *)
(* its first n characters, and the texts one after the other, in blocks    *)
(* that are large enough and no larger.  They have only bytes of the       *)
(* string, with one exception: spr_pstrndup never looks at the length, and *)
(* with an n of more bytes than the string has, its 0 included, it reads,  *)
(* and copies, what lies behind the string.                                *)
(***************************************************************************)
CopiesWhole ==
  /\ call.fn = "dup" => /\ Holds(call.out, TextOf(call.in))
                        /\ Fits(call.out, Len(TextOf(call.in)) + 1)
  /\ call.fn = "ndup" => /\ Holds(call.out, Short(TextOf(call.in[1]), call.in[2]))
                         /\ Fits(call.out, call.in[2] + 1)
                         /\ (\E k \in DOMAIN call.out : call.out[k] = Foreign)
                              <=> call.in[2] > Len(call.in[1])
  /\ call.fn = "cat" =>
       LET all == FlattenSeq([i \in DOMAIN call.in |-> TextOf(call.in[i])])
       IN  Holds(call.out, all) /\ Fits(call.out, Len(all) + 1)

(***************************************************************************)
(* spr_strerror and spr_dlerror leave a terminated text in the buffer and  *)
(* write nothing outside of it: as much of the message as there is room    *)
(* for, on Win32 without the full stop and the end of line.  The exception *)
(* is a buffer of size 0, which none of the three copies looks for: the 0  *)
(* is written to buf[bufsize - 1], the byte before it.                     *)
(***************************************************************************)
ErrorTextFits ==
  /\ call.fn = "dlerror" =>
       LET size == call.in[2]
       IN  /\ Fits(call.out, size) <=> size > 0
           /\ size > 0 => Holds(call.out, Short(call.in[1], size - 1))
  /\ call.fn = "strerror" =>
       LET err   == call.in[1]
           str   == call.in[2]
           size  == call.in[4]
           os    == err \in 1..(DOMAIN_BASE - 1)
           ends  == {k \in DOMAIN str : str[k] \notin {10, 13, 46}}
       IN  /\ Fits(call.out, size) <=> size > 0
           /\ size > 0 => Holds(call.out,
                IF os /\ ~ call.in[3] THEN Short(str, size - 1)
                ELSE IF os /\ Len(str) \in 1..(size - 1) THEN SubSeq(str, 1, Max(ends))
                ELSE Short(Text(Listed(err)), size - 1))

(***************************************************************************)
(* A path in UTF-8 becomes its UTF-16 form with a 0 at the end, or NULL if *)
(* and only if there is no room for it.  This is the function alone: its   *)
(* Win32 callers give twice the room there is and do not look for NULL,    *)
(* which SprDir and SprFile model.                                         *)
(***************************************************************************)
PathConverted ==
  call.fn = "wchar" =>
    LET units == Append(FlattenSeq([i \in DOMAIN call.in[1] |-> Utf16(call.in[1][i])]), 0)
    IN  call.out = IF Len(units) <= call.in[2] THEN units ELSE <<>>

(* The ASCII characters of a sequence of bytes or of units.                *)
Ascii(s) ==
  LET f[i \in 0..Len(s)] ==
        IF i = 0 THEN <<>> ELSE IF s[i] < 128 THEN Append(f[i - 1], s[i]) ELSE f[i - 1]
  IN  f[Len(s)]

(***************************************************************************)
(* Whatever bytes spr_path_to_wchar is given, it writes no more units than *)
(* there is room for, and no ASCII character or 0 that is not an ASCII     *)
(* byte of the path: malformed text makes no separator and no end.         *)
(***************************************************************************)
NoAsciiInvented ==
  call.fn = "bytes" /\ call.out # <<>> =>
    /\ Len(call.out) <= call.in[2]
    /\ Ascii(call.out) = Append(Ascii(call.in[1]), 0)

(***************************************************************************)
(* spr_file_full_path puts one separator between a path that does not end  *)
(* in two and the name.                                                    *)
(***************************************************************************)
PathJoined ==
  call.fn = "join" =>
    LET path == TextOf(call.in[1])
        file == TextOf(call.in[2])
        dir  == IF Last(path) = Separator THEN path ELSE Append(path, Separator)
    IN  Holds(call.out, dir \o file) /\ DOMAIN call.out = 0..Len(dir \o file)

(***************************************************************************)
(* spr_stat_get_access turns the octal digits of a mode into the digits of *)
(* a hexadecimal number, the first one doubled.                            *)
(***************************************************************************)
AccessDigits ==
  call.fn = "access" =>
    LET mode == Mask(call.in, [bit \in ModeBits |-> bit])
    IN  call.out = (mode \div 512) * 8192 + ((mode \div 64) % 8) * 256
                     + ((mode \div 8) % 8) * 16 + (mode % 8)

(***************************************************************************)
(* Numbers, comparisons and searches agree with their definitions.         *)
(***************************************************************************)
StringsRight == NumbersRight /\ CaseOrder /\ SearchesRight

(***************************************************************************)
(* Whatever is copied to a block or buffer is whole, terminated, and       *)
(* inside it, but for a buffer of size 0; and nothing else is copied, but  *)
(* for an n that spr_pstrndup was given too large.                         *)
(***************************************************************************)
BuffersKept == CopiesWhole /\ ErrorTextFits

(***************************************************************************)
(* Paths and access modes mean the same after their conversion.            *)
(***************************************************************************)
PathsRight == PathConverted /\ NoAsciiInvented /\ PathJoined /\ AccessDigits
=============================================================================
