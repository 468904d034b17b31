--------------------------------- MODULE Log --------------------------------
(***************************************************************************)
(* A line of the kernel's log, kernel/log.c with the string functions of   *)
(* kernel/string.c it is built from and the clock of kernel/timer/timer.c. *)
(* A buffer on the stack is the memory from its start on: its bytes and    *)
(* some that belong to others; characters are their codes.  The loop of    *)
(* sprintf_internal takes one step per turn.                               *)
(***************************************************************************)
EXTENDS Integers, Sequences

CONSTANTS
    TEXT, LINE, PREFIX,     \* sizes of the buffers of klogf and klog: 40, 50, 15
    MEMORY,                 \* bound: bytes of memory from a buffer's start on
    MHZ,                    \* 1000000
    Frequency, Counter,     \* values of CNTFRQ_EL0, and of CNTPCT_EL0
    Stack,                  \* what the memory from a buffer's start on may hold
    Call                    \* calls of klogf: format and arguments

Char == 1 .. 255

\* A slot of a va_list, read as a number or as a pointer to a string.
Arg == [num : Nat, str : Seq(Char)]

\* A format can read as many slots as it has characters; those that the caller did
\* not pass hold anything.
ASSUME LogAssumption ==
    /\ {TEXT, LINE, PREFIX} \subseteq 1 .. MEMORY
    /\ MEMORY \in Nat /\ MHZ \in Nat \ {0} /\ Counter \subseteq Nat
    /\ Stack \subseteq [0 .. MEMORY - 1 -> 0 .. 255]
    /\ \A f \in Frequency : f \in Nat /\ f >= MHZ
    /\ \A c \in Call :
         /\ c.format \in Seq(Char)
         /\ c.args \in Seq(Arg) /\ Len(c.args) = Len(c.format)

VARIABLES
    call,               \* what klogf was called with
    freq, cntpct,       \* the timer
    junk,               \* what was on the stack before
    place,              \* where klogf is
    format, args,       \* of sprintf_internal ...
    read, used,         \* ... and how much of either it has read
    buf, str,           \* its buffer, and how far it is in it
    text, line, prefix, \* the buffers of klogf and klog, once they are used
    console             \* what the UART was given

input == <<call, freq, cntpct, junk>>
frame == <<format, args, read, used, buf, str>>
buffers == <<text, line, prefix, console>>
vars == <<input, place, frame, buffers>>

-----------------------------------------------------------------------------
(* string.c.                                                                 *)
Address == 0 .. MEMORY - 1

\* Without a NULL, as after an overflow, up to the end of the memory.
strlen(b, at) == CHOOSE n \in 0 .. MEMORY :
                    /\ at + n >= MEMORY \/ b[at + n] = 0
                    /\ \A k \in 0 .. n - 1 : at + k < MEMORY /\ b[at + k] # 0

\* The NULL-terminated string at a place of a buffer.
String(b, at) == [k \in 1 .. strlen(b, at) |-> b[at + k - 1]]

Store(b, at, s) ==
    [i \in Address |-> IF i \in at .. at + Len(s) - 1 THEN s[i - at + 1] ELSE b[i]]

strcpy(b, at, s) == Store(b, at, Append(s, 0))

strcat(b, at, s) == strcpy(b, at + strlen(b, at), s)

\* memset, mutated: the rest is a word of eight bytes too.
memset_rounded(b, c, n) ==
    [i \in Address |-> IF i \div 8 <= n \div 8 THEN c ELSE b[i]]

\* memset: words of eight bytes, then the rest byte by byte.
memset(b, c, n) ==
    LET big_writes == n \div 8
        small_writes == n - big_writes * 8
    IN  [i \in Address |->
           IF i \div 8 < big_writes \/ i - big_writes * 8 \in 0 .. small_writes - 1
           THEN c ELSE b[i]]

-----------------------------------------------------------------------------
(* log.c.                                                                    *)
Digit(mod) == IF mod < 10 THEN mod + 48 ELSE mod - 10 + 97

\* uint64_to_string: left is num after i turns of its loop, which stores the digits
\* from the last to the first; strrev turns them round.
uint64_to_string(num, base) ==
    LET left[i \in 0 .. num] == IF i = 0 THEN num ELSE left[i - 1] \div base
        digits == CHOOSE i \in 1 .. num : left[i - 1] > 0 /\ left[i] = 0
    IN  IF num = 0 THEN <<48>>
        ELSE [k \in 1 .. digits |-> Digit(left[digits - k] % base)]

\* What %q, %x or %s appends.
Printed(arg, type) ==
    IF type = 115 THEN arg.str
    ELSE uint64_to_string(arg.num, IF type = 120 THEN 16 ELSE 10)

timer_read_systemcounter_usec == cntpct \div (freq \div MHZ)

\* klogf and klog clear their buffer and call sprintf_internal.
sprintf(fmt, slots, cleared) ==
    /\ format' = fmt /\ args' = slots
    /\ read' = 0 /\ used' = 0
    /\ buf' = cleared /\ str' = 0

klogf ==
    /\ place = "klogf" /\ place' = "text"
    /\ sprintf(call.format, call.args, memset(junk, 0, TEXT))
    /\ UNCHANGED <<input, buffers>>

\* A turn of the loop of sprintf_internal stores s at str and goes on.
Put(s) ==
    /\ buf' = Store(buf, str, s) /\ str' = str + 1 /\ read' = read + 1
    /\ UNCHANGED <<input, place, format, args, used, buffers>>

Ordinary ==
    /\ place \in {"text", "prefix"} /\ read < Len(format)
    /\ format[read + 1] # 37
    /\ Put(<<format[read + 1]>>)

\* '%' and another character.
Percent ==
    /\ place \in {"text", "prefix"} /\ read + 1 < Len(format)
    /\ format[read + 1] = 37

\* strcat looks for the end of what is in buf.
Conversion ==
    /\ Percent
    /\ format[read + 2] \in {113, 115, 120}
    /\ LET s == Printed(args[used + 1], format[read + 2])
       IN  buf' = strcat(buf, str, s) /\ str' = str + Len(s)
    /\ read' = read + 2 /\ used' = used + 1
    /\ UNCHANGED <<input, place, format, args, buffers>>

\* An unknown type, mutated: it is skipped like the others.
UnknownSkips ==
    /\ Percent
    /\ format[read + 2] \notin {113, 115, 120}
    /\ buf' = Store(buf, str, <<63>>) /\ str' = str + 1 /\ read' = read + 2
    /\ UNCHANGED <<input, place, format, args, used, buffers>>

\* An unknown type prints '?' and is then read again, as if no '%' had been there.
Unknown ==
    /\ Percent
    /\ format[read + 2] \notin {113, 115, 120}
    /\ Put(<<63>>)

\* sprintf_internal returns: at the end of format, or at a last '%', and then it
\* stores no NULL.
Ended == read = Len(format) \/ (read + 1 = Len(format) /\ format[read + 1] = 37)
Result == IF read = Len(format) THEN Store(buf, str, <<0>>) ELSE buf

\* klogf calls klog, which formats its prefix "[%q] ".
klog ==
    /\ place = "text" /\ place' = "prefix"
    /\ Ended /\ text' = Result
    /\ sprintf(<<91, 37, 113, 93, 32>>,
               [i \in 1 .. 5 |-> [num |-> timer_read_systemcounter_usec, str |-> <<>>]],
               memset(junk, 0, PREFIX))
    /\ UNCHANGED <<input, line, prefix, console>>

\* The rest of klog: prefix, message and a newline go to the UART.
put_string ==
    /\ place = "prefix" /\ place' = "end"
    /\ Ended /\ prefix' = Result
    /\ line' = strcat(strcat(strcpy(junk, 0, String(prefix', 0)), 0, String(text, 0)), 0, <<10>>)
    /\ console' = String(line', 0)
    /\ UNCHANGED <<input, frame, text>>

Done == place = "end" /\ UNCHANGED vars

Init ==
    /\ call \in Call
    /\ freq \in Frequency /\ cntpct \in Counter
    /\ junk \in Stack
    /\ place = "klogf"
    /\ format = <<>> /\ args = <<>> /\ read = 0 /\ used = 0 /\ buf = junk /\ str = 0
    /\ text = junk /\ line = junk /\ prefix = junk
    /\ console = <<>>

Next == klogf \/ Ordinary \/ Conversion \/ Unknown \/ klog \/ put_string \/ Done

Spec == Init /\ [][Next]_vars

-----------------------------------------------------------------------------
(***************************************************************************)
(* Properties.                                                             *)
(***************************************************************************)

\* The number that digits stand for.
ValueOf(digits, base) ==
    LET v[k \in 0 .. Len(digits)] ==
          IF k = 0 THEN 0
          ELSE v[k - 1] * base + (IF digits[k] < 58 THEN digits[k] - 48 ELSE digits[k] - 87)
    IN  v[Len(digits)]

\* Digits that stand for num, without a zero in front.
Denotes(digits, base, num) ==
    /\ ValueOf(digits, base) = num
    /\ Len(digits) > 1 => digits[1] # 48

\* What a format means, read from left to right one character at a time: after k of
\* them, the text so far, the slots used, and whether a '%' waits for its type.
Scan(fmt, slots) ==
    LET scan[k \in 0 .. Len(fmt)] ==
          IF k = 0 THEN [out |-> <<>>, used |-> 0, percent |-> FALSE]
          ELSE LET was == scan[k - 1]
                   out == IF was.percent THEN Append(was.out, 63) ELSE was.out
               IN  IF was.percent /\ fmt[k] \in {113, 115, 120}
                   THEN [out |-> was.out \o Printed(slots[was.used + 1], fmt[k]),
                         used |-> was.used + 1, percent |-> FALSE]
                   ELSE [out |-> IF fmt[k] = 37 THEN out ELSE Append(out, fmt[k]),
                         used |-> was.used, percent |-> fmt[k] = 37]
    IN  scan

Message == Scan(call.format, call.args)[Len(call.format)].out

Stamp == uint64_to_string(timer_read_systemcounter_usec, 10)

\* The message fits the buffers: callers must see to it, and the uptime must have
\* few enough digits.
Fits ==
    /\ Len(Stamp) + 3 < PREFIX
    /\ Len(Message) < TEXT
    /\ Len(Stamp) + 3 + Len(Message) + 1 < LINE

\* A message that fits is printed exactly, as its format means it, although strcat
\* looks for the end of what the buffer holds; numbers read back as what they are.
\* The stamp in front is the time of the clock in microseconds, or, where the clock
\* is not a whole number of MHz, no less.
LineIsExact ==
    place = "end" /\ Fits =>
      /\ console = <<91>> \o Stamp \o <<93, 32>> \o Message \o <<10>>
      /\ \A i \in DOMAIN call.args, base \in {10, 16} :
           Denotes(uint64_to_string(call.args[i].num, base), base, call.args[i].num)
      /\ Len(Stamp) > 1 => Stamp[1] # 48
      /\ ValueOf(Stamp, 10) >= (cntpct * MHZ) \div freq
      /\ freq % MHZ = 0 => ValueOf(Stamp, 10) = (cntpct * MHZ) \div freq

\* A line that fits leaves what is behind the three buffers as it was: no function
\* of string.c writes one byte more than the buffer has, not even for a moment.
WritesStayInside ==
    Fits =>
      \A i \in Address :
        /\ i >= TEXT => text[i] = junk[i] /\ (place = "text" => buf[i] = junk[i])
        /\ i >= PREFIX => prefix[i] = junk[i] /\ (place = "prefix" => buf[i] = junk[i])
        /\ i >= LINE => line[i] = junk[i]
=============================================================================
