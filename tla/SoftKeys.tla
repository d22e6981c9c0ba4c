---- MODULE SoftKeys ----
(***************************************************************************)
(* The strings of the function keys (mosrom.asm): *KEY, OSBYTE 18, the     *)
(* expansion of a key by RDCH, and BREAK at any moment.  One page holds    *)
(* everything: a pointer for every key, at offset Keys the end of the last *)
(* string, then the strings without gaps.  The string of a key starts one  *)
(* byte after its pointer and ends where the next one in the page starts;  *)
(* a key without a string points at the end.                               *)
(***************************************************************************)
EXTENDS Integers, Sequences

CONSTANTS Keys,         \* the number of keys (16)
          Page,         \* the bytes of the page, and the values of one (256)
          Char          \* the characters used in definitions

ASSUME PageAssumption == Keys \in Nat \ {0} /\ Page \in Nat /\ Page > Keys + 1
ASSUME CharAssumption == Char \subseteq 0..(Page - 1)

VARIABLES page,         \* soft_keys_start
          changing,     \* sysvar_KEYB_SOFT_CONSISTANCY is not 0
          length,       \* sysvar_KEYB_SOFTKEY_LENGTH: left of the expansion
          next,         \* mosvar_SOFTKEY_PTR
          pc, key, end, \* where *KEY is, its key, and register B
          gone,         \* zp_mos_OS_wksp2+1, the length of the string removed
          at,           \* the pointer it looks at
          text,         \* the characters it has stored
          want,         \* the strings the user has given to the keys
          ahead,        \* what is left to read of the string being expanded
          spoilt        \* what happened that a definition does not survive

strings == <<page, changing>>
expansion == <<length, next, ahead>>
command == <<pc, key, end, gone, at, text>>
history == <<want, spoilt>>
vars == <<strings, expansion, command, history>>

Byte == 0..(Page - 1)
Key == 0..(Keys - 1)
Pointer == 0..Keys              \* with soft_keys_end_ptr

Cleared == [i \in Byte |-> Keys]
NoStrings == [k \in Key |-> <<>>]

\* x_get_keydef_length: the distance to the nearest pointer above, or the end.
LengthOf(p, k) ==
    LET ends == {(p[Keys] - p[k]) % Page} \cup
                    {p[i] - p[k] : i \in {j \in Pointer : p[j] > p[k]}}
    IN  CHOOSE n \in ends : \A m \in ends : n <= m

Definition(p, k) ==
    [i \in 1..LengthOf(p, k) |-> p[(p[k] + i) % Page]]

\* The first byte x_set_up_soft_key_definition moves down, and how many it does.
After(p, k) == (p[k] + LengthOf(p, k)) % Page
Count(p, k, b) == (b - After(p, k)) % Page

\* lda ,X+; sta ,Y+: from the end of the string of k to its start.  X and Y are
\* the pointers: the string itself starts one byte later.
CloseUp(p, k, b) ==
    [i \in Byte |-> IF i \in p[k]..(p[k] + Count(p, k, b) - 1)
                   THEN p[i - p[k] + After(p, k)] ELSE p[i]]

\* The copy goes down and stays in the page: so it does, says TypeOK, unless
\* the page is spoilt.
InPage(p, k, b) == p[k] <= After(p, k) /\ After(p, k) <= b

-----------------------------------------------------------------------------
Init ==
    /\ page = Cleared /\ changing = FALSE
    /\ length = 0 /\ next = 0 /\ ahead = <<>>
    /\ pc = "idle" /\ key = 0 /\ end = 0 /\ gone = 0 /\ at = 0 /\ text = <<>>
    /\ want = NoStrings /\ spoilt = {}

\* (mutant) *KEY does not look whether a key is being expanded
StarKeyInUse(k) ==
    /\ pc = "idle"
    /\ key' = k /\ end' = page[Keys] /\ text' = <<>>
    /\ changing' = TRUE /\ pc' = "remove"
    /\ UNCHANGED <<page, expansion, gone, at, history>>

\* *KEY k.  While a key is expanded it fails, "Key in use".
StarKey(k) ==
    /\ pc = "idle" /\ length = 0
    /\ key' = k /\ end' = page[Keys] /\ text' = <<>>
    /\ changing' = TRUE /\ pc' = "remove"
    /\ UNCHANGED <<page, expansion, gone, at, history>>

\* x_set_up_soft_key_definition closes up the string of the key, which is the
\* old one before the new one is read, and empty after...
Copy ==
    /\ pc \in {"remove", "store"} /\ InPage(page, key, end)
    /\ page' = CloseUp(page, key, end)
    /\ gone' = LengthOf(page, key) /\ end' = page[key] + Count(page, key, end)
    /\ pc' = IF pc = "remove" THEN "lower" ELSE "raise"
    /\ spoilt' = spoilt \cup IF After(page, key) \in {page[key], end} THEN {}
                             ELSE {"redefinition"}
    /\ UNCHANGED <<changing, expansion, key, at, text, want>>

\* ... lowers the pointers above that of the key, the end among them, by the
\* length of the string removed, one after another...
Lower ==
    /\ pc \in {"lower", "raise"} /\ at <= Keys
    /\ page' = [page EXCEPT ![at] = IF page[at] > page[key]
                                   THEN (page[at] - gone) % Page ELSE page[at]]
    /\ at' = at + 1
    /\ UNCHANGED <<changing, expansion, pc, key, end, gone, text, history>>

\* ... and points the key at the end so lowered, and the end behind the last
\* byte moved.  A *KEY without a text ends here.
Lowered ==
    /\ pc \in {"lower", "raise"} /\ at > Keys
    /\ page' = [page EXCEPT ![key] = page[Keys], ![Keys] = end]
    /\ changing' = FALSE
    /\ want' = [want EXCEPT ![key] = text]
    /\ IF pc = "lower" THEN pc' \in {"read", "idle"} ELSE pc' = "share"
    /\ at' = 0
    /\ UNCHANGED <<expansion, key, end, gone, text, spoilt>>

\* (mutant) the page is taken to be longer than it is
ReadUnbounded(c) ==
    /\ pc = "read"
    /\ end' = (end + 1) % Page
    /\ page' = [page EXCEPT ![end'] = c] /\ text' = Append(text, c)
    /\ UNCHANGED <<changing, expansion, pc, key, gone, at, history>>

\* A character of the new string, behind the last string.
Read(c) ==
    /\ pc = "read" /\ end + 1 < Page
    /\ end' = end + 1
    /\ page' = [page EXCEPT ![end'] = c] /\ text' = Append(text, c)
    /\ UNCHANGED <<changing, expansion, pc, key, gone, at, history>>

\* "Bad Key" when the page is full, and "Bad String" or "Bad Key" anywhere in
\* a text that is not one string: the command ends half way.
Bad ==
    /\ pc = "read"
    /\ pc' = "idle"
    /\ UNCHANGED <<strings, expansion, key, end, gone, at, text, history>>

ReadEnd ==
    /\ pc = "read"
    /\ changing' = TRUE /\ pc' = "store"
    /\ UNCHANGED <<page, expansion, key, end, gone, at, text, history>>

\* LE391: the keys without a string pointed where the new one now starts; they
\* are pointed at the end.
Share ==
    /\ pc = "share"
    /\ page' = [i \in Byte |-> IF i \in Pointer \ {key} /\ page[i] = page[key]
                               THEN page[Keys] ELSE page[i]]
    /\ pc' = "idle"
    /\ UNCHANGED <<changing, expansion, key, end, gone, at, text, history>>

\* OSBYTE 18.  A string being expanded is overwritten too.
ResetKeys ==
    /\ pc = "idle"
    /\ page' = Cleared /\ changing' = FALSE
    /\ want' = NoStrings
    /\ IF length = 0 THEN ahead' = <<>> /\ spoilt' = {}
                     ELSE spoilt' = spoilt \cup {"cleared"} /\ UNCHANGED ahead
    /\ UNCHANGED <<length, next, command>>

\* (mutant) the flag is not looked at
BreakKeepsAll ==
    /\ pc' = "idle" /\ at' = 0 /\ length' = 0 /\ next' = 0 /\ ahead' = <<>>
    /\ spoilt' = IF pc = "share" THEN spoilt \cup {"break"} ELSE spoilt
    /\ UNCHANGED <<strings, want, key, end, gone, text>>

\* BREAK.  A warm reset keeps the strings unless the flag says that they were
\* being changed; any other reset sets the flag.
Break ==
    /\ pc' = "idle" /\ at' = 0 /\ length' = 0 /\ next' = 0 /\ ahead' = <<>>
    /\ \E warm \in BOOLEAN :
          IF changing \/ ~warm
          THEN page' = Cleared /\ want' = NoStrings /\ spoilt' = {}
          ELSE /\ UNCHANGED <<page, want>>
               /\ spoilt' = IF pc = "share" THEN spoilt \cup {"break"} ELSE spoilt
    /\ changing' = FALSE
    /\ UNCHANGED <<key, end, gone, text>>

\* RDCH finds the code of key k in the buffer...
Expand(k) ==
    /\ pc = "idle" /\ length = 0
    /\ next' = page[k] /\ length' = LengthOf(page, k) /\ ahead' = want[k]
    /\ UNCHANGED <<strings, command, history>>

\* ... and each call takes a byte of its string.
NextChar ==
    /\ pc = "idle" /\ length # 0
    /\ next' = (next + 1) % Page /\ length' = length - 1
    /\ ahead' = IF ahead = <<>> THEN ahead ELSE Tail(ahead)
    /\ UNCHANGED <<strings, command, history>>

\* x_Buffer_handling of an input buffer
Flush ==
    /\ pc = "idle"
    /\ length' = 0 /\ ahead' = <<>>
    /\ UNCHANGED <<strings, next, command, history>>

Next ==
    \/ \E k \in Key : StarKey(k) \/ Expand(k)
    \/ \E c \in Char : Read(c)
    \/ Copy \/ Lower \/ Lowered \/ Bad \/ ReadEnd \/ Share
    \/ ResetKeys \/ Break \/ NextChar \/ Flush

Spec == Init /\ [][Next]_vars

-----------------------------------------------------------------------------
\* Pointers and text are bytes; unless the page is spoilt, *KEY never stores more
\* text than the page has room for, and the bytes it moves down are in the page.
TypeOK ==
    /\ page \in [Byte -> Byte] /\ changing \in BOOLEAN
    /\ length \in Byte /\ next \in Byte
    /\ pc \in {"idle", "remove", "lower", "read", "store", "raise", "share"}
    /\ key \in Key /\ end \in Byte /\ gone \in Byte /\ at \in 0..(Keys + 1)
    /\ text \in Seq(Char) /\ ahead \in Seq(Char)
    /\ want \in [Key -> Seq(Char)]
    /\ spoilt \subseteq {"redefinition", "break", "cleared"}
    /\ pc # "idle" /\ spoilt = {} => Len(text) < Page - Keys
    /\ pc \in {"remove", "store"} /\ spoilt = {} => InPage(page, key, end)

Kept == \A k \in Key : Definition(page, k) = want[k]

\* Every key has the string it was last given, whatever the other keys were
\* given, however commands failed half way, and whenever BREAK came -- as long
\* as no string below another was removed, and BREAK did not come between the
\* end of a command's change and the repair of the other pointers.
StringsKept == pc \in {"idle", "read"} /\ spoilt = {} => Kept

\* What RDCH is going to return of the key being expanded is the rest of the
\* string the key was given.
ExpansionIsString ==
    spoilt = {} =>
        ahead = [i \in 1..length |-> page[(next + i) % Page]]

\* "close up string to 0 length" (mosrom.asm:1893): giving a key a new string
\* leaves the strings of the other keys alone.
RedefinitionKeepsStrings ==
    pc \in {"idle", "read"} /\ spoilt \subseteq {"redefinition"} => Kept
====
