------------------------------ MODULE Keyboard ------------------------------
(***************************************************************************)
(* The keyboard driver of src/src/machine/keyboard.c.  The hardware sends  *)
(* a key as one byte, or as the prefix E0 and one byte; every byte is an   *)
(* interrupt.  The driver keeps the modifiers and the prefix between       *)
(* interrupts and puts key codes into a ring that keyboard_read empties.   *)
(*                                                                         *)
(* A few keys stand for the classes the driver distinguishes: a letter, a  *)
(* digit, Enter, Backspace, function keys, the modifiers, and the keys     *)
(* whose byte is shared with another key and told apart by the prefix.     *)
(***************************************************************************)
EXTENDS Integers, Sequences, FiniteSets

CONSTANTS
    Boards,     \* what a behaviour may use: [keys, events: how many key events]
    RingSize    \* KEYBOARD_BUFFER_SIZE

E0 == "e0"
(* The byte of a key without its make or break bit.                        *)
Code(k) == IF k = "rctrl" THEN "ctrl" ELSE IF k = "ralt" THEN "alt"
           ELSE IF k = "lctrl" THEN "ctrl" ELSE IF k = "lalt" THEN "alt"
           ELSE IF k = "up" THEN "keypad8" ELSE k
Extended == {"rctrl", "ralt", "up"}

VARIABLES
    board,   \* the keys of this behaviour and how often they are used
    kbd,     \* kbd_status: [shift, ctrl, alt, caps, e0]
    keys,    \* the ring: a sequence of [sym, mod]
    wire,    \* the bytes the hardware has still to deliver
    held,    \* the keys that are down
    events,  \* key events so far
    press,   \* the latest key event, with what was down and whether Caps Lock was on
    made,    \* the key code the driver generated for it
    both     \* both keys of a modifier were down at once

kvars == <<board, kbd, keys, wire, held, events, press, made, both>>

NoKey == [sym |-> "", mod |-> {}]
Special == {"F1", "F2", "UP"}           \* the codes from 0x80 up

scancode_to_ascii ==
    [c \in {"a", "1", "enter", "bs"} |->
        IF c = "enter" THEN "nl" ELSE c]
scancode_to_ascii_shift ==
    [scancode_to_ascii EXCEPT !["a"] = "A", !["1"] = "!"]

Upper(s) == IF s = "a" THEN "A" ELSE s
Swapped(s) == IF s = "a" THEN "A" ELSE IF s = "A" THEN "a" ELSE s
Flags(st) == {m \in {"shift", "ctrl", "alt"} : st[m]}

(* The modifiers after a byte; Shift and Caps Lock have no prefix.         *)
Modifiers(st, code, make) ==
    [st EXCEPT !.shift = IF ~st.e0 /\ code \in {"lshift", "rshift"} THEN make ELSE @,
               !.ctrl = IF code = "ctrl" THEN make ELSE @,
               !.alt = IF code = "alt" THEN make ELSE @,
               !.caps = IF ~st.e0 /\ code = "caps" /\ make THEN ~@ ELSE @]

(* The character of an unprefixed byte, "" if it has none.                 *)
Character(st, code) ==
    IF code \notin DOMAIN scancode_to_ascii THEN ""
    ELSE IF st.ctrl \/ st.alt THEN Upper(scancode_to_ascii[code])
    ELSE LET c == IF st.shift THEN scancode_to_ascii_shift[code] ELSE scancode_to_ascii[code]
         IN  IF st.caps THEN Swapped(c) ELSE c

FunctionKey(code) == CASE code = "f1" -> "F1" [] code = "f2" -> "F2" [] OTHER -> ""
EditingKey(code) == IF code = "keypad8" THEN "UP" ELSE ""

(* The key code of a make byte.                                            *)
KeyCode(st, code) ==
    LET c == IF st.e0 THEN "" ELSE Character(st, code)
        s == IF st.e0 THEN EditingKey(code) ELSE FunctionKey(code)
    IN  IF c # "" THEN [sym |-> c, mod |-> IF st.ctrl \/ st.alt THEN Flags(st) ELSE {}]
        ELSE IF s # "" THEN [sym |-> s, mod |-> Flags(st)] ELSE NoKey

\* mutation: the prefix is forgotten only after a make byte
handle_scancode_PrefixKept ==
    /\ wire # <<>> /\ wire' = Tail(wire)
    /\ LET b == Head(wire)
           st == Modifiers(kbd, b.code, b.make)
           key == KeyCode(st, b.code)
       IN  IF b.code = E0
           THEN kbd' = [kbd EXCEPT !.e0 = TRUE] /\ UNCHANGED <<keys, made>>
           ELSE /\ kbd' = [st EXCEPT !.e0 = IF b.make THEN FALSE ELSE @]
                /\ made' = IF b.make THEN key ELSE made
                /\ keys' = IF b.make /\ key # NoKey /\ Len(keys) < RingSize - 1
                           THEN Append(keys, key) ELSE keys
    /\ UNCHANGED <<board, held, events, press, both>>

(* keyboard_handler_soft and handle_scancode: one byte.                    *)
handle_scancode ==
    /\ wire # <<>> /\ wire' = Tail(wire)
    /\ LET b == Head(wire)
           st == Modifiers(kbd, b.code, b.make)
           key == KeyCode(st, b.code)
       IN  IF b.code = E0
           THEN kbd' = [kbd EXCEPT !.e0 = TRUE] /\ UNCHANGED <<keys, made>>
           ELSE /\ kbd' = [st EXCEPT !.e0 = FALSE]
                /\ made' = IF b.make THEN key ELSE made
                /\ keys' = IF b.make /\ key # NoKey /\ Len(keys) < RingSize - 1
                           THEN Append(keys, key) ELSE keys
    /\ UNCHANGED <<board, held, events, press, both>>

Pair == [shift |-> {"lshift", "rshift"}, ctrl |-> {"lctrl", "rctrl"}, alt |-> {"lalt", "ralt"}]

(* The hardware: a modifier goes down or up, any other key is struck.      *)
KeyEvent(k) ==
    /\ wire = <<>> /\ events < board.events /\ events' = events + 1
    /\ LET down == k \notin held
           Byte(make) == (IF k \in Extended THEN <<[code |-> E0, make |-> FALSE]>> ELSE <<>>)
                         \o <<[code |-> Code(k), make |-> make]>>
           modifier == \E m \in DOMAIN Pair : k \in Pair[m]
       IN  /\ held' = IF ~modifier THEN held ELSE IF down THEN held \cup {k} ELSE held \ {k}
           /\ wire' = IF modifier THEN Byte(down) ELSE Byte(TRUE) \o Byte(FALSE)
           /\ press' = [key |-> k, held |-> held', caps |-> kbd.caps]
    /\ made' = NoKey
    /\ both' = (both \/ \E m \in DOMAIN Pair : Pair[m] \subseteq held')
    /\ UNCHANGED <<board, kbd, keys>>

KeyboardInit ==                       \* init_keyboard
    /\ board \in Boards
    /\ kbd = [shift |-> FALSE, ctrl |-> FALSE, alt |-> FALSE, caps |-> FALSE, e0 |-> FALSE]
    /\ keys = <<>> /\ wire = <<>> /\ held = {} /\ events = 0
    /\ press = [key |-> "", held |-> {}, caps |-> FALSE]
    /\ made = NoKey /\ both = FALSE

-----------------------------------------------------------------------------
Mods(h) == {m \in {"shift", "ctrl", "alt"} : Pair[m] \cap h # {}}

(* What a key means to the user, given the keys that are down.             *)
Meaning(p) ==
    LET mods == Mods(p.held)
        meta == mods \cap {"ctrl", "alt"} # {}
    IN  CASE p.key = "a" /\ meta -> [sym |-> "A", mod |-> mods]
          [] p.key = "a" /\ ~meta ->
               [sym |-> IF ("shift" \in mods) # p.caps THEN "A" ELSE "a", mod |-> {}]
          [] p.key = "1" -> [sym |-> IF "shift" \in mods /\ ~meta THEN "!" ELSE "1",
                             mod |-> IF meta THEN mods ELSE {}]
          [] p.key = "enter" -> [sym |-> "nl", mod |-> IF meta THEN mods ELSE {}]
          [] p.key = "bs" -> [sym |-> "bs", mod |-> IF meta THEN mods ELSE {}]
          [] p.key = "f1" -> [sym |-> "F1", mod |-> mods]
          [] p.key = "f2" -> [sym |-> "F2", mod |-> mods]
          [] p.key = "up" -> [sym |-> "UP", mod |-> mods]
          [] OTHER -> NoKey

(* handle_scancode: the code generated for a key that goes down is the one *)
(* the keys that are down at that moment give it, and the modifiers are    *)
(* those keys, however makes, breaks and prefixes followed each other, as  *)
(* long as the two keys of one modifier were never down together.          *)
KeysMeanWhatIsHeld ==
    wire = <<>> /\ ~both =>
       /\ Flags(kbd) = Mods(held) /\ ~kbd.e0
       /\ made = Meaning(press)
=============================================================================
