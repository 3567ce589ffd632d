-------------------------------- MODULE PS2 --------------------------------
(***************************************************************************)
(* The constructor of PS2Controller (keyboard.h) against the controller    *)
(* and its two devices, which are external. The constructor is a straight  *)
(* line of port accesses, Script; poll_write waits until the controller    *)
(* has taken what was written, poll_read until there is a byte to read,    *)
(* both without a time-out. A command is written without waiting at all:   *)
(* if the controller is slow it replaces the byte before it, and lost      *)
(* records that.                                                           *)
(*                                                                         *)
(* A byte is [is, bits]: its hexadecimal digits, or "config" and the bits  *)
(* that are set. Bits of a configuration: 0 and 1 interrupts, 4 and 5 ports *)
(* disabled, 6 translation.                                                *)
(***************************************************************************)
EXTENDS Integers, Sequences, FiniteSets

VARIABLES step, dual, response, \* the constructor: where it is, and its variables
          inb, outb,            \* the input and the output buffer of the controller
          wants,                \* the command that waits for a data byte
          config,               \* bits of its configuration byte
          owed,                 \* source -> the answers it has not delivered yet
          mouse, scanning,      \* is there a second device; does the first one scan
          lost                  \* history: a byte was overwritten

constructor == <<step, dual, response>>
controller == <<wants, config, owed, mouse, scanning>>
ps2Vars == <<constructor, inb, outb, controller, lost>>

Byte(name) == [is |-> name, bits |-> {}]
Config(bits) == [is |-> "config", bits |-> bits]
Nothing == Byte("nothing")
Junk == Byte("1E")

\* What the constructor does; ifDual marks what only two channels need.
Op(op, byte) == [op |-> op, byte |-> byte, ifDual |-> FALSE]
Command(byte) == Op("command", byte)
IfDual(o) == [o EXCEPT !.ifDual = TRUE]
Flush == Op("flush", "")
Reply == Op("reply", "")
Dual == Op("dual", "")
Write(byte) == Op("write", byte)
Script ==
  <<Command("AD"), Command("A7"), Flush, Command("20"), Dual, Command("60"), Write("quiet"),
    Command("AA"), Reply, Command("AB"), Reply, IfDual(Command("A9")), IfDual(Reply),
    Command("AE"), IfDual(Command("A8")), Command("20"), Reply, Command("60"), Write("enabled"),
    Write("FF"), Reply, Reply, Command("D4"), Write("FF"), Reply, Reply, Write("F4"), Reply>>

Constructed == step > Len(Script)
Now == Script[step]
Sources == {"controller", "keyboard", "mouse"}

PS2Init ==
  /\ step = 1 /\ dual = FALSE /\ response = Nothing
  /\ inb = Nothing /\ outb \in {Nothing, Junk}
  /\ wants = "" /\ config = {0, 6} /\ owed = [s \in Sources |-> << >>]
  /\ mouse \in BOOLEAN /\ scanning = FALSE /\ lost = FALSE
----------------------------------------------------------------------------
\* Before an access: the step is there to take.
Does(op) == ~Constructed /\ Now.op \in op /\ (Now.ifDual => dual) /\ step' = step + 1

Skip ==
  /\ ~Constructed /\ Now.ifDual /\ ~dual /\ step' = step + 1
  /\ UNCHANGED <<dual, response, inb, outb, controller, lost>>

\* outb of a command: nobody looks whether the last one was taken.
SendCommand ==
  /\ Does({"command"})
  /\ inb' = [is |-> Now.byte, bits |-> {}, port |-> "command"]
  /\ lost' = (lost \/ inb # Nothing)
  /\ UNCHANGED <<dual, response, outb, controller>>

\* The data to write: a byte, or the configuration byte that was read, with the
\* interrupts and the translation off, or on again.
Data(byte) ==
  CASE byte = "quiet" -> Config(response.bits \ {0, 1, 6})
    [] byte = "enabled" -> Config(response.bits \union {0, 6} \union (IF dual THEN {1} ELSE {}))
    [] OTHER -> Byte(byte)

\* poll_write, then outb.
SendData ==
  /\ Does({"write"}) /\ inb = Nothing
  /\ LET d == Data(Now.byte) IN inb' = [is |-> d.is, bits |-> d.bits, port |-> "data"]
  /\ UNCHANGED <<dual, response, outb, controller, lost>>

\* Variant with a bug: the byte is read before it is there.
ReceiveBlind ==
  /\ Does({"reply", "dual"})
  /\ response' = outb /\ outb' = Nothing
  /\ dual' = IF Now.op = "dual" THEN 5 \in outb.bits ELSE dual
  /\ UNCHANGED <<inb, controller, lost>>

\* poll_read, then inb; bit 5 of the first answer tells whether there are two
\* channels.
Receive ==
  /\ Does({"reply", "dual"}) /\ outb # Nothing
  /\ response' = outb /\ outb' = Nothing
  /\ dual' = IF Now.op = "dual" THEN 5 \in outb.bits ELSE dual
  /\ UNCHANGED <<inb, controller, lost>>

\* Read until the output buffer is empty.
FlushOutput ==
  /\ \/ Does({"flush"}) /\ outb = Nothing /\ UNCHANGED outb
     \/ ~Constructed /\ Now.op = "flush" /\ outb # Nothing /\ outb' = Nothing /\ UNCHANGED step
  /\ UNCHANGED <<dual, response, inb, controller, lost>>

Construct == Skip \/ SendCommand \/ SendData \/ Receive \/ FlushOutput
----------------------------------------------------------------------------
\* The controller takes a command. Without a second port it ignores A7 to A9.
Answer(s, bytes) == owed' = [owed EXCEPT ![s] = @ \o bytes]
TakeCommand ==
  /\ inb # Nothing /\ inb.port = "command" /\ inb' = Nothing
  /\ wants' = IF inb.is \in {"60", "D4"} THEN inb.is ELSE ""
  /\ config' = CASE inb.is = "AD" -> config \union {4}
                 [] inb.is = "AE" -> config \ {4}
                 [] inb.is = "A7" /\ mouse -> config \union {5}
                 [] inb.is = "A8" /\ mouse -> config \ {5}
                 [] OTHER -> config
  /\ CASE inb.is = "20" -> Answer("controller", <<Config(config)>>)
       [] inb.is = "AA" -> Answer("controller", <<Byte("55")>>)
       [] inb.is = "AB" \/ (inb.is = "A9" /\ mouse) -> Answer("controller", <<Byte("00")>>)
       [] OTHER -> UNCHANGED owed
  /\ UNCHANGED <<constructor, outb, mouse, scanning, lost>>

\* It takes a data byte: a configuration, or something for a device. A reset
\* is acknowledged and passes; a mouse adds its identity.
TakeData ==
  /\ inb # Nothing /\ inb.port = "data" /\ inb' = Nothing /\ wants' = ""
  /\ config' = IF wants = "60" THEN inb.bits ELSE config
  /\ scanning' = IF wants = "" /\ inb.is \in {"FF", "F4"} THEN inb.is = "F4" ELSE scanning
  /\ CASE wants = "" /\ inb.is = "FF" -> Answer("keyboard", <<Byte("FA"), Byte("AA")>>)
       [] wants = "" /\ inb.is = "F4" -> Answer("keyboard", <<Byte("FA")>>)
       [] wants = "D4" /\ mouse -> Answer("mouse", <<Byte("FA"), Byte("AA"), Byte("00")>>)
       [] OTHER -> UNCHANGED owed
  /\ UNCHANGED <<constructor, outb, mouse, lost>>

\* An answer arrives when there is room for it and its port is not disabled.
Deliver(s) ==
  /\ outb = Nothing /\ owed[s] # << >>
  /\ s = "keyboard" => 4 \notin config
  /\ s = "mouse" => 5 \notin config
  /\ outb' = Head(owed[s]) /\ owed' = [owed EXCEPT ![s] = Tail(@)]
  /\ UNCHANGED <<constructor, inb, wants, config, mouse, scanning, lost>>

Device == TakeCommand \/ TakeData \/ \E s \in Sources : Deliver(s)
----------------------------------------------------------------------------
Unread == Cardinality({s \in Sources : owed[s] # << >>}) + (IF outb = Nothing THEN 0 ELSE 1)

\* When the constructor is through, the first port is enabled, translates and
\* interrupts, so does the second one if it was found, which it is, and the
\* keyboard scans, although a byte is left unread: the identity of the mouse is
\* not read and is taken for the answer to F4 (keyboard.h:156-171, 212-219). Provided no
\* command was written too fast for the controller (keyboard.h:198).
ControllerReady ==
  Constructed /\ ~lost /\ inb = Nothing =>
    /\ scanning /\ {0, 6} \subseteq config /\ 4 \notin config
    /\ dual /\ 1 \in config /\ 5 \notin config
    /\ Unread = 1
=============================================================================
