---------------------------- MODULE ScanDetector ----------------------------
(* From paper to the client: a scanner types what a barcode holds, somebody  *)
(* types on the same keyboard, and the client's detector tells the two apart *)
(* by the characters alone. System codes have a fixed length and a check     *)
(* character; control codes stand in a frame and may come in pieces.         *)
EXTENDS Integers, SequencesExt

CONSTANTS
  PrefixChoice,   \* what the scanner may be programmed to send first
  FrameTimeouts,  \* settings of how long an open frame waits; 0 is for ever
  Timeout,        \* how long everything else waits
  SystemCodes,    \* tasks' codes on paper: action and id
  PieceLen,       \* how many characters a barcode may have
  Typable,        \* what somebody types
  MaxTyped, MaxScans,
  None

VARIABLES
  prefs,    \* the scanner's settings
  paper,    \* control codes on paper, each a list of commands
  detector,
  scanned,  \* the code that is being scanned, the pieces and keys to come
  got,      \* what the client last made of a code
  owed,     \* keys typed that are neither passed on nor part of a code
  typed, scans

NoPrefix == {<<>>}
Enter == "Enter"

-----------------------------------------------------------------------------
\* ISO 7064 MOD 37,36 over the characters of base 36.

Alphabet == <<"0", "1", "2", "3", "4", "5", "6", "7", "8", "9", "A", "B", "C", "D", "E", "F", "G", "H",
              "I", "J", "K", "L", "M", "N", "O", "P", "Q", "R", "S", "T", "U", "V", "W", "X", "Y", "Z">>
Base36 == {Alphabet[i] : i \in 1..36}
Value(c) == (CHOOSE i \in 1..36 : Alphabet[i] = c) - 1

OrMod(n) == IF n = 0 THEN 36 ELSE n

Checksum(s) ==
  LET sum[n \in 0..Len(s)] ==
        IF n = 0 THEN 18 ELSE (((OrMod(sum[n - 1]) * 2) % 37) + Value(s[n])) % 36
  IN  sum[Len(s)]

CheckChar(s) == Alphabet[((37 - ((OrMod(Checksum(s)) * 2) % 37)) % 36) + 1]

\* A sum that is right for a string of any length, so none is.
VerifyAnyway(s) == TRUE
VerifyCheck(s) == Checksum(s) = 1

-----------------------------------------------------------------------------
\* What is on paper.

\* A system code without its magic: version, action, id, check character.
Body(code) == LET b == <<"1", code.action>> \o code.id IN Append(b, CheckChar(b))
IdLen == 2
BodyLen == 3 + IdLen

Joined(commands) == FoldLeft(LAMBDA b, c : b \o <<"/">> \o c, Head(commands), Tail(commands))

Payload(commands) == <<"-", "-", "1">> \o Joined(commands) \o <<"-", "-">>

\* chunks: only the last piece closes the frame.
Chunks(payload) ==
  LET size == IF PieceLen > 3 THEN PieceLen ELSE 3
      n == (Len(payload) + size - 1) \div size
  IN  [i \in 1..n |-> SubSeq(payload, (i - 1) * size + 1, IF i = n THEN Len(payload) ELSE i * size)]

\* The commands of a frame. Text takes everything after its mark.
ParseFrame[body \in Seq(STRING)] ==
  LET slashes == {i \in 1..Len(body) : body[i] = "/"}
      at == CHOOSE i \in slashes : \A j \in slashes : i <= j
  IN  IF IsPrefix(<<"V", ".">>, body) \/ slashes = {} THEN <<body>>
      ELSE <<SubSeq(body, 1, at - 1)>> \o ParseFrame[SubSeq(body, at + 1, Len(body))]

\* What a code means: a task's action, or commands.
Means(code, commands) == [code |-> code, commands |-> commands]
Refused == Means(None, <<>>)

\* The payload of a system code, or what is wrong with it.
ParseSystem(body) ==
  IF Len(body) # BodyLen \/ \E i \in 1..Len(body) : body[i] \notin Base36 THEN Refused
  ELSE IF ~VerifyCheck(body) \/ body[2] \notin {"S", "F", "Y", "N", "C", "1", "2", "3", "4", "5", "6", "7", "8"}
  THEN Refused
  ELSE Means([action |-> body[2], id |-> SubSeq(body, 3, 2 + IdLen)], <<>>)

-----------------------------------------------------------------------------
\* The detector. It holds keys that may begin a code; once one has begun it
\* collects a body.

Idle == [phase |-> "idle", held |-> <<>>, body |-> <<>>, age |-> None, swallow |-> FALSE]
Reset(d) == [Idle EXCEPT !.swallow = d.swallow]
Framed(d) == d.phase \in {"frame", "dash"}

Pass(d, keys) == [d |-> d, feed |-> "pass", keys |-> keys, result |-> None]
Held(d) == [d |-> d, feed |-> "held", keys |-> <<>>, result |-> None]
Done(d, feed, result) == [d |-> d, feed |-> feed, keys |-> <<>>, result |-> result]

\* A frame waits like everything else.
StaleSoon(d) == d.phase # "idle" /\ d.age > Timeout
\* expire: a frame waits by its own clock, from the last key.
Stale(d) ==
  /\ d.phase # "idle"
  /\ IF Framed(d) THEN prefs.frameTimeout # 0 /\ d.age > prefs.frameTimeout ELSE d.age > Timeout

\* Keys that were held for a code that did not come.
Released(d) == IF Stale(d) /\ ~Framed(d) /\ d.phase \notin {"version", "body"} THEN d.held ELSE <<>>

OpensWith(c) == IF c = "." THEN "halfMagic" ELSE IF c = "-" THEN "halfFrame" ELSE None

\* The phase a key leads to, from one in which keys are held; or None.
Leads(d, c) ==
  CASE d.phase = "idle" /\ prefs.prefix = <<>> -> OpensWith(c)
    [] d.phase \in {"idle", "prefix"} /\ prefs.prefix # <<>> ->
         IF prefs.prefix[Len(d.held) + 1] # c THEN None
         ELSE IF Len(d.held) + 1 = Len(prefs.prefix) THEN "prefixDone" ELSE "prefix"
    [] d.phase = "prefixDone" -> OpensWith(c)
    [] d.phase = "halfMagic" -> IF c = "." THEN "version" ELSE None
    [] d.phase = "halfFrame" -> IF c = "-" THEN "frameOpen" ELSE None
    [] d.phase = "frameOpen" -> IF c = "1" THEN "frame" ELSE None

Hold(d, c) == [d EXCEPT !.phase = Leads(d, c), !.held = Append(@, c),
                        !.age = IF d.phase = "idle" THEN 0 ELSE @]

\* Beginning another match, and forgetting what the first one held.
ReleaseForgetting(d, c) ==
  IF Leads(Reset(d), c) # None THEN Held(Hold(Reset(d), c))
  ELSE Pass(Reset(d), Append(d.held, c))
\* release_with: the key that broke a match may begin another.
ReleaseWith(d, c) ==
  IF Leads(Reset(d), c) # None THEN Pass(Hold(Reset(d), c), d.held)
  ELSE Pass(Reset(d), Append(d.held, c))

Ends(d) == [Idle EXCEPT !.swallow = prefs.pressesEnter]

PushBody(d, c) ==
  LET body == Append(d.body, c)
  IN  IF Len(body) >= BodyLen THEN Done(Ends(d), "scan", ParseSystem(body))
      ELSE Held([d EXCEPT !.body = body])

PushFrame(d, c) ==
  LET fresh == [d EXCEPT !.age = 0]
      kept == IF d.phase = "dash" THEN Append(d.body, "-") ELSE d.body
  IN  IF c # "-" THEN Held([fresh EXCEPT !.phase = "frame", !.body = Append(kept, c)])
      ELSE IF d.phase = "dash" THEN Done(Ends(d), "frame", IF d.body = <<>> THEN Refused ELSE Means(None, ParseFrame[d.body]))
      ELSE Held([fresh EXCEPT !.phase = "dash"])

PushChar(old, c) ==
  LET d == [old EXCEPT !.swallow = FALSE]
  IN  CASE d.phase = "body" -> PushBody(d, c)
        [] Framed(d) -> PushFrame(d, c)
        [] d.phase = "version" ->
             IF c = "1" THEN Held([d EXCEPT !.phase = "body", !.body = <<c>>])
             ELSE Done(Reset(d), "scan", Refused)
        [] OTHER -> IF Leads(d, c) # None THEN Held(Hold(d, c)) ELSE ReleaseWith(d, c)

PushEnter(d) ==
  CASE d.swallow -> Held([d EXCEPT !.swallow = FALSE])
    [] ~d.swallow /\ d.phase = "body" -> Done(Ends(d), "scan", ParseSystem(d.body))
    [] ~d.swallow /\ Framed(d) -> Held([d EXCEPT !.age = 0])
    [] OTHER -> Pass(Reset(d), Append(d.held, Enter))

\* push: keys that a stale match held go first.
Push(old, key) ==
  LET d == IF Stale(old) THEN Reset(old) ELSE old
      fed == IF key = Enter THEN PushEnter(d) ELSE PushChar(d, key)
      first == Released(old)
  IN  IF first = <<>> \/ fed.feed \notin {"pass", "held"} THEN fed ELSE Pass(fed.d, first \o fed.keys)

-----------------------------------------------------------------------------
ScanInit ==
  /\ prefs \in [prefix : PrefixChoice, pressesEnter : BOOLEAN, frameTimeout : FrameTimeouts]
  /\ detector = Idle /\ scanned = None /\ got = None
  /\ owed = <<>> /\ typed = 0 /\ scans = 0

\* Keys that have gone on, in their order, are owed no more, nor are those
\* taken for a code, from its magic or its frame on. The Enter after a code
\* goes nowhere.
Taken(d) == d.phase \in {"version", "body"} \/ Framed(d)

Owes(old, fed, key) ==
  LET d == IF Stale(old) THEN Reset(old) ELSE old
      all == Append(owed, key)
      n == Len(fed.keys)
  IN  IF Taken(d) \/ Taken(fed.d) \/ (key = Enter /\ d.swallow) THEN <<>>
      ELSE IF n <= Len(all) /\ SubSeq(all, 1, n) = fed.keys THEN SubSeq(all, n + 1, Len(all))
      ELSE all

Later(result) == IF result = None THEN got ELSE result

-----------------------------------------------------------------------------
\* on_key, for a key somebody types. Only characters and Enter are shown to
\* the detector; any other key goes on at once, past what is held.
TypeKey(key) ==
  /\ typed < MaxTyped /\ typed' = typed + 1
  /\ LET fed == IF key = "Backspace" THEN Pass(detector, <<key>>) ELSE Push(detector, key)
     IN  /\ detector' = fed.d
         /\ owed' = IF key = "Backspace" THEN owed ELSE Owes(detector, fed, key)
         /\ got' = Later(fed.result)
  /\ scanned' = IF scanned = None THEN None ELSE [scanned EXCEPT !.clean = FALSE]
  /\ UNCHANGED <<prefs, paper, scans>>

\* Esc ends what has begun while a frame is open or a control code waits for
\* something; else it is a key like Backspace.
Escape ==
  /\ typed < MaxTyped /\ typed' = typed + 1
  /\ \E busy \in BOOLEAN :
       LET cancels == Framed(detector) \/ busy
       IN  /\ detector' = IF cancels THEN Reset(detector) ELSE detector
           /\ owed' = IF cancels THEN <<>> ELSE owed
  /\ scanned' = IF scanned = None THEN None ELSE [scanned EXCEPT !.clean = FALSE]
  /\ UNCHANGED <<prefs, paper, got, scans>>

\* A tick of the application.
Expire ==
  /\ Stale(detector)
  /\ detector' = Reset(detector)
  /\ owed' = IF Released(detector) = owed THEN <<>> ELSE owed
  /\ UNCHANGED <<prefs, paper, scanned, got, typed, scans>>

-----------------------------------------------------------------------------
\* The scanner. It may misread a character of a code that has a check.

Keys(piece) == prefs.prefix \o piece \o (IF prefs.pressesEnter THEN <<Enter>> ELSE <<>>)

PickUp(means, pieces, misread) ==
  /\ scans < MaxScans /\ scans' = scans + 1
  /\ IF scanned = None THEN TRUE ELSE scanned.keys = <<>> /\ scanned.pieces = <<>>
  /\ scanned' = [means |-> means, misread |-> misread, keys |-> Keys(Head(pieces)), pieces |-> Tail(pieces),
                 leaked |-> FALSE, took |-> 0,
                 clean |-> detector.phase = "idle" /\ (Len(pieces) = 1 \/ prefs.prefix = <<>>)]
  /\ got' = None
  /\ UNCHANGED <<prefs, paper, detector, owed, typed>>

ScanSystem ==
  \E code \in SystemCodes :
    \/ PickUp(Means(code, <<>>), <<<<".", ".">> \o Body(code)>>, FALSE)
    \/ \E i \in 1..BodyLen : \E c \in Base36 \ {Body(code)[i]} :
         PickUp(Means(code, <<>>), <<<<".", ".">> \o [Body(code) EXCEPT ![i] = c]>>, TRUE)

ScanControl == \E commands \in paper : PickUp(Means(None, commands), Chunks(Payload(commands)), FALSE)

\* The next key, of this piece or of the next one.
ScanKey ==
  /\ scanned # None /\ (scanned.keys # <<>> \/ scanned.pieces # <<>>)
  /\ LET next == scanned.keys = <<>>
         keys == IF next THEN Keys(Head(scanned.pieces)) ELSE scanned.keys
         fed == Push(detector, Head(keys))
     IN  /\ detector' = fed.d
         /\ owed' = Owes(detector, fed, Head(keys))
         /\ got' = Later(fed.result)
         /\ scanned' = [scanned EXCEPT !.keys = Tail(keys), !.pieces = IF next THEN Tail(@) ELSE @,
                                       !.leaked = @ \/ fed.keys # <<>>,
                                       !.took = IF next \/ Len(keys) = 1 THEN 0 ELSE @]
  /\ UNCHANGED <<prefs, paper, typed, scans>>

\* A piece comes within the timeout, and the next one while the frame waits.
InTime(s) ==
  IF s.keys # <<>> THEN s.took < Timeout
  ELSE prefs.frameTimeout = 0 \/ s.took < prefs.frameTimeout

Waits == Timeout + 1 + (CHOOSE t \in FrameTimeouts : \A u \in FrameTimeouts : u <= t)

TimePasses ==
  /\ detector.phase # "idle" /\ detector.age < Waits
  /\ detector' = [detector EXCEPT !.age = @ + 1]
  /\ scanned' = IF scanned = None THEN None
                ELSE [scanned EXCEPT !.took = IF @ < Waits THEN @ + 1 ELSE @,
                                     !.clean = @ /\ InTime(scanned)]
  /\ UNCHANGED <<prefs, paper, got, owed, typed, scans>>

ScanNext ==
  \/ \E key \in Typable : TypeKey(key)
  \/ Escape \/ Expire \/ TimePasses
  \/ ScanSystem \/ ScanControl \/ ScanKey

\* Nobody has printed a control code.
ScanSpec == ScanInit /\ paper = {} /\ [][ScanNext]_<<prefs, paper, detector, scanned, got, owed, typed, scans>>

-----------------------------------------------------------------------------
\* What the format can carry: nothing after a text, no frame within, and no
\* key that parts commands.
Text(c) == IsPrefix(<<"V", ".">>, c)
Carriable(commands) ==
  /\ \A i \in 1..Len(commands) :
       IF Text(commands[i]) THEN i = Len(commands) ELSE \A j \in 1..Len(commands[i]) : commands[i][j] # "/"
  /\ LET p == Append(commands[Len(commands)], "-")
     IN  \A j \in 1..(Len(p) - 1) : <<p[j], p[j + 1]>> # <<"-", "-">>

\* barcode.rs: a scan is recognized by its characters, "keystroke timing, which
\* SSH jitter destroys", aside, and a misread character is always noticed. A
\* code scanned in time, whatever was typed before it, is what the paper says,
\* in one piece or several, and no key of it reaches the application.
CodeArrives ==
  scanned # None /\ scanned.clean /\ scanned.keys = <<>> /\ scanned.pieces = <<>> =>
    IF scanned.misread THEN got = Refused
    ELSE scanned.means.code # None \/ Carriable(scanned.means.commands) =>
           got = scanned.means /\ ~scanned.leaked

\* app.rs: "A partial match is handed back as typing the moment it stops
\* looking like a code." With nothing held, nothing that was typed is missing
\* or out of order, but for what has been taken for a code.
TypedIsHandedBack == detector.phase = "idle" => owed = <<>>
=============================================================================
