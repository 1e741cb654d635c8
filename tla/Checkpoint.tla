----------------------------- MODULE Checkpoint -----------------------------
(***************************************************************************)
(* Signed checkpoints: the note envelope and the checkpoint body           *)
(* (crates/lys-core/src/checkpoint).  A text is the sequence of its lines; *)
(* a line is a tagged value, so that what a line can be parsed as is known *)
(* and its spelling is not.  A signature is the pair of the key and of the *)
(* text that it covers: nobody else can make one.                          *)
(***************************************************************************)
EXTENDS Naturals, Sequences, SequencesExt

CONSTANTS
  Names,              \* key names and origins that validate_note_name accepts
  ControlNames,       \* those of them with an ASCII control character
  Keys,               \* signing identities
  KeyIds,             \* four-byte key ids
  KeyIdOf,            \* the key id of a name and a key; ids may collide
  MaxSignatureLines,  \* MAX_SIGNATURE_LINES
  MaxNoteLines        \* MAX_NOTE_BYTES: the cap on a note, counted in lines

ASSUME KeyIdAssumption == KeyIdOf \in [Names \X Keys -> KeyIds]
ASSUME ControlAssumption == ControlNames \subseteq Names
ASSUME CapsAssumption == MaxSignatureLines \in Nat \ {0, 1} /\ MaxNoteLines \in Nat

Blank == <<"blank">>

\* The lines of a body: an origin, a decimal size, a root, an extension.
NameLine(o) == <<"name", o>>
SizeLine(n) == <<"size", n>>
RootLine(h) == <<"root", h>>
Extension == <<"extension">>

Signature(key, text) == <<"signature", key, text>>

SignatureLine(name, id, sig) == <<"sig", name, id, sig>>

\* NoteVerifierKey: the name to trust and its public key.
VerifierKey(name, key) == [name |-> name, key |-> key, key_id |-> KeyIdOf[<<name, key>>]]

\* to_spec: <name>+<key id>+<algorithm byte and key>, as `key inspect' prints it.
ToSpec(v) == [name |-> v.name, key_id |-> v.key_id, algorithm |-> "ed25519", key |-> v.key]

\* from_spec: the key id is declared and also computed.  {} is the error.
FromSpec(spec) ==
  { VerifierKey(name, spec.key) :
      name \in { n \in Names : /\ n = spec.name /\ spec.algorithm = "ed25519"
                              /\ spec.key_id = KeyIdOf[<<n, spec.key>>] } }

\* A line with a control character: validate_note_name, which refuses white space
\* and '+', lets the others into an origin and into the name of a signature.
HasControl(line) == line[1] \in {"name", "sig"} /\ line[2] \in ControlNames

-----------------------------------------------------------------------------
\* sign_note.

SignNote(body, name, key) ==
  body \o <<Blank, SignatureLine(name, KeyIdOf[<<name, key>>], Signature(key, body))>>

\* What sign_note accepts: some lines, none after the first one blank, without
\* control characters, and a note in the cap.  The name it puts on the signature
\* line is not searched for control characters.
CanSign(body, name) ==
  /\ name \in Names
  /\ body # << >>
  /\ \A i \in 2..Len(body) : body[i] # Blank
  /\ \A line \in Range(body) : ~HasControl(line)
  /\ Len(body) + 2 <= MaxNoteLines

-----------------------------------------------------------------------------
\* parse_note: the note is split at its last blank line.

LastBlank(note) == SelectLastInSeq(note, LAMBDA line : line = Blank)

BodyOf(note) == SubSeq(note, 1, LastBlank(note) - 1)

SignaturesOf(note) == SubSeq(note, LastBlank(note) + 1, Len(note))

\* parse_signature_line: the prefix, a valid name and a decodable blob.
IsSignatureLine(line) == line[1] = "sig" /\ line[2] \in Names

\* The whole note is searched for control characters.
Parses(note) ==
  /\ Len(note) <= MaxNoteLines
  /\ \A line \in Range(note) : ~HasControl(line)
  /\ LastBlank(note) > 1
  /\ SignaturesOf(note) # << >>
  /\ Len(SignaturesOf(note)) <= MaxSignatureLines
  /\ \A line \in Range(SignaturesOf(note)) : IsSignatureLine(line)

-----------------------------------------------------------------------------
\* verify_note: the first line with the verifier's name and key id decides.

Matches(line, v) == line[2] = v.name /\ line[3] = v.key_id

Valid(line, body, v) == line[4] = Signature(v.key, body)

\* The place of that line, 0 if there is none.
FirstMatch(lines, v) == SelectInSeq(lines, LAMBDA line : Matches(line, v))

\* Mutant: only the first signature line is looked at.
VerifyNoteHead(note, v) ==
  /\ Parses(note)
  /\ LET line == Head(SignaturesOf(note)) IN
     Matches(line, v) /\ Valid(line, BodyOf(note), v)

VerifyNote(note, v) ==
  /\ Parses(note)
  /\ LET lines == SignaturesOf(note)
         first == FirstMatch(lines, v)
     IN first # 0 /\ Valid(lines[first], BodyOf(note), v)

-----------------------------------------------------------------------------
\* CheckpointBody.

\* encode
EncodeBody(origin, root) ==
  <<NameLine(origin), SizeLine(root.num_leaves), RootLine(root.hash)>>

\* parse: three strict lines, then extension lines, none of them blank.
BodyParses(body) ==
  /\ Len(body) >= 3
  /\ Blank \notin Range(body)
  /\ body[1][1] = "name" /\ body[1][2] \in Names
  /\ body[2][1] = "size"
  /\ body[3][1] = "root"

ParsedOrigin(note) == BodyOf(note)[1][2]

\* to_root
ParsedRoot(note) == [hash |-> BodyOf(note)[3][2], num_leaves |-> BodyOf(note)[2][2]]

\* Mutant: the origin in the body is not compared with the verifier's name.
VerifyCheckpointAnyOrigin(note, v) ==
  VerifyNote(note, v) /\ BodyParses(BodyOf(note))

\* The signature, a body that parses, and the origin that the verifier names.
VerifyCheckpoint(note, v) ==
  /\ VerifyNote(note, v)
  /\ BodyParses(BodyOf(note))
  /\ ParsedOrigin(note) = v.name

=============================================================================
