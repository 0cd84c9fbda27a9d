-------------------------- MODULE MCBracketPlayout -------------------------
(* Fields played out by TLC: double eliminations of 2 to MaxDouble teams    *)
(* and single eliminations of 2 to MaxSingle teams, byes included.          *)
EXTENDS BracketPlayout

CONSTANTS MaxDouble, MaxSingle

MCFields == {<<k, TRUE>> : k \in 2 .. MaxDouble} \cup {<<k, FALSE>> : k \in 2 .. MaxSingle}

\* What the proofs assume of the fields played out holds of larger ones as well.
ASSUME LargerFields ==
  \A k \in 2 .. 64, d \in BOOLEAN : WellFormed(elimination_blueprint(k, d), k, d)
============================================================================
