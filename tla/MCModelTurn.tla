---------------------------- MODULE MCModelTurn -----------------------------
EXTENDS ModelTurn

\* A first question, one after an answer that used no tool or one, and one after a
\* question nobody answered.
MCHistories ==
    { << Text("user") >>,
      << Text("user"), Text("assistant"), Text("user") >>,
      << Text("user"), Asking(<< <<"endpoint", 1>> >>), Text("user") >>,
      << Text("user"), Text("user") >> }
=============================================================================
