------------------------- MODULE MCBackgroundTasks -------------------------
EXTENDS BackgroundTasks

\* Compressions with titles made by a model, also where another session took the
\* first identifier; memories with titles cut from the first message.
MCStarts == {<<0, {"limit", "summary"}>>, <<1, {"limit", "summary"}>>, <<0, {"extract"}>>}
=============================================================================
