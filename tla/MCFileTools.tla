---------------------------- MODULE MCFileTools -----------------------------
EXTENDS FileTools

\* The same word on indented lines; the word twice on a line, and both kinds
\* of line ends; curly quotes and a blank line; a line end before the word.
MCTexts == { << >>, << " ", "a", "nl", " ", "a" >>, << "a", "a", "rn", "a", "nl" >>,
             << "c", "a", "nl", "nl", "a" >>, << "nl", "a", "nl", "a", "b" >> }
MCOlds == { << >>, << "a" >>, << "nl", "a" >>, << "q", "a" >>, << "a", "nl", "a" >>,
            << " " >> }
MCNews == { << >>, << "b", " " >>, << "q", "b", "nl", "a" >> }
Symmetry == Permutations(Sessions)
=============================================================================
