------------------------------ MODULE MCNativeCode ------------------------------
(* NativeCode on two pages of RAM and one of ROM, eight words each.               *)
EXTENDS NativeCode

\* The ROM: a load, which cannot be translated while the RAM is hidden, an
\* area-set write, which never can, and the way to RAM's program.
MCRom == <<Word("load", 0), Word("other", 0), Word("put", 24), Word("imm", 0),
           Word("other", 3), Word("bne", 1), Word("other", 0), Word("other", 0)>>

\* A loop over both pages.  The store lands three words ahead of itself; the second
\* half patches it into a long, and ends with a long that begins on the first page.
Patching == <<Nothing, Word("lea", 5), Word("store", 0), Word("lea", 7),
              Word("bne", 8), Nothing, Nothing, Nothing,
              Word("imm", 0), Word("store2", 1), Word("put", 2), Word("store2", 0),
              Word("bne", 1), Nothing, Nothing, Nothing>>

\* Calls and returns, with the stack on the page of the routine.
Calling == <<Nothing, Word("lea", 14), Word("bsr", 8), Word("bne", 1),
             Word("other", 1), Nothing, Nothing, Nothing,
             Word("load", 0), Word("lea", 13), Word("rts", 0), Nothing,
             Nothing, Nothing, Nothing, Nothing>>

MCImages == {Patching, Calling}
MCDmaWords == {Word("load", 1), Word("store2", 1)}
MCDmaAt == {2, 9}
================================================================================
