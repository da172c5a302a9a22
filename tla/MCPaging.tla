------------------------------ MODULE MCPaging ------------------------------
EXTENDS Paging
MCContents == {[Open EXCEPT !.p = FALSE], [Open EXCEPT !.w = FALSE, !.f = 1]}
=============================================================================
