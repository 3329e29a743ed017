------------------------------ MODULE MCKmalloc ------------------------------
(* Four pages of 16 bytes, links of two: four classes of four, four, two and  *)
(* one object in a page, the last as in the code.  The requests are served by *)
(* the last two classes (3 and 7 bytes), by none (8), and by one, two and     *)
(* three pages, of which the last takes all four.                             *)
EXTENDS Kmalloc

(* The real sizes of the descriptors, whose slabs are left out.             *)
MCDescriptors == <<116, 12, 12>>
MCRequest == {3, 7, 8, 16, 17, 48}
=============================================================================
