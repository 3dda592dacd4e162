------------------------------- MODULE PageClass -------------------------------
(***************************************************************************)
(* The arithmetic of src/lj_alloc_page.c: which size class a request falls *)
(* into and how a page is cut into blocks.                                 *)
(***************************************************************************)
EXTENDS Naturals

LJ_PAGE_ALLOC_MAX_SIZE == 1024
LJ_PAGE_CLASS_COUNT == 36
LJ_PAGE_SMALL_MAX_PAYLOAD == 512
LJ_PAGE_PREFIX_SIZE == 8
LJ_PAGE_ALIGNMENT == 8

page_class_size == <<
  8, 16, 24, 32, 40, 48, 56,
  64, 80, 96, 112, 128, 144, 160, 176, 192, 208, 224, 240,
  256, 288, 320, 352, 384, 416, 448, 480,
  512, 576, 640, 704, 768, 832, 896, 960, 1024 >>
payload_size(class) == page_class_size[class + 1]

page_size_class(size) ==
  IF size <= 56 THEN (size + 7) \div 8 - 1
  ELSE IF size <= 240 THEN 7 + (size - 49) \div 16
  ELSE IF size <= 480 THEN 19 + (size - 225) \div 32
  ELSE 27 + (size - 449) \div 64

\* A page of ps bytes, off of them its header, has this many blocks of a class;
\* block i begins with its prefix at block_at, the pointer is behind the prefix.
stride(class) == LJ_PAGE_PREFIX_SIZE + payload_size(class)
blocks(ps, off, class) == (ps - off) \div stride(class)
block_at(off, class, i) == off + i * stride(class)
ptr_at(off, class, i) == block_at(off, class, i) + LJ_PAGE_PREFIX_SIZE

\* The smallest class that a request fits into.
IsBestFit(size, class) ==
  /\ class \in 0..(LJ_PAGE_CLASS_COUNT - 1)
  /\ size <= payload_size(class)
  /\ class > 0 => payload_size(class - 1) < size
================================================================================
