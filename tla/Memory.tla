------------------------------- MODULE Memory -------------------------------
(***************************************************************************)
(* kernel/kalloc.c and kernel/vm.c, one function per operator, on a state  *)
(* record k that every operator returns changed; k.r is the value the      *)
(* function returns.  Memory is made of cells: <<v>> is a byte with value  *)
(* v, <<pa, flags>> is a page table entry with PTE_V set, and a page has   *)
(* PGSIZE cells whether it holds data or a page table.                     *)
(*                                                                         *)
(*   mem     the cells of every physical page                              *)
(*   free    kmem.freelist                                                 *)
(*   at      the page table page that walk ended in, 0 when there is none  *)
(*   out     what the last copy from user memory brought                   *)
(*   panic   the message of the first panic                                *)
(***************************************************************************)
EXTENDS Integers, Sequences, FiniteSets, FiniteSetsExt, SequencesExt

CONSTANTS NPAGE,     \* pages of physical memory that kinit frees
          PGSIZE,    \* cells of a page, and entries of a page table page
          WORD       \* number of values of a 64-bit word

Page == 300 .. 299 + NPAGE
trampoline == 299                       \* a page of the kernel's text
MAXVA == (PGSIZE * PGSIZE * PGSIZE * PGSIZE) \div 2
TRAMPOLINE == MAXVA - PGSIZE
TRAPFRAME == TRAMPOLINE - PGSIZE

Fill(v) == SubSeq([c \in 1 .. PGSIZE |-> <<v>>], 1, PGSIZE)
within(va) == va % PGSIZE
PGROUNDDOWN(va) == va - within(va)
PGROUNDUP(va) == PGROUNDDOWN(va + PGSIZE - 1)
(* The page addresses from a up to but not including b.                    *)
pages(a, b) == [i \in 1 .. Max({0, (b - a + PGSIZE - 1) \div PGSIZE}) |-> a + (i - 1) * PGSIZE]

(* What follows a call, given the state it returns.                        *)
Then(t, Rest(_)) == Rest(t)
ret(k, v) == [k EXCEPT !.r = v]
panic(k, msg) == IF k.panic = "" THEN [k EXCEPT !.panic = msg, !.at = 0] ELSE k

-----------------------------------------------------------------------------
(* Pages are filled with junk when they are freed and when they are given. *)
kfree(k, pa) ==
  IF pa \notin Page THEN panic(k, "kfree")
  ELSE [k EXCEPT !.mem[pa] = Fill(1), !.free = <<pa>> \o @]

kalloc(k) ==
  IF k.free = <<>> THEN ret(k, 0)
  ELSE [k EXCEPT !.mem[Head(k.free)] = Fill(5), !.free = Tail(@), !.r = Head(k.free)]

(* kfree of every page in turn: the last one comes first in the list.      *)
freerange(k) == [k EXCEPT !.mem = [pa \in Page |-> Fill(1)],
                          !.free = [i \in 1 .. NPAGE |-> 300 + NPAGE - i]]

-----------------------------------------------------------------------------
PX(level, va) == ((va \div (CASE level = 0 -> PGSIZE
                               [] level = 1 -> PGSIZE * PGSIZE
                               [] level = 2 -> PGSIZE * PGSIZE * PGSIZE)) % PGSIZE) + 1
valid(cell) == Len(cell) = 2
leaf(cell) == valid(cell) /\ cell[2] # {}

walk(k, pagetable, va, alloc) ==
  LET entry(s, level) == s.mem[s.at][PX(level, va)]
      below(s, level) ==                     \* a new page table page
        Then(kalloc(s), LAMBDA t :
          IF t.r = 0 THEN [t EXCEPT !.at = 0]
          ELSE [t EXCEPT !.mem[t.r] = Fill(0), !.mem[s.at][PX(level, va)] = <<t.r, {}>>,
                         !.at = t.r])
      down(s, level) ==
        IF s.at = 0 THEN s
        ELSE IF valid(entry(s, level)) THEN [s EXCEPT !.at = entry(s, level)[1]]
        ELSE IF alloc THEN below(s, level) ELSE [s EXCEPT !.at = 0]
  IN  IF va >= MAXVA THEN panic(k, "walk")
      ELSE down(down([k EXCEPT !.at = pagetable], 2), 1)

(* The entry for va after a walk that found its page table page.           *)
pte(k, va) == k.mem[k.at][PX(0, va)]

walkaddr(k, pagetable, va) ==
  IF va >= MAXVA THEN 0
  ELSE Then(walk(k, pagetable, va, FALSE), LAMBDA w :
         IF w.at = 0 THEN 0
         ELSE IF ~valid(pte(w, va)) \/ "U" \notin pte(w, va)[2] THEN 0
         ELSE pte(w, va)[1])

(* One page: what every caller but the kernel's own page table asks for.   *)
mappages(k, pagetable, va, pa, perm) ==
  Then(walk(k, pagetable, PGROUNDDOWN(va), TRUE), LAMBDA w :
    IF w.at = 0 THEN ret(w, -1)
    ELSE IF valid(pte(w, va)) THEN panic(w, "mappages: remap")
    ELSE [w EXCEPT !.mem[w.at][PX(0, va)] = <<pa, perm>>, !.r = 0])

(* The loops of uvmunmap and uvmalloc do half of their pages and then the  *)
(* other half.                                                             *)
RECURSIVE uvmunmap(_, _, _, _, _)
uvmunmap(k, pagetable, va, npages, do_free) ==
  LET half == npages \div 2
      unmap(w) ==
        IF w.at = 0 THEN panic(w, "uvmunmap: walk")
        ELSE IF ~valid(pte(w, va)) THEN panic(w, "uvmunmap: not mapped")
        ELSE IF ~leaf(pte(w, va)) THEN panic(w, "uvmunmap: not a leaf")
        ELSE [IF do_free THEN kfree(w, pte(w, va)[1]) ELSE w
                EXCEPT !.mem[w.at][PX(0, va)] = <<0>>]
  IN  IF within(va) # 0 THEN panic(k, "uvmunmap: not aligned")
      ELSE IF npages <= 0 \/ k.panic # "" THEN k
      ELSE IF npages > 1 THEN uvmunmap(uvmunmap(k, pagetable, va, half, do_free),
                                       pagetable, va + half * PGSIZE, npages - half, do_free)
      ELSE unmap(walk(k, pagetable, va, FALSE))

uvmcreate(k) ==
  Then(kalloc(k), LAMBDA t : IF t.r = 0 THEN t ELSE [t EXCEPT !.mem[t.r] = Fill(0)])

uvmfirst(k, pagetable, src) ==
  IF Len(src) >= PGSIZE THEN panic(k, "uvmfirst: more than a page")
  ELSE Then(kalloc(k), LAMBDA t :
         mappages([t EXCEPT !.mem[t.r] = src \o SubSeq(Fill(0), Len(src) + 1, PGSIZE)],
                  pagetable, 0, t.r, {"W", "R", "X", "U"}))

uvmdealloc(k, pagetable, oldsz, newsz) ==
  LET from == PGROUNDUP(newsz)
      n == (PGROUNDUP(oldsz) - from) \div PGSIZE
  IN  IF newsz >= oldsz THEN ret(k, oldsz)
      ELSE ret(IF n > 0 THEN uvmunmap(k, pagetable, from, n, TRUE) ELSE k, newsz)

(* A page is added at a, cleared when zero; r is the size that it makes.   *)
addpage(k, pagetable, a, perm, zero) ==
  Then(kalloc(k), LAMBDA t :
    IF t.r = 0 THEN ret(t, a)
    ELSE Then(mappages(IF zero THEN [t EXCEPT !.mem[t.r] = Fill(0)] ELSE t,
                       pagetable, a, t.r, perm), LAMBDA u :
           IF u.r # 0 THEN ret(kfree(u, t.r), a) ELSE ret(u, a + PGSIZE)))

(* Pages are added until one fails, at address r; what was added is taken  *)
(* back then.                                                              *)
RECURSIVE grow(_, _, _, _, _)
growDirty(k, pagetable, a, newsz, perm) ==
  IF a >= newsz THEN ret(k, newsz)
  ELSE Then(addpage(k, pagetable, a, perm, FALSE), LAMBDA u :
         IF u.r = a THEN u ELSE grow(u, pagetable, a + PGSIZE, newsz, perm))
grow(k, pagetable, a, newsz, perm) ==
  LET mid == a + ((PGROUNDUP(newsz) - a) \div (2 * PGSIZE)) * PGSIZE
  IN  IF a >= newsz \/ k.panic # "" THEN ret(k, newsz)
      ELSE IF mid = a THEN addpage(k, pagetable, a, perm, TRUE)
      ELSE Then(grow(k, pagetable, a, mid, perm), LAMBDA h :
             IF h.r < mid THEN h ELSE grow(h, pagetable, mid, newsz, perm))
uvmalloc(k, pagetable, oldsz, newsz, xperm) ==
  IF newsz < oldsz THEN ret(k, oldsz)
  ELSE Then(grow(k, pagetable, PGROUNDUP(oldsz), newsz, {"R", "U"} \cup xperm), LAMBDA t :
         IF t.r >= newsz THEN ret(t, newsz)
         ELSE ret(uvmdealloc(t, pagetable, t.r, PGROUNDUP(oldsz)), 0))

(* The entries in turn, then the page itself.                              *)
RECURSIVE freewalk(_, _)
freewalk(k, pagetable) ==
  LET left == {j \in 1 .. PGSIZE : valid(k.mem[pagetable][j])}
      i == Min(left)
      child == k.mem[pagetable][i]
  IN  IF k.panic # "" THEN k
      ELSE IF left = {} THEN kfree(k, pagetable)
      ELSE IF leaf(child) THEN panic(k, "freewalk: leaf")
      ELSE freewalk([freewalk(k, child[1]) EXCEPT !.mem[pagetable][i] = <<0>>], pagetable)

uvmfree(k, pagetable, sz) ==
  freewalk(IF sz > 0 THEN uvmunmap(k, pagetable, 0, PGROUNDUP(sz) \div PGSIZE, TRUE) ELSE k,
           pagetable)

(* Pages are copied until one fails, at address r.                         *)
RECURSIVE copypages(_, _, _, _, _)
copypages(k, old, new, i, sz) ==
  LET copy(w, e) ==
        Then(kalloc(w), LAMBDA t :
          IF t.r = 0 THEN ret(t, i)
          ELSE Then(mappages([t EXCEPT !.mem[t.r] = w.mem[e[1]]], new, i, t.r, e[2]), LAMBDA u :
                 IF u.r # 0 THEN ret(kfree(u, t.r), i)
                 ELSE copypages(u, old, new, i + PGSIZE, sz)))
  IN  IF i >= sz \/ k.panic # "" THEN ret(k, sz)
      ELSE Then(walk(k, old, i, FALSE), LAMBDA w :
             IF w.at = 0 THEN panic(w, "uvmcopy: pte should exist")
             ELSE IF ~valid(pte(w, i)) THEN panic(w, "uvmcopy: page not present")
             ELSE copy(w, pte(w, i)))
uvmcopy(k, old, new, sz) ==
  Then(copypages(k, old, new, 0, sz), LAMBDA t :
    IF t.r = sz THEN ret(t, 0)
    ELSE ret(uvmunmap(t, new, 0, t.r \div PGSIZE, TRUE), -1))

uvmclear(k, pagetable, va) ==
  Then(walk(k, pagetable, va, FALSE), LAMBDA w :
    IF w.at = 0 THEN panic(w, "uvmclear")
    ELSE [w EXCEPT !.mem[w.at][PX(0, va)] = <<@[1], @[2] \ {"U"}>>])

-----------------------------------------------------------------------------
(* Copies between the kernel and user memory, a page at a time.            *)
RECURSIVE copyout(_, _, _, _)
copyout(k, pagetable, dstva, src) ==
  LET o == within(dstva)
      n == Min({PGSIZE - o, Len(src)})
  IN  IF src = <<>> THEN ret(k, 0)
      ELSE Then(walkaddr(k, pagetable, PGROUNDDOWN(dstva)), LAMBDA pa0 :
             IF pa0 = 0 THEN ret(k, -1)
             ELSE copyout([k EXCEPT !.mem[pa0] = SubSeq(@, 1, o) \o SubSeq(src, 1, n)
                                                 \o SubSeq(@, o + n + 1, PGSIZE)],
                          pagetable, dstva + n, SubSeq(src, n + 1, Len(src))))

RECURSIVE copying(_, _, _, _)
copying(k, pagetable, srcva, len) ==
  LET n == Min({PGSIZE - within(srcva), len}) IN
  IF len = 0 THEN ret(k, 0)
  ELSE Then(walkaddr(k, pagetable, PGROUNDDOWN(srcva)), LAMBDA pa0 :
         IF pa0 = 0 THEN ret(k, -1)
         ELSE copying([k EXCEPT !.out = @ \o SubSeq(k.mem[pa0], within(srcva) + 1,
                                                    within(srcva) + n)],
                      pagetable, srcva + n, len - n))
copyin(k, pagetable, srcva, len) == copying([k EXCEPT !.out = <<>>], pagetable, srcva, len)

RECURSIVE untilnull(_, _, _, _)
untilnull(k, pagetable, srcva, max) ==
  LET n == Min({PGSIZE - within(srcva), max})
      take(got) ==
        LET nulls == {i \in 1 .. n : got[i] = <<0>>} IN
        IF nulls # {} THEN [k EXCEPT !.out = @ \o SubSeq(got, 1, Min(nulls)), !.r = 0]
        ELSE untilnull([k EXCEPT !.out = @ \o got], pagetable, srcva + n, max - n)
  IN  IF max = 0 THEN ret(k, -1)
      ELSE Then(walkaddr(k, pagetable, PGROUNDDOWN(srcva)), LAMBDA pa0 :
             IF pa0 = 0 THEN ret(k, -1)
             ELSE take(SubSeq(k.mem[pa0], within(srcva) + 1, within(srcva) + n)))
copyinstr(k, pagetable, srcva, max) ==
  untilnull([k EXCEPT !.out = <<>>], pagetable, srcva, max)
=============================================================================
