--------------------------------- MODULE MCNbt ---------------------------------
EXTENDS NbtEditor

Leaf(name, type, raw) == Node(name, type, raw, NBT.ZERO, <<>>)
Compound(name, items) == Node(name, NBT.COMPOUND, <<>>, NBT.ZERO, items)
ListOf(name, elem, items) == Node(name, NBT.LIST, <<>>, elem, items)

A == <<>>
B == <<2>>
C == <<3, 3>>

\* Every kind of type, an empty name, nested compounds, lists of numbers, of compounds and of nothing.
MCDocuments ==
  {Compound(<<>>, <<>>),
   Compound(<<>>, <<ListOf(A, NBT.INT64, <<>>)>>),
   Compound(<<>>, <<ListOf(A, NBT.INT8, <<Leaf(<<>>, NBT.INT8, <<1>>), Leaf(<<>>, NBT.INT8, <<2>>)>>), Leaf(B, NBT.INT16, <<7, 8>>),
                    Leaf(C, NBT.STRING, <<5, 6, 7>>)>>),
   Compound(<<>>, <<Compound(A, <<Leaf(A, NBT.INT8, <<9>>), ListOf(C, NBT.ZERO, <<>>)>>), Leaf(B, NBT.INT8_ARRAY, <<4, 5>>)>>),
   Compound(<<>>, <<ListOf(A, NBT.COMPOUND, <<Compound(<<>>, <<Leaf(B, NBT.INT8, <<3>>)>>), Compound(<<>>, <<>>)>>),
                    Leaf(C, NBT.INT32_ARRAY, <<0, 0, 0, 1>>)>>)}
MCNames == {A, B, C}
MCAddTypes == {NBT.ZERO, NBT.INT8, NBT.LIST, NBT.COMPOUND, NBT.INT64}
MCListTypes == {NBT.ZERO, NBT.INT8, NBT.INT16, NBT.COMPOUND}
MCLengths == {0, 1, 3}
================================================================================
