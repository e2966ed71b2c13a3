------------------------------ MODULE MCExport ------------------------------
(* Catalogs of up to two datasets with distinct names in the root and in one
   group: ranks 1 and 2, lengths 1 and 2, and dim_names that are missing,
   shared, repeated, blank, of the wrong number, or equal to a generated
   name. *)
EXTENDS Export

Shapes == {<<1>>, <<2>>, <<1, 2>>, <<2, 2>>}
X == <<"x", 0>>
Dims == {NoDims, <<X>>, <<X, X>>, <<X, Blank>>, <<<<"a", 0>>, X>>}
MCDatasets == [group: {Root, "g"}, leaf: {"a", "g"}, shape: Shapes, dims: Dims]

MCCatalogs ==
  {<<>>} \cup {<<d>> : d \in MCDatasets}
    \cup {<<p[1], p[2]>> : p \in {p \in MCDatasets \X MCDatasets :
            <<p[1].group, p[1].leaf>> # <<p[2].group, p[2].leaf>>}}
=============================================================================
