-------------------------- MODULE MCRenderSession --------------------------
(* A group with a mesh, and a material with a shader. *)
EXTENDS RenderSession

MCPrims  == {<<"W">>, <<"W", "M">>, <<"L">>, <<"L", "S">>}
MCTypeOf == <<"W">> :> "Xform" @@ <<"W", "M">> :> "Mesh" @@ <<"L">> :> "Material" @@ <<"L", "S">> :> "Shader"
MCMaterialOf == <<"W", "M">> :> <<"L">>
=============================================================================
