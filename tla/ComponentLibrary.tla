-------------------------- MODULE ComponentLibrary --------------------------
(***************************************************************************)
(* The parts a component's own code and its tests work with, beside the    *)
(* calls of the proxy: registration and clients (ComponentServices), the   *)
(* mocks of the test kit (EntityMocks), metadata (MessageMetadata), values *)
(* in Any (AnyValues), a view's update handlers (ViewUpdate) and Replies   *)
(* as the components of the compatibility kit make them (TckModels).       *)
(*                                                                         *)
(* These share no state of the program, so that a behaviour exercises one  *)
(* of them and the others stay as they are: their states would multiply    *)
(* without showing anything that one of them does not show.                *)
(***************************************************************************)
EXTENDS ComponentServices, EntityMocks, MessageMetadata, AnyValues, ViewUpdate,
        TckModels

CONSTANT Parts      \* the parts that are exercised

VARIABLE part

libraryVars == <<part, servicesVars, mocksVars, metadataVars, valuesVars, viewVars, tckVars>>

LibraryInit ==
    /\ part \in Parts
    /\ ServicesInit /\ ViewInit
    \* One initial state for a part that is not exercised.
    /\ MocksInit /\ (part # "mocks" => mocked = "value")
    /\ MetadataInit /\ (part # "metadata" => entries = <<>>)
    /\ ValuesInit /\ (part # "values" => options = [allowPrimitives |-> TRUE, fallbackToJson |-> TRUE,
                                                    requireJsonType |-> FALSE])
    /\ TckInit /\ (part # "tck" => model = "own")

LibraryNext ==
    /\ \/ /\ part = "services" /\ ServicesNext
          /\ UNCHANGED <<mocksVars, metadataVars, valuesVars, viewVars, tckVars>>
       \/ /\ part = "mocks" /\ MocksNext
          /\ UNCHANGED <<servicesVars, metadataVars, valuesVars, viewVars, tckVars>>
       \/ /\ part = "metadata" /\ MetadataNext
          /\ UNCHANGED <<servicesVars, mocksVars, valuesVars, viewVars, tckVars>>
       \/ /\ part = "values" /\ ValuesNext
          /\ UNCHANGED <<servicesVars, mocksVars, metadataVars, viewVars, tckVars>>
       \/ /\ part = "views" /\ ViewNext
          /\ UNCHANGED <<servicesVars, mocksVars, metadataVars, valuesVars, tckVars>>
       \/ /\ part = "tck" /\ TckNext
          /\ UNCHANGED <<servicesVars, mocksVars, metadataVars, valuesVars, viewVars>>
    /\ UNCHANGED part

LibrarySpec == LibraryInit /\ [][LibraryNext]_libraryVars

\* Every variable of every part keeps its type and its bounds.
TypeOK ==
    /\ part \in Parts
    /\ ServicesTypeOK /\ MocksTypeOK /\ MetadataTypeOK /\ ValuesTypeOK /\ ViewTypeOK
    /\ TckTypeOK
=============================================================================
