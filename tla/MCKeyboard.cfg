SPECIFICATION Spec
CONSTANT OtherCodes <- SomeCodes
INVARIANT ModifiersFollowKeys
INVARIANT KeysTypeWhatTheyShow
