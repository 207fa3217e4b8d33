CONSTANT DescLen = 2
SPECIFICATION Spec
INVARIANT NoUseAfterRelease
